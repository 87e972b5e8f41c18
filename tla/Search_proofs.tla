----------------------------- MODULE Search_proofs -----------------------------
(***************************************************************************)
(* Proofs about the chess searches: the CPU backends (CpuSearch), for any  *)
(* game, depth, ranks, threads and splits; device_search (DeviceSearch),   *)
(* for every tree build_node may make, every node it is called on and      *)
(* every depth; and the host of the offloaded backends (Offload).          *)
(***************************************************************************)
EXTENDS CpuSearch, DeviceSearch, Offload, WellFoundedInduction, TLAPS

(* Of the numbers with a property there is a least.                          *)
LEMMA Least ==
  ASSUME NEW D \in SUBSET Nat, D # {}
  PROVE  \E d \in D : \A e \in D : d <= e
  <1>1. PICK d \in D : \A e \in D : ~(<<e, d>> \in OpToRel(<, Nat))
    BY NatLessThanWellFounded, WFMin
  <1>2. \A e \in D : ~(e < d)
    BY <1>1 DEF OpToRel
  <1> QED
    BY <1>2

(* A list can be made from its first element by steps.                       *)
CanBeMade(n, V, first, step) ==
    \E f \in [0 .. n -> V] : f[0] = first /\ \A i \in 1 .. n : f[i] = step[i][f[i - 1]]

LEMMA Steps ==
  ASSUME NEW n \in Nat, NEW V, NEW first \in V, NEW step \in [1 .. n -> [V -> V]]
  PROVE  CanBeMade(n, V, first, step)
  <1> DEFINE Made(k) == \E f \in [0 .. k -> V] :
                           f[0] = first /\ \A i \in 1 .. k : f[i] = step[i][f[i - 1]]
             Bad == {k \in 0 .. n : ~Made(k)}
  <1>1. SUFFICES ASSUME Bad # {} PROVE FALSE
    <2>1. n \in 0 .. n
      OBVIOUS
    <2> QED
      BY <2>1 DEF CanBeMade
  <1>2. PICK k \in Bad : \A e \in Bad : k <= e
    <2>1. Bad \in SUBSET Nat
      OBVIOUS
    <2> HIDE DEF Bad
    <2> QED
      BY <1>1, <2>1, Least
  <1>3. CASE k = 0
    <2> DEFINE one == [i \in 0 .. 0 |-> first]
    <2>1. one \in [0 .. 0 -> V] /\ one[0] = first /\ \A i \in 1 .. 0 : FALSE
      OBVIOUS
    <2>2. Made(0)
      BY <2>1
    <2> QED
      BY <1>2, <1>3, <2>2
  <1>4. CASE k # 0
    <2>1. k - 1 \in 0 .. n /\ k - 1 \notin Bad
      BY <1>2, <1>4
    <2>2. PICK f \in [0 .. k - 1 -> V] :
             f[0] = first /\ \A i \in 1 .. k - 1 : f[i] = step[i][f[i - 1]]
      BY <2>1
    <2> DEFINE g == [i \in 0 .. k |-> IF i = k THEN step[k][f[k - 1]] ELSE f[i]]
    <2>3. k \in 1 .. n /\ k - 1 \in 0 .. k - 1
      BY <1>2, <1>4
    <2>4. step[k][f[k - 1]] \in V
      BY <2>3
    <2>5. g \in [0 .. k -> V]
      BY <2>3, <2>4
    <2>6. g[0] = first
      BY <2>2, <2>3
    <2>7. ASSUME NEW i \in 1 .. k PROVE g[i] = step[i][g[i - 1]]
      BY <2>2, <2>3
    <2>8. Made(k)
      BY <2>5, <2>6, <2>7
    <2> QED
      BY <1>2, <2>8
  <1> QED
    BY <1>3, <1>4

(* A function of the arguments S that takes its values from those of lower   *)
(* rank exists.                                                              *)
Contracts(S, V, rank, T) ==
    /\ rank \in [S -> Nat]
    /\ T \in [[S -> V] -> [S -> V]]
    /\ \A g, h \in [S -> V], n \in S :
          (\A m \in S : rank[m] < rank[n] => g[m] = h[m]) => T[g][n] = T[h][n]

LEMMA FixedPoint ==
  ASSUME NEW S, NEW V, NEW rank, NEW T, NEW any \in V, Contracts(S, V, rank, T)
  PROVE  \E g \in [S -> V] : g = T[g]
  <1> USE DEF Contracts
  <1> DEFINE Upto(g, d) == \A n \in S : rank[n] <= d => g[n] = T[g][n]
             Bad == {d \in Nat : ~ \E g \in [S -> V] : Upto(g, d)}
  <1>1. \A d \in Nat : \E g \in [S -> V] : Upto(g, d)
    <2>1. SUFFICES ASSUME Bad # {} PROVE FALSE
      OBVIOUS
    <2>2. PICK d \in Bad : \A e \in Bad : d <= e
      BY <2>1, Least
    <2>3. \E h \in [S -> V] : \A n \in S : rank[n] < d => h[n] = T[h][n]
      <3>1. CASE d = 0
        <4>1. [n \in S |-> any] \in [S -> V]
          OBVIOUS
        <4>2. \A n \in S : ~(rank[n] < d)
          BY <3>1
        <4> QED
          BY <4>1, <4>2
      <3>2. CASE d # 0
        <4>1. d - 1 \in Nat /\ d - 1 \notin Bad
          BY <2>2, <3>2
        <4>2. PICK h \in [S -> V] : Upto(h, d - 1)
          BY <4>1
        <4> QED
          BY <4>2
      <3> QED
        BY <3>1, <3>2
    <2>4. PICK h \in [S -> V] : \A n \in S : rank[n] < d => h[n] = T[h][n]
      BY <2>3
    <2>5. T[h] \in [S -> V]
      OBVIOUS
    <2>6. ASSUME NEW n \in S, rank[n] <= d
          PROVE  T[h][n] = T[T[h]][n]
      <3>1. \A m \in S : rank[m] < rank[n] => h[m] = T[h][m]
        BY <2>4, <2>6
      <3> QED
        BY <2>5, <3>1
    <2>7. Upto(T[h], d)
      BY <2>6
    <2> QED
      BY <2>2, <2>5, <2>7
  <1>2. ASSUME NEW d \in Nat, NEW g \in [S -> V], NEW h \in [S -> V], Upto(g, d), Upto(h, d)
        PROVE  \A n \in S : rank[n] <= d => g[n] = h[n]
    <2> DEFINE Differ == {k \in Nat : \E n \in S : rank[n] = k /\ k <= d /\ g[n] # h[n]}
    <2>1. SUFFICES ASSUME Differ # {} PROVE FALSE
      OBVIOUS
    <2>2. PICK k \in Differ : \A e \in Differ : k <= e
      BY <2>1, Least
    <2>3. PICK n \in S : rank[n] = k /\ k <= d /\ g[n] # h[n]
      BY <2>2
    <2>4. \A m \in S : rank[m] < rank[n] => g[m] = h[m]
      BY <2>2, <2>3
    <2>5. T[g][n] = T[h][n]
      BY <2>4
    <2> QED
      BY <1>2, <2>3, <2>5
  <1> DEFINE Best(d) == CHOOSE g \in [S -> V] : Upto(g, d)
  <1>3. \A d \in Nat : Best(d) \in [S -> V] /\ Upto(Best(d), d)
    BY <1>1
  <1> HIDE DEF Best
  <1> DEFINE G == [n \in S |-> Best(rank[n])[n]]
  <1>4. G \in [S -> V]
    BY <1>3
  <1>5. ASSUME NEW n \in S PROVE G[n] = T[G][n]
    <2>1. Best(rank[n]) \in [S -> V] /\ Upto(Best(rank[n]), rank[n])
      BY <1>3
    <2>2. ASSUME NEW m \in S, rank[m] < rank[n]
          PROVE  Best(rank[n])[m] = G[m]
      <3>1. Best(rank[m]) \in [S -> V] /\ Upto(Best(rank[m]), rank[m])
        BY <1>3
      <3>2. Upto(Best(rank[n]), rank[m])
        BY <2>1, <2>2
      <3> QED
        BY <1>2, <2>1, <3>1, <3>2
    <2>3. T[Best(rank[n])][n] = T[G][n]
      BY <1>4, <2>1, <2>2
    <2> QED
      BY <2>1, <2>3
  <1> QED
    BY ZenonT(30), <1>4, <1>5
-----------------------------------------------------------------------------
(* The greatest of some numbers.                                             *)
LEMMA MaxIs ==
  ASSUME NEW S \in SUBSET Int, NEW m \in S, \A y \in S : y <= m
  PROVE  Max(S) = m
  <1>1. \A x \in S : (\A y \in S : x >= y) => x = m
    OBVIOUS
  <1>2. \A y \in S : m >= y
    OBVIOUS
  <1> QED
    BY <1>1, <1>2 DEF Max

LEMMA MaxOfTwo ==
  ASSUME NEW a \in Int, NEW b \in Int
  PROVE  /\ Max({a, b}) \in Int /\ Max({a, b}) >= a /\ Max({a, b}) >= b
         /\ Max({a, b}) = a \/ Max({a, b}) = b
  <1>1. CASE a >= b
    BY <1>1, MaxIs
  <1>2. CASE ~(a >= b)
    BY <1>2, MaxIs
  <1> QED
    BY <1>1, <1>2

LEMMA Greatest ==
  ASSUME NEW n \in Nat, NEW b \in Int, NEW f \in [1 .. n -> Int]
  PROVE  \E m \in Int : /\ m = b \/ \E i \in 1 .. n : m = f[i]
                        /\ b <= m /\ \A i \in 1 .. n : f[i] <= m
  <1> DEFINE Bad == {k \in 0 .. n : ~ \E m \in Int : /\ m = b \/ \E i \in 1 .. k : m = f[i]
                                                     /\ b <= m /\ \A i \in 1 .. k : f[i] <= m}
  <1>1. SUFFICES ASSUME Bad # {} PROVE FALSE
    <2>1. n \in 0 .. n
      OBVIOUS
    <2> QED
      BY <2>1
  <1>2. PICK k \in Bad : \A e \in Bad : k <= e
    <2>1. Bad \in SUBSET Nat
      OBVIOUS
    <2> HIDE DEF Bad
    <2> QED
      BY <1>1, <2>1, Least
  <1>3. k # 0
    BY <1>2
  <1>4. k - 1 \in 0 .. n /\ k - 1 \notin Bad
    <2>1. k \in 1 .. n
      BY <1>2, <1>3
    <2>2. k - 1 \in 0 .. n /\ ~(k <= k - 1)
      BY <2>1
    <2> HIDE DEF Bad
    <2> QED
      BY <1>2, <2>2
  <1>5. PICK m \in Int : /\ m = b \/ \E i \in 1 .. k - 1 : m = f[i]
                         /\ b <= m /\ \A i \in 1 .. k - 1 : f[i] <= m
    BY <1>4
  <1>6. f[k] \in Int /\ k \in 1 .. n
    <2>1. k \in 1 .. n
      BY <1>2, <1>3
    <2> QED
      BY <2>1
  <1>7. \A i \in 1 .. k : i = k \/ i \in 1 .. k - 1
    BY <1>6
  <1>8. CASE f[k] <= m
    BY <1>2, <1>5, <1>6, <1>7, <1>8
  <1>9. CASE ~(f[k] <= m)
    BY <1>2, <1>5, <1>6, <1>7, <1>9
  <1> QED
    BY <1>8, <1>9

(* The greatest of a number and those of a list.                             *)
LEMMA MaxOfList ==
  ASSUME NEW n \in Nat, NEW b \in Int, NEW f, \A i \in 1 .. n : f[i] \in Int
  PROVE  LET m == Max({b} \cup {f[i] : i \in 1 .. n})
         IN  /\ m \in Int
             /\ m = b \/ \E i \in 1 .. n : m = f[i]
             /\ b <= m /\ \A i \in 1 .. n : f[i] <= m
  <1> DEFINE g == [i \in 1 .. n |-> f[i]]
  <1>1. PICK m \in Int : /\ m = b \/ \E i \in 1 .. n : m = g[i]
                         /\ b <= m /\ \A i \in 1 .. n : g[i] <= m
    <2>1. g \in [1 .. n -> Int]
      OBVIOUS
    <2> HIDE DEF g
    <2> QED
      BY <2>1, Greatest
  <1>2. m \in {b} \cup {f[i] : i \in 1 .. n}
    BY <1>1
  <1>3. Max({b} \cup {f[i] : i \in 1 .. n}) = m
    BY <1>1, <1>2, MaxIs
  <1> QED
    BY <1>1, <1>3

(* m is the greatest of b and the n elements of f.                           *)
Tops(m, n, b, f) ==
    /\ m \in Int
    /\ m = b \/ \E i \in 1 .. n : m = f[i]
    /\ b <= m /\ \A i \in 1 .. n : f[i] <= m

LEMMA MaxTops ==
  ASSUME NEW n \in Nat, NEW b \in Int, NEW f, \A i \in 1 .. n : f[i] \in Int,
         NEW m, m = Max({b} \cup {f[i] : i \in 1 .. n})
  PROVE  Tops(m, n, b, f)
  BY MaxOfList DEF Tops

-----------------------------------------------------------------------------
(* The reference.                                                            *)
LEMMA Moves ==
  ASSUME NEW p \in Position
  PROVE  /\ p.next \in Seq(Position) /\ Len(p.next) \in Nat /\ DOMAIN p.next = 1 .. Len(p.next)
         /\ \A i \in 1 .. Len(p.next) : p.next[i] \in Position
  BY PositionAssumption

LEMMA StaticTyped ==
  ASSUME NEW p \in Position, NEW ply \in Nat
  PROVE  /\ StaticScore(p, ply) \in Int
         /\ -INF < StaticScore(p, ply)
         /\ ply < INF => StaticScore(p, ply) < INF
  <1>1. p.eval \in Int /\ -INF < p.eval /\ p.eval < INF
    BY PositionAssumption
  <1>2. StaticScore(p, ply) \in {ply - MATE, 0, p.eval}
    BY DEF StaticScore
  <1> QED
    BY <1>1, <1>2, GameTreeAssumption

MinimaxBody(g, n) ==
    IF Terminal(n.board) \/ n.depth = 0
      THEN StaticScore(n.board, n.ply)
      ELSE Max({-INF} \cup {-g[At(n.board.next[i], n.depth - 1, n.ply + 1)] :
                                i \in DOMAIN n.board.next})

LEMMA ChildSearched ==
  ASSUME NEW n \in Searched, n.depth # 0, NEW i \in 1 .. Len(n.board.next)
  PROVE  /\ At(n.board.next[i], n.depth - 1, n.ply + 1) \in Searched
         /\ At(n.board.next[i], n.depth - 1, n.ply + 1).depth = n.depth - 1
  BY Moves DEF Searched, At

LEMMA MinimaxBodyTyped ==
  ASSUME NEW g, NEW n \in Searched,
         n.depth # 0 => \A m \in Searched : m.depth < n.depth => g[m] \in Int
  PROVE  MinimaxBody(g, n) \in Int
  <1>1. CASE Terminal(n.board) \/ n.depth = 0
    BY <1>1, StaticTyped DEF MinimaxBody, Searched
  <1>2. CASE ~(Terminal(n.board) \/ n.depth = 0)
    <2> DEFINE f == [i \in 1 .. Len(n.board.next) |-> -g[At(n.board.next[i], n.depth - 1, n.ply + 1)]]
    <2>1. \A i \in 1 .. Len(n.board.next) : g[At(n.board.next[i], n.depth - 1, n.ply + 1)] \in Int
      <3> SUFFICES ASSUME NEW i \in 1 .. Len(n.board.next)
                   PROVE  g[At(n.board.next[i], n.depth - 1, n.ply + 1)] \in Int
        OBVIOUS
      <3>1. n.depth \in Nat
        BY DEF Searched
      <3> QED
        BY <1>2, <3>1, ChildSearched
    <2>2. \A i \in 1 .. Len(n.board.next) : f[i] \in Int
      BY <2>1
    <2>3. Len(n.board.next) \in Nat /\ DOMAIN n.board.next = 1 .. Len(n.board.next)
      BY Moves DEF Searched
    <2>4. MinimaxBody(g, n) = Max({-INF} \cup {f[i] : i \in 1 .. Len(n.board.next)})
      BY <1>2, <2>3 DEF MinimaxBody
    <2>5. -INF \in Int
      BY GameTreeAssumption
    <2> HIDE DEF f
    <2>6. Max({-INF} \cup {f[i] : i \in 1 .. Len(n.board.next)}) \in Int
      BY <2>2, <2>3, <2>5, MaxOfList
    <2> QED
      BY <2>4, <2>6
  <1> QED
    BY <1>1, <1>2

LEMMA MinimaxIs ==
  /\ minimax = [n \in Searched |-> MinimaxBody(minimax, n)]
  /\ \A n \in Searched : minimax[n] \in Int
  <1> DEFINE rank == [n \in Searched |-> n.depth]
             T == [g \in [Searched -> Int] |-> [n \in Searched |-> MinimaxBody(g, n)]]
  <1>1. rank \in [Searched -> Nat]
    BY DEF Searched
  <1>2. T \in [[Searched -> Int] -> [Searched -> Int]]
    <2>1. ASSUME NEW g \in [Searched -> Int], NEW n \in Searched PROVE MinimaxBody(g, n) \in Int
      BY MinimaxBodyTyped
    <2> QED
      BY <2>1
  <1>3. ASSUME NEW g \in [Searched -> Int], NEW h \in [Searched -> Int], NEW n \in Searched,
               \A m \in Searched : rank[m] < rank[n] => g[m] = h[m]
        PROVE  MinimaxBody(g, n) = MinimaxBody(h, n)
    <2>1. CASE Terminal(n.board) \/ n.depth = 0
      BY <2>1 DEF MinimaxBody
    <2>2. CASE ~(Terminal(n.board) \/ n.depth = 0)
      <3>1. \A i \in DOMAIN n.board.next : g[At(n.board.next[i], n.depth - 1, n.ply + 1)]
                                            = h[At(n.board.next[i], n.depth - 1, n.ply + 1)]
        <4> SUFFICES ASSUME NEW i \in DOMAIN n.board.next
                     PROVE  g[At(n.board.next[i], n.depth - 1, n.ply + 1)]
                            = h[At(n.board.next[i], n.depth - 1, n.ply + 1)]
          OBVIOUS
        <4>1. n.depth \in Nat /\ DOMAIN n.board.next = 1 .. Len(n.board.next)
          BY Moves DEF Searched
        <4> QED
          BY SMTT(30), <1>3, <2>2, <4>1, ChildSearched
      <3> QED
        BY <2>2, <3>1 DEF MinimaxBody
    <2> QED
      BY <2>1, <2>2
  <1>4. \E g \in [Searched -> Int] : g = T[g]
    <2>1. Contracts(Searched, Int, rank, T)
      <3>1. ASSUME NEW g \in [Searched -> Int], NEW h \in [Searched -> Int], NEW n \in Searched,
                   \A m \in Searched : rank[m] < rank[n] => g[m] = h[m]
            PROVE  T[g][n] = T[h][n]
        BY <1>3, <3>1
      <3> HIDE DEF T, rank
      <3> QED
        BY <1>1, <1>2, <3>1 DEF Contracts
    <2> HIDE DEF T, rank
    <2> QED
      BY <2>1, FixedPoint, 0 \in Int
  <1>5. \E g : g = [n \in Searched |-> MinimaxBody(g, n)]
    BY <1>4
  <1>6. minimax = CHOOSE g : g = [n \in Searched |-> MinimaxBody(g, n)]
    BY DEF minimax, MinimaxBody
  <1>7. minimax = [n \in Searched |-> MinimaxBody(minimax, n)]
    BY <1>5, <1>6
  <1>8. \A n \in Searched : minimax[n] \in Int
    <2> DEFINE Bad == {d \in Nat : \E n \in Searched : n.depth = d /\ minimax[n] \notin Int}
    <2>1. SUFFICES ASSUME Bad # {} PROVE FALSE
      BY DEF Searched
    <2>2. PICK d \in Bad : \A e \in Bad : d <= e
      <3>1. Bad \in SUBSET Nat
        OBVIOUS
      <3> HIDE DEF Bad
      <3> QED
        BY <2>1, <3>1, Least
    <2>3. PICK n \in Searched : n.depth = d /\ minimax[n] \notin Int
      BY <2>2
    <2>4. \A m \in Searched : m.depth < d => minimax[m] \in Int
      BY <2>2 DEF Searched
    <2>5. minimax[n] = MinimaxBody(minimax, n)
      BY <1>7
    <2> QED
      BY <2>3, <2>4, <2>5, MinimaxBodyTyped
  <1> QED
    BY <1>7, <1>8

-----------------------------------------------------------------------------
(* The recursion of negamax.                                                 *)
Loops == [best : Int, alpha : Int, nodes : Nat, cut : BOOLEAN]
Results == [score : Int, nodes : Nat]

Begun(c) == [best |-> -INF, alpha |-> c.alpha, nodes |-> 1, cut |-> FALSE]

(* How the loop of c calls negamax for its i-th move.                        *)
Below(c, i, l) ==
    Call(c.board.next[i], c.depth - 1, c.ply + 1,
         ChildWindow(l.alpha, c.beta).alpha, ChildWindow(l.alpha, c.beta).beta, c.prune)

Turn(g, c, i, l) == IF l.cut THEN l ELSE After(l, g[Below(c, i, l)], c.beta, c.prune)

TurnOnce(g, c, i, l) ==
    With(l, LAMBDA loop :
       IF loop.cut THEN loop
       ELSE With(g[Below(c, i, loop)], LAMBDA child : After(loop, child, c.beta, c.prune)))

TurnsOf(g, c) ==
    CHOOSE f : f = [i \in 0 .. Len(c.board.next) |->
                      IF i = 0 THEN Begun(c) ELSE TurnOnce(g, c, i, f[i - 1])]

NegamaxBody(g, c) ==
    IF Terminal(c.board) \/ c.depth = 0
      THEN [score |-> StaticScore(c.board, c.ply), nodes |-> 1]
      ELSE [score |-> TurnsOf(g, c)[Len(c.board.next)].best,
            nodes |-> TurnsOf(g, c)[Len(c.board.next)].nodes]

LEMMA TurnOnceIs ==
  ASSUME NEW g, NEW c, NEW i, NEW l
  PROVE  TurnOnce(g, c, i, l) = Turn(g, c, i, l)
  <1>1. With(g[Below(c, i, l)], LAMBDA child : After(l, child, c.beta, c.prune))
        = After(l, g[Below(c, i, l)], c.beta, c.prune)
    BY DEF With
  <1>2. TurnOnce(g, c, i, l) =
           IF l.cut THEN l
           ELSE With(g[Below(c, i, l)], LAMBDA child : After(l, child, c.beta, c.prune))
    BY DEF TurnOnce, With
  <1> QED
    BY <1>1, <1>2 DEF Turn

LEMMA CallTyped ==
  ASSUME NEW c \in Calls, c.depth # 0, NEW i \in 1 .. Len(c.board.next), NEW l \in Loops
  PROVE  /\ Below(c, i, l) \in Calls
         /\ Below(c, i, l).depth < c.depth
         /\ Below(c, i, l).board = c.board.next[i] /\ Below(c, i, l).depth = c.depth - 1
         /\ Below(c, i, l).ply = c.ply + 1 /\ Below(c, i, l).prune = c.prune
         /\ Below(c, i, l).alpha = -c.beta /\ Below(c, i, l).beta = -l.alpha
  <1>1. /\ c.board \in Position /\ c.depth \in Nat /\ c.ply \in Nat /\ c.prune \in BOOLEAN
        /\ c.beta \in Int /\ l.alpha \in Int
    BY DEF Calls, Loops
  <1>2. c.board.next[i] \in Position
    BY <1>1, Moves
  <1> QED
    BY SMTT(30), <1>1, <1>2 DEF Below, Call, ChildWindow, Calls

LEMMA AfterTyped ==
  ASSUME NEW l \in Loops, NEW child \in Results, NEW beta \in Int, NEW prune \in BOOLEAN
  PROVE  After(l, child, beta, prune) \in Loops
  <1>1. /\ l.best \in Int /\ l.alpha \in Int /\ l.nodes \in Nat
        /\ -child.score \in Int /\ child.nodes \in Nat
    BY DEF Loops, Results
  <1>2. Max({l.alpha, -child.score}) \in Int /\ Max({l.best, -child.score}) \in Int
    BY <1>1, MaxOfTwo
  <1> QED
    BY <1>1, <1>2 DEF After, Loops

TypedBelow(g, c) == c.depth # 0 => \A m \in Calls : m.depth < c.depth => g[m] \in Results

LEMMA TurnTyped ==
  ASSUME NEW g, NEW c \in Calls, c.depth # 0, TypedBelow(g, c),
         NEW i \in 1 .. Len(c.board.next), NEW l \in Loops
  PROVE  Turn(g, c, i, l) \in Loops
  <1>1. g[Below(c, i, l)] \in Results
    BY CallTyped DEF TypedBelow
  <1>2. c.beta \in Int /\ c.prune \in BOOLEAN
    BY DEF Calls
  <1> QED
    BY <1>1, <1>2, AfterTyped DEF Turn

LEMMA TurnsAre ==
  ASSUME NEW g, NEW c \in Calls, c.depth # 0, TypedBelow(g, c)
  PROVE  /\ Len(c.board.next) \in Nat
         /\ TurnsOf(g, c) \in [0 .. Len(c.board.next) -> Loops]
         /\ TurnsOf(g, c)[0] = Begun(c)
         /\ \A i \in 1 .. Len(c.board.next) :
               TurnsOf(g, c)[i] = Turn(g, c, i, TurnsOf(g, c)[i - 1])
  <1> DEFINE n == Len(c.board.next)
             step == [i \in 1 .. n |-> [l \in Loops |-> Turn(g, c, i, l)]]
  <1>1. n \in Nat
    BY Moves DEF Calls
  <1>2. Begun(c) \in Loops
    BY GameTreeAssumption DEF Begun, Loops, Calls
  <1>3. step \in [1 .. n -> [Loops -> Loops]]
    BY TurnTyped
  <1>4. PICK f \in [0 .. n -> Loops] :
           f[0] = Begun(c) /\ \A i \in 1 .. n : f[i] = step[i][f[i - 1]]
    <2> HIDE DEF step, n
    <2>1. CanBeMade(n, Loops, Begun(c), step)
      BY <1>1, <1>2, <1>3, Steps
    <2> QED
      BY <2>1 DEF CanBeMade
  <1>5. ASSUME NEW i \in 1 .. n PROVE f[i] = TurnOnce(g, c, i, f[i - 1])
    <2>1. f[i - 1] \in Loops
      BY <1>1
    <2> QED
      BY <1>4, <2>1, TurnOnceIs
  <1>6. f = [i \in 0 .. n |-> IF i = 0 THEN Begun(c) ELSE TurnOnce(g, c, i, f[i - 1])]
    <2>1. \A i \in 0 .. n : i = 0 \/ i \in 1 .. n
      BY <1>1
    <2> HIDE DEF step, n
    <2> QED
      BY <1>4, <1>5, <2>1
  <1> DEFINE t == TurnsOf(g, c)
  <1>7. t = [i \in 0 .. n |-> IF i = 0 THEN Begun(c) ELSE TurnOnce(g, c, i, t[i - 1])]
    BY <1>6 DEF TurnsOf
  <1> HIDE DEF t, step, n
  <1>8. t[0] = Begun(c) /\ \A i \in 1 .. n : t[i] = Turn(g, c, i, t[i - 1])
    <2>1. 0 \in 0 .. n /\ \A i \in 1 .. n : i \in 0 .. n /\ i # 0
      BY <1>1
    <2>2. t[0] = Begun(c)
      BY <1>7, <2>1
    <2>3. \A i \in 1 .. n : t[i] = TurnOnce(g, c, i, t[i - 1])
      BY <1>7, <2>1
    <2> QED
      BY <2>2, <2>3, TurnOnceIs
  <1>9. \A i \in 0 .. n : t[i] \in Loops
    <2> DEFINE Bad == {i \in 0 .. n : t[i] \notin Loops}
    <2>1. SUFFICES ASSUME Bad # {} PROVE FALSE
      OBVIOUS
    <2>2. PICK i \in Bad : \A e \in Bad : i <= e
      <3>1. Bad \in SUBSET Nat
        BY <1>1
      <3> HIDE DEF Bad
      <3> QED
        BY <2>1, <3>1, Least
    <2>3. i \in 1 .. n
      BY <1>1, <1>2, <1>8, <2>2
    <2>4. i - 1 \in 0 .. n /\ ~(i <= i - 1)
      BY <1>1, <2>3
    <2>5. t[i - 1] \in Loops
      BY <2>2, <2>4
    <2>6. t[i] = Turn(g, c, i, t[i - 1])
      BY <1>8, <2>3
    <2> QED
      BY <2>2, <2>3, <2>5, <2>6, TurnTyped DEF n
  <1>10. DOMAIN t = 0 .. n
    BY <1>7
  <1>11. t \in [0 .. n -> Loops]
    BY <1>7, <1>9
  <1> QED
    BY <1>1, <1>8, <1>11 DEF t, n

LEMMA NegamaxBodyTyped ==
  ASSUME NEW g, NEW c \in Calls, TypedBelow(g, c)
  PROVE  NegamaxBody(g, c) \in Results
  <1>1. CASE Terminal(c.board) \/ c.depth = 0
    <2>1. StaticScore(c.board, c.ply) \in Int
      BY StaticTyped DEF Calls
    <2> QED
      BY <1>1, <2>1 DEF NegamaxBody, Results
  <1>2. CASE ~(Terminal(c.board) \/ c.depth = 0)
    <2>1. TurnsOf(g, c)[Len(c.board.next)] \in Loops
      BY <1>2, TurnsAre
    <2> QED
      BY <1>2, <2>1 DEF NegamaxBody, Results, Loops
  <1> QED
    BY <1>1, <1>2

LEMMA NegamaxBodyLocal ==
  ASSUME NEW g, NEW h, NEW c \in Calls, TypedBelow(g, c), TypedBelow(h, c),
         \A m \in Calls : m.depth < c.depth => g[m] = h[m]
  PROVE  NegamaxBody(g, c) = NegamaxBody(h, c)
  <1>1. CASE Terminal(c.board) \/ c.depth = 0
    BY <1>1 DEF NegamaxBody
  <1>2. CASE ~(Terminal(c.board) \/ c.depth = 0)
    <2> DEFINE n == Len(c.board.next)
               s == TurnsOf(g, c)
               t == TurnsOf(h, c)
               Bad == {i \in 0 .. n : s[i] # t[i]}
    <2>1. /\ n \in Nat /\ s[0] = Begun(c) /\ t[0] = Begun(c)
          /\ s \in [0 .. n -> Loops] /\ t \in [0 .. n -> Loops]
          /\ \A i \in 1 .. n : s[i] = Turn(g, c, i, s[i - 1])
          /\ \A i \in 1 .. n : t[i] = Turn(h, c, i, t[i - 1])
      BY <1>2, TurnsAre
    <2>2. Bad = {}
      <3> HIDE DEF s, t
      <3>1. SUFFICES ASSUME Bad # {} PROVE FALSE
        OBVIOUS
      <3>2. PICK i \in Bad : \A e \in Bad : i <= e
        <4>1. Bad \in SUBSET Nat
          BY <2>1
        <4> HIDE DEF Bad
        <4> QED
          BY <3>1, <4>1, Least
      <3>3. i \in 1 .. n
        BY <2>1, <3>2
      <3>4. i - 1 \in 0 .. n /\ ~(i <= i - 1)
        BY <2>1, <3>3
      <3>5. s[i - 1] = t[i - 1] /\ s[i - 1] \in Loops
        BY <2>1, <3>2, <3>4
      <3>6. g[Below(c, i, s[i - 1])] = h[Below(c, i, s[i - 1])]
        BY <1>2, <3>3, <3>5, CallTyped
      <3>7. s[i] = Turn(g, c, i, s[i - 1]) /\ t[i] = Turn(h, c, i, s[i - 1])
        BY <2>1, <3>3, <3>5
      <3>8. s[i] = t[i]
        BY <3>6, <3>7 DEF Turn
      <3> QED
        BY <3>2, <3>8
    <2>3. s[n] = t[n]
      <3> HIDE DEF s, t, n
      <3> QED
        BY <2>1, <2>2
    <2> QED
      BY <1>2, <2>3 DEF NegamaxBody
  <1> QED
    BY <1>1, <1>2

LEMMA NegamaxIs ==
  /\ negamax = [c \in Calls |-> NegamaxBody(negamax, c)]
  /\ \A c \in Calls : negamax[c] \in Results
  <1> DEFINE rank == [c \in Calls |-> c.depth]
             T == [g \in [Calls -> Results] |-> [c \in Calls |-> NegamaxBody(g, c)]]
  <1>1. rank \in [Calls -> Nat]
    BY DEF Calls
  <1>2. \A g \in [Calls -> Results], c \in Calls : TypedBelow(g, c)
    BY DEF TypedBelow
  <1>3. T \in [[Calls -> Results] -> [Calls -> Results]]
    <2>1. ASSUME NEW g \in [Calls -> Results], NEW c \in Calls PROVE NegamaxBody(g, c) \in Results
      BY <1>2, NegamaxBodyTyped
    <2> QED
      BY <2>1
  <1>4. \E g \in [Calls -> Results] : g = T[g]
    <2>1. ASSUME NEW g \in [Calls -> Results], NEW h \in [Calls -> Results], NEW c \in Calls,
                 \A m \in Calls : rank[m] < rank[c] => g[m] = h[m]
          PROVE  T[g][c] = T[h][c]
      <3>1. NegamaxBody(g, c) = NegamaxBody(h, c)
        BY <1>2, <2>1, NegamaxBodyLocal
      <3> QED
        BY <3>1
    <2> HIDE DEF T, rank
    <2>2. Contracts(Calls, Results, rank, T)
      BY <1>1, <1>3, <2>1 DEF Contracts
    <2>3. [score |-> 0, nodes |-> 0] \in Results
      BY DEF Results
    <2> QED
      BY <2>2, <2>3, FixedPoint
  <1>5. \E g : g = [c \in Calls |-> NegamaxBody(g, c)]
    BY <1>4
  <1>6. negamax = CHOOSE g : g = [c \in Calls |-> NegamaxBody(g, c)]
    BY DEF negamax, NegamaxBody, TurnsOf, TurnOnce, Begun, Below
  <1>7. negamax = [c \in Calls |-> NegamaxBody(negamax, c)]
    BY <1>5, <1>6
  <1>8. \A c \in Calls : negamax[c] \in Results
    <2> DEFINE Bad == {d \in Nat : \E c \in Calls : c.depth = d /\ negamax[c] \notin Results}
    <2>1. SUFFICES ASSUME Bad # {} PROVE FALSE
      BY DEF Calls
    <2>2. PICK d \in Bad : \A e \in Bad : d <= e
      <3>1. Bad \in SUBSET Nat
        OBVIOUS
      <3> HIDE DEF Bad
      <3> QED
        BY <2>1, <3>1, Least
    <2>3. PICK c \in Calls : c.depth = d /\ negamax[c] \notin Results
      BY <2>2
    <2>4. TypedBelow(negamax, c)
      BY <2>2, <2>3 DEF TypedBelow, Calls
    <2>5. negamax[c] = NegamaxBody(negamax, c)
      BY <1>7
    <2> QED
      BY <2>3, <2>4, <2>5, NegamaxBodyTyped
  <1> QED
    BY <1>7, <1>8

-----------------------------------------------------------------------------
(* Alpha-beta pruning.                                                       *)
WorthOf(c) == minimax[At(c.board, c.depth, c.ply)]

(* What the result r of a search says of the value v.                        *)
Says(r, v, alpha, beta) == /\ r <= alpha => v <= r
                           /\ r >= beta => r <= v
                           /\ alpha < r /\ r < beta => r = v

(* The windows the search opens.                                            *)
Window(c) == -INF <= c.alpha /\ c.alpha < c.beta /\ c.beta <= INF

Sound(c) == Window(c) =>
               IF c.prune THEN Says(negamax[c].score, WorthOf(c), c.alpha, c.beta)
               ELSE negamax[c].score = WorthOf(c)

(* What the i-th move is worth to the side that makes it.                    *)
Gain(c, i) == -minimax[At(c.board.next[i], c.depth - 1, c.ply + 1)]

(* What the loop knows after i moves.                                        *)
LoopKnows(c, i, l) ==
    /\ ~l.cut =>
         /\ -INF <= l.best
         /\ \A j \in 1 .. i : Gain(c, j) <= l.best
         /\ IF c.prune THEN /\ c.alpha <= l.alpha /\ l.best <= l.alpha /\ l.alpha < c.beta
                            /\ l.alpha = c.alpha \/ l.alpha = l.best
                       ELSE l.alpha = c.alpha
         /\ (c.prune => c.alpha < l.best) =>
               l.best = -INF \/ \E j \in 1 .. i : l.best <= Gain(c, j)
    /\ l.cut => c.prune /\ c.beta <= l.best /\ \E j \in 1 .. i : l.best <= Gain(c, j)

LEMMA GainTyped ==
  ASSUME NEW c \in Calls, c.depth # 0, NEW i \in 1 .. Len(c.board.next)
  PROVE  /\ At(c.board.next[i], c.depth - 1, c.ply + 1) \in Searched
         /\ Gain(c, i) \in Int
  <1>1. At(c.board.next[i], c.depth - 1, c.ply + 1) \in Searched
    <2>1. c.board \in Position /\ c.depth \in Nat /\ c.ply \in Nat
      BY DEF Calls
    <2> QED
      BY <2>1, Moves DEF Searched, At
  <1> QED
    BY <1>1, MinimaxIs DEF Gain

(* What the loop knows after a move that beta did not cut off, whatever      *)
(* searched it.                                                              *)
LEMMA AfterKnows ==
  ASSUME NEW c \in Calls, c.depth # 0, Window(c), c.prune,
         NEW i \in 1 .. Len(c.board.next), NEW l \in Loops, LoopKnows(c, i - 1, l), ~l.cut,
         NEW r \in Results, Says(r.score, -Gain(c, i), -c.beta, -l.alpha)
  PROVE  LoopKnows(c, i, After(l, r, c.beta, TRUE))
  <1> DEFINE k == After(l, r, c.beta, TRUE)
  <1> SUFFICES LoopKnows(c, i, k)
    OBVIOUS
  <1>0. /\ i \in Nat /\ i - 1 \in Nat /\ 1 .. i = (1 .. (i - 1)) \cup {i}
        /\ c.alpha \in Int /\ c.beta \in Int /\ c.prune \in BOOLEAN
        /\ l.best \in Int /\ l.alpha \in Int /\ l.cut \in BOOLEAN /\ INF \in Int
        /\ -INF <= c.alpha /\ c.alpha < c.beta /\ c.beta <= INF
        /\ \A j \in 1 .. i : Gain(c, j) \in Int
    <2>1. c.board \in Position
      BY DEF Calls
    <2>2. i \in Nat /\ 1 .. i = (1 .. (i - 1)) \cup {i} /\ \A j \in 1 .. i : j \in 1 .. Len(c.board.next)
      BY <2>1, Moves
    <2> QED
      BY <2>2, GainTyped, GameTreeAssumption DEF Calls, Loops, Window
  <1>1. PICK s \in Int : s = r.score
    BY DEF Results
  <1>2. PICK t \in Int : t = -s
    OBVIOUS
  <1>3. /\ k.best \in Int /\ k.best >= l.best /\ k.best >= t /\ (k.best = l.best \/ k.best = t)
    <2>1. k.best = Max({l.best, t})
      BY <1>1, <1>2 DEF After
    <2> HIDE DEF k
    <2>2. l.best \in Int
      BY <1>0
    <2>3. /\ Max({l.best, t}) \in Int /\ Max({l.best, t}) >= l.best /\ Max({l.best, t}) >= t
          /\ Max({l.best, t}) = l.best \/ Max({l.best, t}) = t
      BY Zenon, <2>2, MaxOfTwo
    <2> QED
      BY Zenon, <2>1, <2>3
  <1>4. Says(s, -Gain(c, i), -c.beta, -l.alpha)
    BY <1>1
  <1>5. k.alpha = Max({l.alpha, t}) /\ k.cut = (k.alpha >= c.beta)
    BY <1>1, <1>2 DEF After
  <1> HIDE DEF k
  <1>6. k.alpha \in Int /\ k.alpha >= l.alpha /\ k.alpha >= t /\ (k.alpha = l.alpha \/ k.alpha = t)
    <2>1. l.alpha \in Int
      BY <1>0
    <2>2. /\ Max({l.alpha, t}) \in Int /\ Max({l.alpha, t}) >= l.alpha /\ Max({l.alpha, t}) >= t
          /\ Max({l.alpha, t}) = l.alpha \/ Max({l.alpha, t}) = t
      BY Zenon, <2>1, MaxOfTwo
    <2> QED
      BY Zenon, <1>5, <2>2
  <1>7. PICK w \in Int : w = Gain(c, i)
    BY <1>0
  <1>8. Says(-t, -w, -c.beta, -l.alpha)
    BY <1>2, <1>4, <1>7
  <1>9. CASE k.alpha >= c.beta
    <2>1. ~l.cut /\ l.best <= l.alpha /\ l.alpha < c.beta
      BY DEF LoopKnows
    <2>2. k.best = t /\ c.beta <= t /\ t <= w
      BY SMTT(30), <1>0, <1>3, <1>6, <1>8, <1>9, <2>1 DEF Says
    <2>3. k.cut /\ c.beta <= k.best /\ k.best <= Gain(c, i)
      BY <1>5, <1>7, <1>9, <2>2
    <2> QED
      BY <1>0, <2>3 DEF LoopKnows
  <1>10. CASE ~(k.alpha >= c.beta)
    <2>1. /\ -INF <= l.best /\ \A j \in 1 .. (i - 1) : Gain(c, j) <= l.best
          /\ c.alpha <= l.alpha /\ l.best <= l.alpha /\ l.alpha < c.beta
          /\ (l.alpha = c.alpha \/ l.alpha = l.best)
          /\ (c.alpha < l.best => l.best = -INF \/ \E j \in 1 .. (i - 1) : l.best <= Gain(c, j))
      BY DEF LoopKnows
    <2>2. t < c.beta /\ w <= t
      BY SMTT(30), <1>0, <1>6, <1>8, <1>10 DEF Says
    <2>3. \A j \in 1 .. i : Gain(c, j) <= k.best
      <3>1. \A j \in 1 .. (i - 1) : Gain(c, j) <= k.best
        BY <1>0, <1>3, <2>1
      <3>2. Gain(c, i) <= k.best
        BY <1>3, <1>7, <2>2
      <3> QED
        BY <1>0, <3>1, <3>2
    <2>4. /\ -INF <= k.best /\ c.alpha <= k.alpha /\ k.best <= k.alpha /\ k.alpha < c.beta
          /\ (k.alpha = c.alpha \/ k.alpha = k.best)
      BY <1>0, <1>3, <1>6, <1>10, <2>1
    <2>5. c.alpha < k.best => k.best = -INF \/ \E j \in 1 .. i : k.best <= Gain(c, j)
      <3>1. CASE k.best = l.best
        BY <1>0, <2>1, <3>1
      <3>2. CASE k.best # l.best
        <4>1. c.alpha < t => t = w
          BY SMTT(30), <1>0, <1>3, <1>8, <2>1, <2>2, <3>2 DEF Says
        <4> QED
          BY <1>0, <1>3, <1>7, <3>2, <4>1
      <3> QED
        BY <3>1, <3>2
    <2>6. ~k.cut
      BY <1>5, <1>10
    <2> QED
      BY <2>3, <2>4, <2>5, <2>6 DEF LoopKnows
  <1> QED
    BY <1>9, <1>10

LEMMA TurnKnows ==
  ASSUME NEW c \in Calls, c.depth # 0, Window(c),
         \A m \in Calls : m.depth < c.depth => Sound(m),
         NEW i \in 1 .. Len(c.board.next), NEW l \in Loops, LoopKnows(c, i - 1, l)
  PROVE  LoopKnows(c, i, Turn(negamax, c, i, l))
  <1>0. /\ i \in Nat /\ i - 1 \in Nat /\ 1 .. i = (1 .. (i - 1)) \cup {i}
        /\ c.alpha \in Int /\ c.beta \in Int /\ c.prune \in BOOLEAN
        /\ l.best \in Int /\ l.alpha \in Int /\ l.cut \in BOOLEAN /\ INF \in Int
        /\ -INF <= c.alpha /\ c.alpha < c.beta /\ c.beta <= INF
        /\ \A j \in 1 .. i : Gain(c, j) \in Int
    <2>1. c.board \in Position
      BY DEF Calls
    <2>2. i \in Nat /\ 1 .. i = (1 .. (i - 1)) \cup {i} /\ \A j \in 1 .. i : j \in 1 .. Len(c.board.next)
      BY <2>1, Moves
    <2> QED
      BY <2>2, GainTyped, GameTreeAssumption DEF Calls, Loops, Window
  <1>1. CASE l.cut
    BY <1>0, <1>1 DEF LoopKnows, Turn
  <1>2. CASE ~l.cut
    <2> DEFINE m == Below(c, i, l)
               s == negamax[m].score
               k == After(l, negamax[m], c.beta, c.prune)
    <2>1. /\ m \in Calls /\ m.depth < c.depth /\ m.prune = c.prune
          /\ m.alpha = -c.beta /\ m.beta = -l.alpha
          /\ WorthOf(m) = -Gain(c, i)
      <3>1. minimax[At(c.board.next[i], c.depth - 1, c.ply + 1)] \in Int
        BY GainTyped, MinimaxIs
      <3> QED
        BY <3>1, CallTyped DEF WorthOf, Gain
    <2>2. s \in Int
      BY <2>1, NegamaxIs DEF Results
    <2>3. Turn(negamax, c, i, l) = k
      BY <1>2 DEF Turn
    <2>4. Sound(m)
      BY <2>1
    <2> HIDE DEF m, s
    <2>5. PICK t \in Int : t = -s
      BY <2>2
    <2>6. /\ k.best \in Int /\ k.best >= l.best /\ k.best >= t /\ (k.best = l.best \/ k.best = t)
      <3>1. k.best = Max({l.best, t})
        BY <2>5 DEF s, After
      <3> HIDE DEF k
      <3>2. l.best \in Int
        BY <1>0
      <3>3. /\ Max({l.best, t}) \in Int /\ Max({l.best, t}) >= l.best /\ Max({l.best, t}) >= t
            /\ Max({l.best, t}) = l.best \/ Max({l.best, t}) = t
        BY Zenon, <3>2, MaxOfTwo
      <3> QED
        BY Zenon, <3>1, <3>3
    <2>7. CASE c.prune
      <3>1. Says(s, -Gain(c, i), -c.beta, -l.alpha)
        BY <1>0, <1>2, <2>1, <2>4, <2>7 DEF LoopKnows, Sound, Window, s
      <3>2. negamax[m] \in Results
        BY <2>1, NegamaxIs
      <3>3. LoopKnows(c, i, After(l, negamax[m], c.beta, TRUE))
        BY <1>2, <2>7, <3>1, <3>2, AfterKnows DEF s
      <3> QED
        BY <2>3, <2>7, <3>3
    <2>8. CASE ~c.prune
      <3>1. t = Gain(c, i)
        <4>1. l.alpha = c.alpha
          BY <1>2, <2>8 DEF LoopKnows
        <4>2. Window(m)
          BY SMTT(30), <1>0, <2>1, <4>1 DEF Window
        <4>3. s = -Gain(c, i)
          BY <2>1, <2>4, <2>8, <4>2 DEF Sound, s
        <4>4. Gain(c, i) \in Int
          BY <1>0
        <4> QED
          BY <2>5, <4>3, <4>4
      <3>2. k.alpha = l.alpha /\ ~k.cut
        BY <2>8 DEF After
      <3> HIDE DEF k
      <3>3. /\ -INF <= l.best /\ \A j \in 1 .. (i - 1) : Gain(c, j) <= l.best
            /\ l.alpha = c.alpha
            /\ (l.best = -INF \/ \E j \in 1 .. (i - 1) : l.best <= Gain(c, j))
        BY <1>2, <2>8 DEF LoopKnows
      <3>4. -INF <= k.best /\ \A j \in 1 .. i : Gain(c, j) <= k.best
        BY SMTT(30), <1>0, <2>6, <3>1, <3>3
      <3>5. k.best = -INF \/ \E j \in 1 .. i : k.best <= Gain(c, j)
        BY <1>0, <2>6, <3>1, <3>3
      <3> QED
        BY <2>3, <2>8, <3>2, <3>3, <3>4, <3>5 DEF LoopKnows
    <2> QED
      BY <1>0, <2>7, <2>8
  <1> QED
    BY <1>0, <1>1, <1>2

LEMMA LoopEnds ==
  ASSUME NEW c \in Calls, c.depth # 0, Window(c), ~Terminal(c.board),
         \A m \in Calls : m.depth < c.depth => Sound(m)
  PROVE  LET t == TurnsOf(negamax, c)
         IN  \A i \in 0 .. Len(c.board.next) : t[i] \in Loops /\ LoopKnows(c, i, t[i])
  <1> DEFINE n == Len(c.board.next)
             t == TurnsOf(negamax, c)
             Bad == {i \in 0 .. n : ~LoopKnows(c, i, t[i])}
  <1>1. TypedBelow(negamax, c)
    BY NegamaxIs DEF TypedBelow
  <1>2. /\ n \in Nat /\ t \in [0 .. n -> Loops] /\ t[0] = Begun(c)
        /\ \A i \in 1 .. n : t[i] = Turn(negamax, c, i, t[i - 1])
    BY <1>1, TurnsAre
  <1> HIDE DEF t
  <1>3. Bad = {}
    <2>1. SUFFICES ASSUME Bad # {} PROVE FALSE
      OBVIOUS
    <2>2. PICK i \in Bad : \A e \in Bad : i <= e
      <3>1. Bad \in SUBSET Nat
        BY <1>2
      <3> HIDE DEF Bad
      <3> QED
        BY <2>1, <3>1, Least
    <2>3. LoopKnows(c, 0, Begun(c))
      <3>1. c.alpha \in Int /\ c.beta \in Int /\ -INF \in Int /\ -INF <= c.alpha /\ c.alpha < c.beta
        BY GameTreeAssumption DEF Calls, Window
      <3> QED
        BY <3>1 DEF LoopKnows, Begun
    <2>4. i \in 1 .. n
      BY <1>2, <2>2, <2>3
    <2>5. i - 1 \in 0 .. n /\ ~(i <= i - 1)
      BY <1>2, <2>4
    <2>6. LoopKnows(c, i - 1, t[i - 1]) /\ t[i - 1] \in Loops
      BY <1>2, <2>2, <2>5
    <2>7. LoopKnows(c, i, t[i])
      BY <1>2, <2>4, <2>6, TurnKnows DEF n
    <2> QED
      BY <2>2, <2>7
  <1> QED
    BY <1>2, <1>3 DEF t

(* A position with moves is worth what its best move gains.                  *)
LEMMA WorthIs ==
  ASSUME NEW c \in Calls, c.depth # 0, ~Terminal(c.board)
  PROVE  /\ WorthOf(c) \in Int /\ -INF <= WorthOf(c)
         /\ WorthOf(c) = -INF \/ \E i \in 1 .. Len(c.board.next) : WorthOf(c) = Gain(c, i)
         /\ \A i \in 1 .. Len(c.board.next) : Gain(c, i) <= WorthOf(c)
  <1> DEFINE n == Len(c.board.next)
             f == [i \in 1 .. n |-> Gain(c, i)]
  <1>1. c.board \in Position /\ At(c.board, c.depth, c.ply) \in Searched
    BY DEF Calls, Searched, At
  <1>2. n \in Nat /\ DOMAIN c.board.next = 1 .. n
    BY <1>1, Moves
  <1>3. WorthOf(c) = Max({-INF} \cup {f[i] : i \in 1 .. n})
    <2>1. WorthOf(c) = MinimaxBody(minimax, At(c.board, c.depth, c.ply))
      BY <1>1, MinimaxIs DEF WorthOf
    <2> QED
      BY <1>2, <2>1 DEF MinimaxBody, Gain, At
  <1>4. -INF \in Int /\ \A i \in 1 .. n : f[i] \in Int /\ f[i] = Gain(c, i)
    BY GainTyped, GameTreeAssumption
  <1> HIDE DEF f, n
  <1>5. Tops(WorthOf(c), n, -INF, f)
    BY <1>2, <1>3, <1>4, MaxTops
  <1> QED
    BY <1>4, <1>5 DEF n, Tops

(* A loop that is over, after all moves or by a cutoff, says what the        *)
(* position is worth.                                                        *)
LEMMA LoopSays ==
  ASSUME NEW c \in Calls, c.depth # 0, Window(c), ~Terminal(c.board),
         NEW e \in 0 .. Len(c.board.next), NEW l \in Loops, LoopKnows(c, e, l),
         e = Len(c.board.next) \/ l.cut
  PROVE  IF c.prune THEN Says(l.best, WorthOf(c), c.alpha, c.beta) ELSE l.best = WorthOf(c)
  <1> DEFINE n == Len(c.board.next)
             v == WorthOf(c)
  <1>0. /\ c.board \in Position /\ c.depth \in Nat /\ c.ply \in Nat /\ c.prune \in BOOLEAN
        /\ c.alpha \in Int /\ c.beta \in Int /\ c.alpha < c.beta
        /\ At(c.board, c.depth, c.ply) \in Searched
    BY DEF Calls, Searched, At, Window
  <1>1. v \in Int
    BY WorthIs
  <1>2. n \in Nat
    BY <1>0, Moves
  <1>3. \A i \in 1 .. n : Gain(c, i) \in Int
    BY GainTyped
  <1>5. /\ v = -INF \/ \E i \in 1 .. n : v = Gain(c, i)
        /\ -INF <= v /\ \A i \in 1 .. n : Gain(c, i) <= v
    BY WorthIs
  <1>6. l.best \in Int /\ l.alpha \in Int /\ -INF \in Int /\ 1 .. e \subseteq 1 .. n
    BY <1>2, GameTreeAssumption DEF Loops
  <1>7. e = n \/ l.cut
    OBVIOUS
  <1> SUFFICES IF c.prune THEN Says(l.best, v, c.alpha, c.beta) ELSE l.best = v
    OBVIOUS
  <1> HIDE DEF v, n
  <1>8. CASE l.cut
    <2>1. c.prune /\ c.beta <= l.best /\ \E i \in 1 .. e : l.best <= Gain(c, i)
      BY <1>8 DEF LoopKnows
    <2>2. c.beta <= l.best /\ l.best <= v
      BY <1>0, <1>1, <1>3, <1>5, <1>6, <2>1
    <2> QED
      BY <1>0, <1>1, <1>6, <2>1, <2>2 DEF Says
  <1>9. CASE ~l.cut
    <2>1. /\ -INF <= l.best /\ \A i \in 1 .. n : Gain(c, i) <= l.best
          /\ (c.prune => c.alpha <= l.alpha /\ l.best <= l.alpha /\ l.alpha < c.beta)
          /\ ((c.prune => c.alpha < l.best) =>
                 l.best = -INF \/ \E i \in 1 .. n : l.best <= Gain(c, i))
      BY <1>7, <1>9 DEF LoopKnows
    <2>2. v <= l.best
      BY <1>1, <1>3, <1>5, <1>6, <2>1
    <2>3. (c.prune => c.alpha < l.best) => l.best = v
      BY <1>1, <1>3, <1>5, <1>6, <2>1, <2>2
    <2>4. CASE c.prune
      BY <1>0, <1>1, <1>6, <2>1, <2>2, <2>3, <2>4 DEF Says
    <2>5. CASE ~c.prune
      BY <2>3, <2>5
    <2> QED
      BY <2>4, <2>5
  <1> QED
    BY <1>8, <1>9

(* A search within a window: its score is the value when that is within the  *)
(* window, and else says on which side of it the value is.                   *)
LEMMA AlphaBetaStep ==
  ASSUME NEW c \in Calls, \A m \in Calls : m.depth < c.depth => Sound(m)
  PROVE  Sound(c)
  <1> SUFFICES ASSUME Window(c)
               PROVE  IF c.prune THEN Says(negamax[c].score, WorthOf(c), c.alpha, c.beta)
                      ELSE negamax[c].score = WorthOf(c)
    BY DEF Sound
  <1>0. /\ c.board \in Position /\ c.depth \in Nat /\ c.ply \in Nat /\ c.prune \in BOOLEAN
        /\ c.alpha \in Int /\ c.beta \in Int /\ c.alpha < c.beta
        /\ At(c.board, c.depth, c.ply) \in Searched
    BY DEF Calls, Searched, At, Window
  <1>1. /\ negamax[c] = NegamaxBody(negamax, c)
        /\ WorthOf(c) = MinimaxBody(minimax, At(c.board, c.depth, c.ply)) /\ WorthOf(c) \in Int
    BY <1>0, NegamaxIs, MinimaxIs DEF WorthOf
  <1>2. CASE Terminal(c.board) \/ c.depth = 0
    <2>1. negamax[c].score = WorthOf(c)
      BY <1>1, <1>2 DEF NegamaxBody, MinimaxBody, At
    <2> QED
      BY <1>0, <1>1, <2>1 DEF Says
  <1>3. CASE ~(Terminal(c.board) \/ c.depth = 0)
    <2> DEFINE n == Len(c.board.next)
               l == TurnsOf(negamax, c)[n]
    <2>1. n \in Nat /\ n \in 0 .. n
      BY <1>0, Moves
    <2>2. l \in Loops /\ LoopKnows(c, n, l)
      BY <1>3, <2>1, LoopEnds
    <2>3. negamax[c].score = l.best
      BY <1>1, <1>3 DEF NegamaxBody
    <2> HIDE DEF l
    <2>4. IF c.prune THEN Says(l.best, WorthOf(c), c.alpha, c.beta) ELSE l.best = WorthOf(c)
      BY <1>3, <2>1, <2>2, LoopSays
    <2> QED
      BY <2>3, <2>4
  <1> QED
    BY <1>2, <1>3

LEMMA AlphaBeta ==
  \A c \in Calls : Sound(c)
  <1> DEFINE Bad == {d \in Nat : \E c \in Calls : c.depth = d /\ ~Sound(c)}
  <1>1. SUFFICES ASSUME Bad # {} PROVE FALSE
    BY DEF Calls
  <1>2. PICK d \in Bad : \A e \in Bad : d <= e
    <2>1. Bad \in SUBSET Nat
      OBVIOUS
    <2> HIDE DEF Bad
    <2> QED
      BY <1>1, <2>1, Least
  <1>3. PICK c \in Calls : c.depth = d /\ ~Sound(c)
    BY <1>2
  <1>4. \A m \in Calls : m.depth < d => Sound(m)
    BY <1>2 DEF Calls
  <1> QED
    BY <1>3, <1>4, AlphaBetaStep

-----------------------------------------------------------------------------
(* Positions whose moves are there.                                          *)
KnownBody(g, n) ==
    IF n = 0 THEN Position
    ELSE {p \in Position : Terminal(p) \/ (p.next # <<>> /\ p.next \in Seq(g[n - 1]))}

LEMMA KnownIs ==
  \A n \in Nat : Known[n] \subseteq Position /\ Known[n] = KnownBody(Known, n)
  <1> DEFINE V == SUBSET Position
             rank == [n \in Nat |-> n]
             T == [g \in [Nat -> V] |-> [n \in Nat |-> KnownBody(g, n)]]
  <1>1. rank \in [Nat -> Nat]
    OBVIOUS
  <1>2. T \in [[Nat -> V] -> [Nat -> V]]
    <2>1. ASSUME NEW g \in [Nat -> V], NEW n \in Nat PROVE KnownBody(g, n) \in V
      BY DEF KnownBody
    <2> QED
      BY <2>1
  <1>3. ASSUME NEW g \in [Nat -> V], NEW h \in [Nat -> V], NEW n \in Nat,
               \A m \in Nat : rank[m] < rank[n] => g[m] = h[m]
        PROVE  T[g][n] = T[h][n]
    <2>1. n = 0 \/ g[n - 1] = h[n - 1]
      BY <1>3
    <2> QED
      BY <2>1 DEF KnownBody
  <1>4. \E g \in [Nat -> V] : g = T[g]
    <2>1. {} \in V
      OBVIOUS
    <2> HIDE DEF T, rank, V
    <2>2. Contracts(Nat, V, rank, T)
      BY <1>1, <1>2, <1>3 DEF Contracts
    <2> QED
      BY <2>1, <2>2, FixedPoint
  <1>5. \E g : g = [n \in Nat |-> KnownBody(g, n)]
    BY <1>4
  <1>6. Known = CHOOSE g : g = [n \in Nat |-> KnownBody(g, n)]
    BY DEF Known, KnownBody
  <1>7. Known = [n \in Nat |-> KnownBody(Known, n)]
    BY <1>5, <1>6
  <1>8. ASSUME NEW n \in Nat PROVE KnownBody(Known, n) \subseteq Position
    BY DEF KnownBody
  <1> QED
    BY <1>7, <1>8

(* Within the horizon no value is infinite.                                  *)
Bounded(n) == n.board \in Known[n.depth] /\ n.ply + n.depth < INF =>
                 -INF < minimax[n] /\ minimax[n] < INF

LEMMA KnownMoves ==
  ASSUME NEW d \in Nat, d # 0, NEW p \in Known[d], ~Terminal(p)
  PROVE  /\ 1 \in 1 .. Len(p.next)
         /\ \A i \in 1 .. Len(p.next) : p.next[i] \in Known[d - 1]
  <1>1. p.next # <<>> /\ p.next \in Seq(Known[d - 1])
    BY KnownIs DEF KnownBody
  <1> QED
    BY <1>1

LEMMA BoundedStep ==
  ASSUME NEW n \in Searched, \A m \in Searched : m.depth < n.depth => Bounded(m)
  PROVE  Bounded(n)
  <1> SUFFICES ASSUME n.board \in Known[n.depth], n.ply + n.depth < INF
               PROVE  -INF < minimax[n] /\ minimax[n] < INF
    BY DEF Bounded
  <1>0. n.board \in Position /\ n.depth \in Nat /\ n.ply \in Nat /\ n.ply < INF /\ INF \in Nat
    BY GameTreeAssumption DEF Searched
  <1>1. minimax[n] = MinimaxBody(minimax, n)
    BY MinimaxIs
  <1>2. CASE Terminal(n.board) \/ n.depth = 0
    BY <1>0, <1>1, <1>2, StaticTyped DEF MinimaxBody
  <1>3. CASE ~(Terminal(n.board) \/ n.depth = 0)
    <2> DEFINE k == Len(n.board.next)
               f == [i \in 1 .. k |-> -minimax[At(n.board.next[i], n.depth - 1, n.ply + 1)]]
               v == minimax[n]
    <2>1. k \in Nat /\ DOMAIN n.board.next = 1 .. k /\ 1 \in 1 .. k
      BY <1>0, <1>3, Moves, KnownMoves
    <2>2. ASSUME NEW i \in 1 .. k
          PROVE  f[i] \in Int /\ -INF < f[i] /\ f[i] < INF
      <3> DEFINE m == At(n.board.next[i], n.depth - 1, n.ply + 1)
      <3>1. m \in Searched /\ m.depth = n.depth - 1
        BY <1>0, <1>3, ChildSearched
      <3>2. m.board \in Known[m.depth] /\ m.ply + m.depth < INF
        BY SMTT(30), <1>0, <1>3, KnownMoves DEF At
      <3>3. Bounded(m) /\ minimax[m] \in Int
        BY <1>0, <3>1, MinimaxIs
      <3>4. -INF < minimax[m] /\ minimax[m] < INF
        BY <3>2, <3>3 DEF Bounded
      <3> HIDE DEF m
      <3>5. -minimax[m] \in Int /\ -INF < -minimax[m] /\ -minimax[m] < INF
        BY <1>0, <3>3, <3>4
      <3> QED
        BY <3>5 DEF m
    <2>3. v = Max({-INF} \cup {f[i] : i \in 1 .. k})
      BY <1>1, <1>3, <2>1 DEF MinimaxBody
    <2> HIDE DEF f, v, k
    <2>4. /\ v \in Int /\ -INF \in Int
          /\ v = -INF \/ \E i \in 1 .. k : v = f[i]
          /\ -INF <= v /\ \A i \in 1 .. k : f[i] <= v
      <3>1. -INF \in Int /\ \A i \in 1 .. k : f[i] \in Int
        BY <1>0, <2>2
      <3> QED
        BY ZenonT(30), <2>1, <2>3, <3>1, MaxOfList
    <2>5. -INF < INF
      BY GameTreeAssumption
    <2>6. -INF < v /\ v < INF
      BY <1>0, <2>1, <2>2, <2>4, <2>5
    <2> QED
      BY <2>6 DEF v
  <1> QED
    BY <1>2, <1>3

LEMMA ValuesBounded ==
  \A n \in Searched : Bounded(n)
  <1> DEFINE Bad == {d \in Nat : \E n \in Searched : n.depth = d /\ ~Bounded(n)}
  <1>1. SUFFICES ASSUME Bad # {} PROVE FALSE
    BY DEF Searched
  <1>2. PICK d \in Bad : \A e \in Bad : d <= e
    <2>1. Bad \in SUBSET Nat
      OBVIOUS
    <2> HIDE DEF Bad
    <2> QED
      BY <1>1, <2>1, Least
  <1>3. PICK n \in Searched : n.depth = d /\ ~Bounded(n)
    BY <1>2
  <1>4. \A m \in Searched : m.depth < d => Bounded(m)
    BY <1>2 DEF Searched
  <1> QED
    BY <1>3, <1>4, BoundedStep

-----------------------------------------------------------------------------
(* The serial search.                                                        *)
IsFirstBest(n, f, won, move) ==
    /\ \A i \in 1 .. n : f[i] <= won
    /\ \/ won = -INF /\ move = 0
       \/ /\ -INF < won /\ move \in 1 .. n /\ f[move] = won
          /\ \A j \in 1 .. (move - 1) : f[j] # won

LEMMA FirstBestIs ==
  ASSUME NEW n \in Nat, NEW f \in [1 .. n -> Int], NEW won \in Int, NEW move,
         IsFirstBest(n, f, won, move)
  PROVE  FirstBest(f) = [score |-> won, move |-> move]
  <1> USE DEF IsFirstBest
  <1>1. ToSet(f) = {f[i] : i \in 1 .. n} /\ DOMAIN f = 1 .. n
    BY DEF ToSet
  <1>2. Max({-INF} \cup ToSet(f)) = won
    <2> DEFINE S == {-INF} \cup ToSet(f)
    <2>1. S \in SUBSET Int
      BY <1>1, GameTreeAssumption
    <2>2. won \in S
      BY <1>1
    <2>3. \A y \in S : y <= won
      BY <1>1, GameTreeAssumption
    <2> HIDE DEF S
    <2>4. Max(S) = won
      BY <2>1, <2>2, <2>3, MaxIs
    <2> QED
      BY <2>4 DEF S
  <1>3. CASE won = -INF /\ move = 0
    BY <1>2, <1>3 DEF FirstBest
  <1>4. CASE /\ -INF < won /\ move \in 1 .. n /\ f[move] = won
             /\ \A j \in 1 .. (move - 1) : f[j] # won
    <2> DEFINE First1(i) == f[i] = won /\ \A j \in 1 .. (i - 1) : f[j] # won
    <2>1. ASSUME NEW i \in 1 .. n, First1(i) PROVE i = move
      <3>1. CASE i < move
        BY <1>4, <2>1, <3>1
      <3>2. CASE move < i
        BY <1>4, <2>1, <3>2
      <3> QED
        BY <1>4, <3>1, <3>2
    <2>2. First1(move)
      BY <1>4
    <2>3. (CHOOSE i \in 1 .. n : First1(i)) = move
      BY <1>4, <2>1, <2>2
    <2>4. won # -INF
      BY <1>4, GameTreeAssumption
    <2>5. FirstBest(f) = [score |-> won, move |-> CHOOSE i \in 1 .. n : First1(i)]
      BY <1>1, <1>2, <2>4 DEF FirstBest
    <2> QED
      BY <2>3, <2>5
  <1> QED
    BY <1>3, <1>4

Bests == [score : Int, move : Nat, nodes : Nat]

Nothing == [score |-> -INF, move |-> 0, nodes |-> 1]

(* How serial_search calls negamax for the i-th move.                        *)
SerialCall(p, depth, prune, i, r) ==
    Call(p.next[i], depth - 1, 1, -INF, -(IF prune THEN r.score ELSE -INF), prune)

SerialTurn(p, depth, prune, i, r) ==
    LET child == negamax[SerialCall(p, depth, prune, i, r)]
    IN  IF -child.score > r.score
          THEN [score |-> -child.score, move |-> i, nodes |-> r.nodes + child.nodes]
          ELSE [r EXCEPT !.nodes = r.nodes + child.nodes]

SerialTurns(p, depth, prune) ==
    CHOOSE f : f = [i \in 0 .. Len(p.next) |->
                      IF i = 0 THEN Nothing ELSE SerialTurn(p, depth, prune, i, f[i - 1])]

LEMMA SerialTurnsAre ==
  ASSUME NEW p \in Position, NEW depth \in Nat \ {0}, NEW prune \in BOOLEAN
  PROVE  LET t == SerialTurns(p, depth, prune)
         IN  /\ t \in [0 .. Len(p.next) -> Bests] /\ t[0] = Nothing
             /\ \A i \in 1 .. Len(p.next) : t[i] = SerialTurn(p, depth, prune, i, t[i - 1])
  <1> DEFINE n == Len(p.next)
             Turn1(i, r) == SerialTurn(p, depth, prune, i, r)
             step == [i \in 1 .. n |-> [r \in Bests |-> Turn1(i, r)]]
  <1>1. n \in Nat
    BY Moves
  <1>2. Nothing \in Bests
    BY GameTreeAssumption DEF Nothing, Bests
  <1>3. ASSUME NEW i \in 1 .. n, NEW r \in Bests
        PROVE  Turn1(i, r) \in Bests
    <2> DEFINE child == negamax[SerialCall(p, depth, prune, i, r)]
    <2>1. SerialCall(p, depth, prune, i, r) \in Calls
      <3>1. p.next[i] \in Position /\ depth - 1 \in Nat
        BY Moves
      <3>2. -INF \in Int /\ -r.score \in Int /\ -(-INF) \in Int
        BY GameTreeAssumption DEF Bests
      <3> QED
        BY <3>1, <3>2 DEF SerialCall, Call, Calls
    <2>2. child.score \in Int /\ child.nodes \in Nat
      BY <2>1, NegamaxIs DEF Results
    <2> HIDE DEF child
    <2>3. r.score \in Int /\ r.nodes \in Nat /\ i \in Nat /\ -child.score \in Int
      BY <1>1, <2>2 DEF Bests
    <2>4. Turn1(i, r) = IF -child.score > r.score
                          THEN [score |-> -child.score, move |-> i, nodes |-> r.nodes + child.nodes]
                          ELSE [r EXCEPT !.nodes = r.nodes + child.nodes]
      BY DEF SerialTurn, child
    <2> HIDE DEF Turn1
    <2> QED
      BY SMTT(30), <2>2, <2>3, <2>4 DEF Bests
  <1>4. step \in [1 .. n -> [Bests -> Bests]]
    BY <1>3
  <1>5. PICK f \in [0 .. n -> Bests] :
           f[0] = Nothing /\ \A i \in 1 .. n : f[i] = step[i][f[i - 1]]
    <2> HIDE DEF step, n, Turn1
    <2>1. CanBeMade(n, Bests, Nothing, step)
      BY <1>1, <1>2, <1>4, Steps
    <2> QED
      BY <2>1 DEF CanBeMade
  <1>6. ASSUME NEW i \in 1 .. n PROVE f[i] = Turn1(i, f[i - 1])
    <2>1. f[i - 1] \in Bests
      BY <1>1
    <2> QED
      BY <1>5, <2>1
  <1> HIDE DEF Turn1
  <1>7. f = [i \in 0 .. n |-> IF i = 0 THEN Nothing ELSE Turn1(i, f[i - 1])]
    <2>1. \A i \in 0 .. n : i = 0 \/ i \in 1 .. n
      BY <1>1
    <2> HIDE DEF step, n
    <2> QED
      BY <1>5, <1>6, <2>1
  <1> DEFINE t == SerialTurns(p, depth, prune)
  <1>8. t = [i \in 0 .. n |-> IF i = 0 THEN Nothing ELSE Turn1(i, t[i - 1])]
    BY <1>7 DEF SerialTurns, Turn1
  <1> HIDE DEF t, step, n
  <1>9. t[0] = Nothing /\ \A i \in 1 .. n : t[i] = Turn1(i, t[i - 1])
    <2>1. 0 \in 0 .. n /\ \A i \in 1 .. n : i \in 0 .. n /\ i # 0
      BY <1>1
    <2> QED
      BY <1>8, <2>1
  <1>10. \A i \in 0 .. n : t[i] \in Bests
    <2> DEFINE Bad == {i \in 0 .. n : t[i] \notin Bests}
    <2>1. SUFFICES ASSUME Bad # {} PROVE FALSE
      OBVIOUS
    <2>2. PICK i \in Bad : \A e \in Bad : i <= e
      <3>1. Bad \in SUBSET Nat
        BY <1>1
      <3> HIDE DEF Bad
      <3> QED
        BY <2>1, <3>1, Least
    <2>3. i \in 1 .. n
      BY <1>1, <1>2, <1>9, <2>2
    <2>4. i - 1 \in 0 .. n /\ ~(i <= i - 1)
      BY <1>1, <2>3
    <2>5. t[i - 1] \in Bests
      BY <2>2, <2>4
    <2>6. Turn1(i, t[i - 1]) \in Bests
      BY <1>3, <2>3, <2>5
    <2> QED
      BY <1>9, <2>2, <2>3, <2>6
  <1>11. t \in [0 .. n -> Bests]
    BY <1>8, <1>10
  <1> QED
    BY <1>9, <1>11 DEF t, n, Turn1

LEMMA SerialIs ==
  ASSUME NEW p \in Position, NEW depth \in Nat \ {0}, NEW prune \in BOOLEAN
  PROVE  SerialSearch(p, depth, prune) =
           IF Terminal(p) THEN [score |-> StaticScore(p, 0), move |-> 0, nodes |-> 1]
           ELSE SerialTurns(p, depth, prune)[Len(p.next)]
  BY DEF SerialSearch, SerialTurns, SerialTurn, SerialCall, Nothing, Negamax

(* What a move at the root is worth.                                         *)
Value(p, depth, i) == -minimax[At(p.next[i], depth - 1, 1)]

LEMMA ValueTyped ==
  ASSUME NEW depth \in Nat \ {0}, depth < INF, NEW p \in Known[depth], ~Terminal(p),
         NEW i \in 1 .. Len(p.next)
  PROVE  /\ Value(p, depth, i) \in Int
         /\ -INF < Value(p, depth, i) /\ Value(p, depth, i) < INF
  <1> DEFINE m == At(p.next[i], depth - 1, 1)
  <1>1. p.next[i] \in Known[depth - 1] /\ p.next[i] \in Position /\ depth - 1 \in Nat
    BY KnownIs, KnownMoves
  <1>2. m \in Searched /\ m.board \in Known[m.depth] /\ m.ply + m.depth < INF
    BY <1>1 DEF At, Searched
  <1>3. minimax[m] \in Int /\ -INF < minimax[m] /\ minimax[m] < INF
    BY <1>2, MinimaxIs, ValuesBounded DEF Bounded
  <1> HIDE DEF m
  <1>4. INF \in Nat
    BY GameTreeAssumption
  <1>5. -minimax[m] \in Int /\ -INF < -minimax[m] /\ -minimax[m] < INF
    BY <1>3, <1>4
  <1> QED
    BY <1>5 DEF Value, m

(* What a search of the i-th root move says, with all that beats `low'.      *)
LEMMA RootMove ==
  ASSUME NEW depth \in Nat \ {0}, depth < INF, NEW p \in Known[depth], ~Terminal(p),
         NEW i \in 1 .. Len(p.next), NEW low \in Int, -INF <= low, low < INF,
         NEW prune \in BOOLEAN, ~prune => low = -INF
  PROVE  LET c == Call(p.next[i], depth - 1, 1, -INF, -low, prune)
         IN  /\ negamax[c] \in Results
             /\ IF Value(p, depth, i) <= low THEN -negamax[c].score <= low
                ELSE -negamax[c].score = Value(p, depth, i)
  <1> DEFINE c == Call(p.next[i], depth - 1, 1, -INF, -low, prune)
             s == negamax[c].score
  <1>1. INF \in Nat /\ -INF \in Int
    BY GameTreeAssumption
  <1>2. c \in Calls
    <2>1. p.next[i] \in Position /\ depth - 1 \in Nat
      BY KnownIs, KnownMoves
    <2> QED
      BY <1>1, <2>1 DEF Call, Calls
  <1>3. negamax[c] \in Results /\ s \in Int
    BY <1>2, NegamaxIs DEF Results
  <1>4. Window(c)
    BY <1>1 DEF Window, Call
  <1>5. PICK v \in Int : v = Value(p, depth, i) /\ -INF < v /\ v < INF
    BY ValueTyped
  <1>6. WorthOf(c) = -v
    <2>1. At(p.next[i], depth - 1, 1) \in Searched
      BY <1>2 DEF Call, Calls, At, Searched
    <2> QED
      BY <1>5, <2>1, MinimaxIs DEF Value, WorthOf, Call
  <1>7. IF prune THEN Says(s, -v, -INF, -low) ELSE s = -v
    BY <1>2, <1>4, <1>6, AlphaBeta DEF Sound, Call
  <1> HIDE DEF s, c
  <1>8. IF v <= low THEN -s <= low ELSE -s = v
    <2>1. CASE prune
      <3>1. /\ s <= -INF => -v <= s
            /\ s >= -low => s <= -v
            /\ -INF < s /\ s < -low => s = -v
        BY <1>7, <2>1 DEF Says
      <3> QED
        BY <1>1, <1>3, <1>5, <3>1
    <2>2. CASE ~prune
      BY <1>3, <1>5, <1>7, <2>2
    <2> QED
      BY <2>1, <2>2
  <1> QED
    BY <1>3, <1>5, <1>8 DEF s, c

(* What serial_search knows after i moves.                                   *)
SerialKnows(p, depth, i, r) ==
    /\ \A j \in 1 .. i : Value(p, depth, j) <= r.score
    /\ \/ i = 0 /\ r.score = -INF /\ r.move = 0
       \/ /\ -INF < r.score /\ r.score < INF
          /\ r.move \in 1 .. i /\ Value(p, depth, r.move) = r.score
          /\ \A j \in 1 .. (r.move - 1) : Value(p, depth, j) # r.score

(* What serial_search knows after a move that any search says enough of.     *)
LEMMA SerialAfter ==
  ASSUME NEW depth \in Nat \ {0}, depth < INF, NEW p \in Known[depth], ~Terminal(p),
         NEW i \in 1 .. Len(p.next), NEW r \in Bests, SerialKnows(p, depth, i - 1, r),
         NEW low \in Int, low <= r.score, NEW t \in Int,
         IF Value(p, depth, i) <= low THEN t <= low ELSE t = Value(p, depth, i),
         NEW k, k.score = (IF t > r.score THEN t ELSE r.score),
         k.move = (IF t > r.score THEN i ELSE r.move)
  PROVE  SerialKnows(p, depth, i, k)
  <1>0. /\ i \in Nat /\ i - 1 \in Nat /\ 1 .. i = (1 .. (i - 1)) \cup {i}
        /\ r.score \in Int /\ r.move \in Nat /\ INF \in Nat /\ -INF \in Int /\ -INF < INF
        /\ -INF <= r.score /\ r.score < INF
        /\ \A j \in 1 .. i : Value(p, depth, j) \in Int
    <2>1. p \in Position
      BY KnownIs
    <2>2. i \in Nat /\ 1 .. i = (1 .. (i - 1)) \cup {i} /\ \A j \in 1 .. i : j \in 1 .. Len(p.next)
      BY <2>1, Moves
    <2>3. INF \in Nat /\ -INF < INF
      BY GameTreeAssumption
    <2> QED
      BY <2>2, <2>3, ValueTyped DEF Bests, SerialKnows
  <1>1. PICK v \in Int : v = Value(p, depth, i) /\ -INF < v /\ v < INF
    BY ValueTyped
  <1>2. IF v <= low THEN t <= low ELSE t = v
    BY <1>1
  <1>3. CASE t > r.score
    <2>2. t = v /\ k.score = v /\ k.move = i /\ r.score < v
      BY <1>0, <1>1, <1>2, <1>3
    <2>3. \A j \in 1 .. (i - 1) : Value(p, depth, j) < v
      BY <1>0, <2>2 DEF SerialKnows
    <2>4. \A j \in 1 .. i : Value(p, depth, j) <= k.score
      <3>1. ASSUME NEW j \in 1 .. (i - 1) PROVE Value(p, depth, j) <= v
        <4>1. Value(p, depth, j) \in Int /\ Value(p, depth, j) < v
          BY <1>0, <2>3
        <4> QED
          BY <1>1, <4>1
      <3> QED
        BY <1>0, <1>1, <2>2, <3>1
    <2>5. \A j \in 1 .. (k.move - 1) : Value(p, depth, j) # k.score
      BY <1>0, <2>2, <2>3
    <2>6. /\ -INF < k.score /\ k.score < INF
          /\ k.move \in 1 .. i /\ Value(p, depth, k.move) = k.score
      BY <1>0, <1>1, <2>2
    <2> QED
      BY <2>4, <2>5, <2>6 DEF SerialKnows
  <1>4. CASE ~(t > r.score)
    <2>1. k.score = r.score /\ k.move = r.move /\ v <= r.score
      BY <1>0, <1>1, <1>2, <1>4
    <2>2. \A j \in 1 .. i : Value(p, depth, j) <= k.score
      BY <1>0, <1>1, <2>1 DEF SerialKnows
    <2>3. r.score # -INF
      BY <1>0, <1>1, <2>1
    <2>4. /\ -INF < r.score /\ r.score < INF
          /\ r.move \in 1 .. (i - 1) /\ Value(p, depth, r.move) = r.score
          /\ \A j \in 1 .. (r.move - 1) : Value(p, depth, j) # r.score
      BY <2>3 DEF SerialKnows
    <2>5. r.move \in 1 .. i
      BY <1>0, <2>4
    <2>6. /\ -INF < k.score /\ k.score < INF
          /\ k.move \in 1 .. i /\ Value(p, depth, k.move) = k.score
          /\ \A j \in 1 .. (k.move - 1) : Value(p, depth, j) # k.score
      BY Zenon, <2>1, <2>4, <2>5
    <2> QED
      BY <2>2, <2>6 DEF SerialKnows
  <1> QED
    BY <1>3, <1>4

LEMMA SerialTurnKnows ==
  ASSUME NEW depth \in Nat \ {0}, depth < INF, NEW p \in Known[depth], ~Terminal(p),
         NEW prune \in BOOLEAN, NEW i \in 1 .. Len(p.next), NEW r \in Bests,
         SerialKnows(p, depth, i - 1, r)
  PROVE  SerialKnows(p, depth, i, SerialTurn(p, depth, prune, i, r))
  <1> DEFINE low == IF prune THEN r.score ELSE -INF
             k == SerialTurn(p, depth, prune, i, r)
  <1>0. /\ i \in Nat /\ i - 1 \in Nat /\ 1 .. i = (1 .. (i - 1)) \cup {i}
        /\ r.score \in Int /\ r.move \in Nat /\ INF \in Nat /\ -INF \in Int /\ -INF < INF
        /\ -INF <= r.score /\ r.score < INF
        /\ \A j \in 1 .. i : Value(p, depth, j) \in Int
    <2>1. p \in Position
      BY KnownIs
    <2>2. i \in Nat /\ 1 .. i = (1 .. (i - 1)) \cup {i} /\ \A j \in 1 .. i : j \in 1 .. Len(p.next)
      BY <2>1, Moves
    <2>3. INF \in Nat /\ -INF < INF
      BY GameTreeAssumption
    <2> QED
      BY <2>2, <2>3, ValueTyped DEF Bests, SerialKnows
  <1>1. PICK v \in Int : v = Value(p, depth, i) /\ -INF < v /\ v < INF
    BY ValueTyped
  <1>2. PICK t \in Int :
           /\ IF v <= low THEN t <= low ELSE t = v
           /\ k.score = (IF t > r.score THEN t ELSE r.score)
           /\ k.move = (IF t > r.score THEN i ELSE r.move)
    <2> DEFINE s == negamax[SerialCall(p, depth, prune, i, r)].score
    <2>1. low \in Int /\ -INF <= low /\ low < INF /\ (~prune => low = -INF)
      BY <1>0
    <2>2. s \in Int /\ IF v <= low THEN -s <= low ELSE -s = v
      <3> DEFINE c == Call(p.next[i], depth - 1, 1, -INF, -low, prune)
      <3>1. SerialCall(p, depth, prune, i, r) = c
        BY DEF SerialCall
      <3> HIDE DEF low
      <3>2. /\ negamax[c] \in Results
            /\ IF Value(p, depth, i) <= low THEN -negamax[c].score <= low
               ELSE -negamax[c].score = Value(p, depth, i)
        BY <2>1, RootMove
      <3> HIDE DEF c
      <3> QED
        BY <1>1, <3>1, <3>2 DEF Results
    <2>3. /\ k.score = (IF -s > r.score THEN -s ELSE r.score)
          /\ k.move = (IF -s > r.score THEN i ELSE r.move)
      BY DEF SerialTurn, Bests
    <2> HIDE DEF s, k, low
    <2>4. -s \in Int
      BY <2>2
    <2> QED
      BY <2>2, <2>3, <2>4
  <1> HIDE DEF k
  <1>3. low \in Int /\ low <= r.score
    BY <1>0
  <1> HIDE DEF low
  <1>4. SerialKnows(p, depth, i, k)
    BY <1>1, <1>2, <1>3, SerialAfter
  <1> QED
    BY <1>4 DEF k

(* What serial_search knows after all moves is the first of the best.        *)
LEMMA SerialIsBest ==
  ASSUME NEW depth \in Nat \ {0}, depth < INF, NEW p \in Known[depth], ~Terminal(p),
         NEW r \in Bests, SerialKnows(p, depth, Len(p.next), r)
  PROVE  [score |-> r.score, move |-> r.move]
         = FirstBest([i \in DOMAIN p.next |-> -Minimax(p.next[i], depth - 1, 1)])
  <1> DEFINE n == Len(p.next)
             f == [i \in 1 .. n |-> Value(p, depth, i)]
  <1>1. p \in Position /\ n \in Nat /\ DOMAIN p.next = 1 .. n
    BY KnownIs, Moves
  <1>2. r \in Bests /\ SerialKnows(p, depth, n, r)
    OBVIOUS
  <1>3. FirstBest(f) = [score |-> r.score, move |-> r.move]
    <2>1. f \in [1 .. n -> Int]
      BY ValueTyped
    <2>2. \A i \in 1 .. n : f[i] = Value(p, depth, i)
      OBVIOUS
    <2> HIDE DEF f, n
    <2>3. r.score \in Int /\ r.move \in Nat
      BY <1>2 DEF Bests
    <2>4. \A i \in 1 .. n : f[i] <= r.score
      BY <1>2, <2>2 DEF SerialKnows
    <2>5. \/ r.score = -INF /\ r.move = 0
          \/ /\ -INF < r.score /\ r.move \in 1 .. n /\ f[r.move] = r.score
             /\ \A j \in 1 .. (r.move - 1) : f[j] # r.score
      <3>1. ASSUME r.move \in 1 .. n, NEW j \in 1 .. (r.move - 1) PROVE j \in 1 .. n
        BY <1>1, <3>1
      <3> QED
        BY <1>2, <2>2, <3>1 DEF SerialKnows
    <2>6. PICK won \in Int, move \in Nat : won = r.score /\ move = r.move
      BY <2>3
    <2>7. FirstBest(f) = [score |-> won, move |-> move]
      <3>1. IsFirstBest(n, f, won, move)
        BY <2>4, <2>5, <2>6 DEF IsFirstBest
      <3> QED
        BY <1>1, <2>1, <3>1, FirstBestIs
    <2> QED
      BY <2>6, <2>7
  <1>4. f = [i \in DOMAIN p.next |-> -Minimax(p.next[i], depth - 1, 1)]
    BY <1>1 DEF Value, Minimax
  <1> QED
    BY <1>3, <1>4

(* serial_search: the first of the moves worth most, pruned or not.          *)
LEMMA SerialFindsBest ==
  ASSUME NEW depth \in Nat \ {0}, depth < INF, NEW p \in Known[depth], ~Terminal(p),
         NEW prune \in BOOLEAN
  PROVE  LET r == SerialSearch(p, depth, prune)
         IN  /\ r \in Bests /\ SerialKnows(p, depth, Len(p.next), r)
             /\ [score |-> r.score, move |-> r.move]
                = FirstBest([i \in DOMAIN p.next |-> -Minimax(p.next[i], depth - 1, 1)])
  <1> DEFINE n == Len(p.next)
             t == SerialTurns(p, depth, prune)
             r == SerialSearch(p, depth, prune)
  <1>1. p \in Position /\ n \in Nat /\ DOMAIN p.next = 1 .. n
    BY KnownIs, Moves
  <1>2. /\ t \in [0 .. n -> Bests] /\ t[0] = Nothing
        /\ \A i \in 1 .. n : t[i] = SerialTurn(p, depth, prune, i, t[i - 1])
    BY <1>1, SerialTurnsAre
  <1> HIDE DEF t
  <1>3. \A i \in 0 .. n : SerialKnows(p, depth, i, t[i])
    <2> DEFINE Bad == {i \in 0 .. n : ~SerialKnows(p, depth, i, t[i])}
    <2>1. SUFFICES ASSUME Bad # {} PROVE FALSE
      OBVIOUS
    <2>2. PICK i \in Bad : \A e \in Bad : i <= e
      <3>1. Bad \in SUBSET Nat
        BY <1>1
      <3> HIDE DEF Bad
      <3> QED
        BY <2>1, <3>1, Least
    <2>3. SerialKnows(p, depth, 0, Nothing)
      BY DEF SerialKnows, Nothing
    <2>4. i \in 1 .. n
      BY <1>1, <1>2, <2>2, <2>3
    <2>5. i - 1 \in 0 .. n /\ ~(i <= i - 1)
      BY <1>1, <2>4
    <2>6. SerialKnows(p, depth, i - 1, t[i - 1]) /\ t[i - 1] \in Bests
      BY <1>2, <2>2, <2>5
    <2>7. SerialKnows(p, depth, i, SerialTurn(p, depth, prune, i, t[i - 1]))
      BY <2>4, <2>6, SerialTurnKnows
    <2> QED
      BY <1>2, <2>2, <2>4, <2>7
  <1>4. r = t[n]
    BY <1>1, SerialIs DEF t
  <1> HIDE DEF r
  <1>5. r \in Bests /\ SerialKnows(p, depth, n, r)
    BY <1>1, <1>2, <1>3, <1>4
  <1>6. [score |-> r.score, move |-> r.move]
        = FirstBest([j \in DOMAIN p.next |-> -Minimax(p.next[j], depth - 1, 1)])
    BY <1>5, SerialIsBest DEF n
  <1> QED
    BY <1>5, <1>6 DEF r, n

-----------------------------------------------------------------------------
(* The position and the split of a run do not change.                        *)
Chosen == position \in Games /\ split \in Splits /\ tasks = Tasks(position, split)

LEMMA ChosenInvariant == Spec => []Chosen
  <1>1. Init => Chosen
    BY DEF Init, Chosen
  <1>2. Chosen /\ [Next]_vars => Chosen'
    BY DEF Chosen, Next, vars, Seed, ReduceScores, ReduceStats, RankStep, Serial, Abort, Start,
           Receive, Search, WorkDone, Gather, Choose, options
  <1> QED
    BY <1>1, <1>2, PTL DEF Spec

(* Pruning changes neither the score nor the move of serial_search: from     *)
(* every position, at every depth, they are those of the unpruned search.    *)
THEOREM SerialSearchIsExact == Spec => []SerialIsExact
  <1>1. Chosen => SerialIsExact
    <2> SUFFICES ASSUME Chosen PROVE SerialIsExact
      OBVIOUS
    <2>1. /\ Depth \in Nat \ {0} /\ Depth < INF /\ position \in Known[Depth]
          /\ position \in Position
      BY KnownIs, CpuSearchAssumption, OptionsAssumption DEF Chosen
    <2>2. CASE Terminal(position)
      <3>1. At(position, Depth, 0) \in Searched
        BY <2>1 DEF At, Searched
      <3>2. Minimax(position, Depth, 0) = StaticScore(position, 0)
        BY <2>2, <3>1, MinimaxIs DEF MinimaxBody, Minimax, At
      <3>3. SerialSearch(position, Depth, TRUE)
            = [score |-> StaticScore(position, 0), move |-> 0, nodes |-> 1]
        BY <2>1, <2>2, SerialIs
      <3>4. /\ SerialSearch(position, Depth, TRUE).score = StaticScore(position, 0)
            /\ SerialSearch(position, Depth, TRUE).move = 0
        <4>1. PICK r : r = SerialSearch(position, Depth, TRUE)
          OBVIOUS
        <4>2. r = [score |-> StaticScore(position, 0), move |-> 0, nodes |-> 1]
          BY Zenon, <3>3, <4>1
        <4>3. r.score = StaticScore(position, 0) /\ r.move = 0
          BY <4>2
        <4> QED
          BY Zenon, <4>1, <4>3
      <3> QED
        BY Zenon, <2>2, <3>2, <3>4 DEF SerialIsExact
    <2>3. CASE ~Terminal(position)
      BY <2>1, <2>3, SerialFindsBest DEF SerialIsExact
    <2> QED
      BY <2>2, <2>3
  <1> QED
    BY <1>1, ChosenInvariant, PTL

-----------------------------------------------------------------------------
(* Lists of lists.                                                           *)
LEMMA InConcat ==
  ASSUME NEW S, NEW a \in Seq(S), NEW b \in Seq(S)
  PROVE  a \o b \in Seq(S) /\ ToSet(a \o b) = ToSet(a) \cup ToSet(b)
  <1>1. /\ a \o b \in Seq(S) /\ Len(a \o b) = Len(a) + Len(b)
        /\ DOMAIN (a \o b) = 1 .. (Len(a) + Len(b)) /\ Len(a) \in Nat /\ Len(b) \in Nat
        /\ DOMAIN a = 1 .. Len(a) /\ DOMAIN b = 1 .. Len(b)
    OBVIOUS
  <1>2. ASSUME NEW x \in ToSet(a \o b) PROVE x \in ToSet(a) \cup ToSet(b)
    <2>1. PICK i \in 1 .. (Len(a) + Len(b)) : x = (a \o b)[i]
      BY <1>1, <1>2 DEF ToSet
    <2>2. CASE i <= Len(a)
      <3>1. (a \o b)[i] = a[i] /\ i \in 1 .. Len(a)
        BY <1>1, <2>2
      <3> QED
        BY <1>1, <2>1, <3>1 DEF ToSet
    <2>3. CASE ~(i <= Len(a))
      <3>1. (a \o b)[i] = b[i - Len(a)] /\ i - Len(a) \in 1 .. Len(b)
        BY <1>1, <2>3
      <3> QED
        BY <1>1, <2>1, <3>1 DEF ToSet
    <2> QED
      BY <2>2, <2>3
  <1>3. ASSUME NEW x \in ToSet(a) PROVE x \in ToSet(a \o b)
    <2>1. PICK i \in 1 .. Len(a) : x = a[i]
      BY <1>1, <1>3 DEF ToSet
    <2>2. i \in 1 .. (Len(a) + Len(b)) /\ (a \o b)[i] = a[i]
      BY <1>1
    <2> QED
      BY <1>1, <2>1, <2>2 DEF ToSet
  <1>4. ASSUME NEW x \in ToSet(b) PROVE x \in ToSet(a \o b)
    <2>1. PICK i \in 1 .. Len(b) : x = b[i]
      BY <1>1, <1>4 DEF ToSet
    <2>2. Len(a) + i \in 1 .. (Len(a) + Len(b)) /\ (a \o b)[Len(a) + i] = b[i]
      BY <1>1
    <2> QED
      BY <1>1, <2>1, <2>2 DEF ToSet
  <1> QED
    BY <1>1, <1>2, <1>3, <1>4

LEMMA InFlat ==
  ASSUME NEW S, NEW ss \in Seq(Seq(S))
  PROVE  /\ FlattenSeq(ss) \in Seq(S)
         /\ ToSet(FlattenSeq(ss)) = UNION {ToSet(ss[i]) : i \in 1 .. Len(ss)}
  <1> DEFINE n == Len(ss)
             step == [i \in 1 .. n |-> [w \in Seq(S) |-> w \o ss[i]]]
             Sum1(f) == f = [i \in 1 .. n |-> IF i = 1 THEN ss[i] ELSE f[i - 1] \o ss[i]]
  <1>1. n \in Nat /\ \A i \in 1 .. n : ss[i] \in Seq(S)
    OBVIOUS
  <1>2. CASE n = 0
    <2>1. ss = <<>> /\ FlattenSeq(ss) = <<>>
      BY <1>2 DEF FlattenSeq
    <2>2. ToSet(<<>>) = {} /\ 1 .. n = {} /\ <<>> \in Seq(S)
      BY <1>2 DEF ToSet
    <2> HIDE DEF n
    <2>3. UNION {ToSet(ss[i]) : i \in 1 .. n} = {}
      BY <2>2
    <2> QED
      BY <2>1, <2>2, <2>3 DEF n
  <1>3. CASE n # 0
    <2>1. PICK f \in [0 .. n -> Seq(S)] :
             f[0] = <<>> /\ \A i \in 1 .. n : f[i] = f[i - 1] \o ss[i]
      <3>1. step \in [1 .. n -> [Seq(S) -> Seq(S)]]
        BY <1>1, InConcat
      <3>2. \A i \in 1 .. n, w \in Seq(S) : step[i][w] = w \o ss[i]
        OBVIOUS
      <3> HIDE DEF step, n
      <3>3. <<>> \in Seq(S)
        OBVIOUS
      <3>4. CanBeMade(n, Seq(S), <<>>, step)
        BY <1>1, <3>1, <3>3, Steps
      <3>5. PICK f \in [0 .. n -> Seq(S)] :
               f[0] = <<>> /\ \A i \in 1 .. n : f[i] = step[i][f[i - 1]]
        BY <3>4 DEF CanBeMade
      <3>6. \A i \in 1 .. n : i - 1 \in 0 .. n
        BY <1>1
      <3> QED
        BY ZenonT(30), <3>2, <3>5, <3>6
    <2> DEFINE g == [i \in 1 .. n |-> f[i]]
               h == CHOOSE h : Sum1(h)
    <2>2. Sum1(g)
      <3>1. ASSUME NEW i \in 1 .. n
            PROVE  f[i] = IF i = 1 THEN ss[i] ELSE g[i - 1] \o ss[i]
        <4>1. CASE i = 1
          <5>1. f[1] = <<>> \o ss[1] /\ ss[1] \in Seq(S)
            <6>1. 1 - 1 = 0 /\ 1 \in 1 .. n
              BY <4>1
            <6>2. f[1] = f[1 - 1] \o ss[1]
              BY <2>1, <6>1
            <6> QED
              BY <1>1, <2>1, <6>1, <6>2
          <5>2. <<>> \o ss[1] = ss[1]
            BY <5>1
          <5> QED
            BY <4>1, <5>1, <5>2
        <4>2. CASE i # 1
          <5>1. i - 1 \in 1 .. n
            BY <1>1, <4>2
          <5>2. g[i - 1] = f[i - 1]
            BY <5>1
          <5> HIDE DEF g
          <5> QED
            BY <2>1, <4>2, <5>2
        <4> QED
          BY <4>1, <4>2
      <3>2. g = [i \in 1 .. n |-> IF i = 1 THEN ss[i] ELSE g[i - 1] \o ss[i]]
        <4> DEFINE k == [i \in 1 .. n |-> IF i = 1 THEN ss[i] ELSE g[i - 1] \o ss[i]]
        <4>1. \A i \in 1 .. n : g[i] = k[i]
          BY <3>1
        <4>2. DOMAIN g = 1 .. n /\ DOMAIN k = 1 .. n
          OBVIOUS
        <4>3. g = [i \in 1 .. n |-> k[i]]
          BY <4>1
        <4> QED
          BY <4>3
      <3> QED
        BY <3>2
    <2>3. Sum1(h)
      BY <2>2
    <2>4. FlattenSeq(ss) = h[n]
      BY <1>3 DEF FlattenSeq
    <2> HIDE DEF h, g
    <2>5. ASSUME NEW i \in 1 .. n
          PROVE  h[i] = IF i = 1 THEN ss[i] ELSE h[i - 1] \o ss[i]
      BY <2>3
    <2> HIDE DEF Sum1
    <2> DEFINE Good(i) == /\ h[i] \in Seq(S)
                          /\ ToSet(h[i]) = UNION {ToSet(ss[j]) : j \in 1 .. i}
               Bad == {i \in 1 .. n : ~Good(i)}
    <2>6. Bad = {}
      <3>1. SUFFICES ASSUME Bad # {} PROVE FALSE
        OBVIOUS
      <3>2. PICK i \in Bad : \A e \in Bad : i <= e
        <4>1. Bad \in SUBSET Nat
          BY <1>1
        <4> HIDE DEF Bad
        <4> QED
          BY <3>1, <4>1, Least
      <3>3. i \in 1 .. n /\ ss[i] \in Seq(S)
        BY <1>1, <3>2
      <3>4. CASE i = 1
        <4>1. h[1] = ss[1] /\ ss[1] \in Seq(S)
          BY <2>5, <3>3, <3>4
        <4>2. {ToSet(ss[j]) : j \in 1 .. 1} = {ToSet(ss[1])}
          OBVIOUS
        <4>3. Good(1)
          BY <4>1, <4>2
        <4> QED
          BY <3>2, <3>4, <4>3
      <3>5. CASE i # 1
        <4>1. i - 1 \in 1 .. n /\ ~(i <= i - 1) /\ 1 .. i = (1 .. (i - 1)) \cup {i}
          BY <1>1, <3>3, <3>5
        <4>2. Good(i - 1)
          BY <3>2, <4>1
        <4>3. h[i] = h[i - 1] \o ss[i]
          BY <2>5, <3>3, <3>5
        <4>4. h[i] \in Seq(S) /\ ToSet(h[i]) = ToSet(h[i - 1]) \cup ToSet(ss[i])
          BY <3>3, <4>2, <4>3, InConcat
        <4>5. ToSet(h[i]) = UNION {ToSet(ss[j]) : j \in 1 .. i}
          BY <4>1, <4>2, <4>4
        <4> QED
          BY <3>2, <4>4, <4>5
      <3> QED
        BY <3>4, <3>5
    <2>7. n \in 1 .. n
      BY <1>1, <1>3
    <2>8. Good(n)
      BY <2>6, <2>7
    <2> QED
      BY <2>4, <2>8
  <1> QED
    BY <1>2, <1>3

-----------------------------------------------------------------------------
(* The frontier.                                                             *)
Leaves == [board : Position, path : Seq(Nat)]

Leaf(n) == [board |-> n.board, path |-> n.path]

(* The branch after the i-th move.                                           *)
Under(n, i) == [board |-> n.board.next[i], levels |-> n.levels - 1, path |-> Append(n.path, i)]

FrontierBody(g, n) ==
    IF n.levels = 0 \/ Terminal(n.board) THEN << Leaf(n) >>
    ELSE FlattenSeq([i \in DOMAIN n.board.next |-> g[Under(n, i)]])

LEMMA UnderTyped ==
  ASSUME NEW n \in Branches, n.levels # 0, NEW i \in 1 .. Len(n.board.next)
  PROVE  /\ Under(n, i) \in Branches /\ Under(n, i).levels = n.levels - 1
         /\ Under(n, i).board = n.board.next[i] /\ Under(n, i).path = Append(n.path, i)
  <1>1. n.board \in Position /\ n.levels \in Nat /\ n.path \in Seq(Nat)
    BY DEF Branches
  <1>2. n.board.next[i] \in Position /\ n.levels - 1 \in Nat /\ i \in Nat
    BY <1>1, Moves
  <1>3. Append(n.path, i) \in Seq(Nat)
    BY <1>1, <1>2
  <1> QED
    BY <1>2, <1>3 DEF Under, Branches

LEMMA FrontierBodyTyped ==
  ASSUME NEW g, NEW n \in Branches,
         n.levels # 0 => \A m \in Branches : m.levels < n.levels => g[m] \in Seq(Leaves)
  PROVE  /\ FrontierBody(g, n) \in Seq(Leaves)
         /\ ~(n.levels = 0 \/ Terminal(n.board)) =>
               ToSet(FrontierBody(g, n))
               = UNION {ToSet(g[Under(n, i)]) : i \in 1 .. Len(n.board.next)}
  <1>1. CASE n.levels = 0 \/ Terminal(n.board)
    <2>1. Leaf(n) \in Leaves
      BY DEF Leaf, Leaves, Branches
    <2> QED
      BY <1>1, <2>1 DEF FrontierBody
  <1>2. CASE ~(n.levels = 0 \/ Terminal(n.board))
    <2> DEFINE k == Len(n.board.next)
               ss == [i \in 1 .. k |-> g[Under(n, i)]]
    <2>1. k \in Nat /\ DOMAIN n.board.next = 1 .. k /\ n.levels \in Nat
      BY Moves DEF Branches
    <2>2. \A i \in 1 .. k : g[Under(n, i)] \in Seq(Leaves)
      BY <1>2, <2>1, UnderTyped
    <2>3. ss \in Seq(Seq(Leaves)) /\ Len(ss) = k /\ \A i \in 1 .. k : ss[i] = g[Under(n, i)]
      BY <2>1, <2>2
    <2>4. FrontierBody(g, n) = FlattenSeq(ss)
      BY <1>2, <2>1 DEF FrontierBody
    <2> HIDE DEF ss
    <2>5. /\ FlattenSeq(ss) \in Seq(Leaves)
          /\ ToSet(FlattenSeq(ss)) = UNION {ToSet(ss[i]) : i \in 1 .. k}
      BY <2>3, InFlat
    <2>6. {ToSet(ss[i]) : i \in 1 .. k} = {ToSet(g[Under(n, i)]) : i \in 1 .. k}
      BY <2>3
    <2> QED
      BY <2>4, <2>5, <2>6
  <1> QED
    BY <1>1, <1>2

LEMMA FrontierIs ==
  \A n \in Branches : frontier[n] = FrontierBody(frontier, n) /\ frontier[n] \in Seq(Leaves)
  <1> DEFINE V == Seq(Leaves)
             rank == [n \in Branches |-> n.levels]
             T == [g \in [Branches -> V] |-> [n \in Branches |-> FrontierBody(g, n)]]
  <1>1. rank \in [Branches -> Nat]
    BY DEF Branches
  <1>2. T \in [[Branches -> V] -> [Branches -> V]]
    <2>1. ASSUME NEW g \in [Branches -> V], NEW n \in Branches PROVE FrontierBody(g, n) \in V
      BY FrontierBodyTyped
    <2> QED
      BY <2>1
  <1>3. ASSUME NEW g \in [Branches -> V], NEW h \in [Branches -> V], NEW n \in Branches,
               \A m \in Branches : rank[m] < rank[n] => g[m] = h[m]
        PROVE  T[g][n] = T[h][n]
    <2>1. CASE n.levels = 0 \/ Terminal(n.board)
      BY <2>1 DEF FrontierBody
    <2>2. CASE ~(n.levels = 0 \/ Terminal(n.board))
      <3>1. n.levels \in Nat /\ DOMAIN n.board.next = 1 .. Len(n.board.next)
        BY Moves DEF Branches
      <3>2. \A i \in DOMAIN n.board.next : g[Under(n, i)] = h[Under(n, i)]
        <4> SUFFICES ASSUME NEW i \in DOMAIN n.board.next PROVE g[Under(n, i)] = h[Under(n, i)]
          OBVIOUS
        <4>1. Under(n, i) \in Branches /\ Under(n, i).levels < n.levels
          BY <2>2, <3>1, UnderTyped
        <4> QED
          BY <1>3, <4>1
      <3>3. FrontierBody(g, n) = FrontierBody(h, n)
        BY <2>2, <3>2 DEF FrontierBody
      <3> QED
        BY <3>3
    <2> QED
      BY <2>1, <2>2
  <1>4. \E g \in [Branches -> V] : g = T[g]
    <2>1. <<>> \in V
      OBVIOUS
    <2> HIDE DEF T, rank, V
    <2>2. Contracts(Branches, V, rank, T)
      BY <1>1, <1>2, <1>3 DEF Contracts
    <2> QED
      BY <2>1, <2>2, FixedPoint
  <1>5. PICK g \in [Branches -> V] : g = T[g]
    BY <1>4
  <1>6. g = [n \in Branches |-> FrontierBody(g, n)]
    BY <1>5
  <1> HIDE DEF T, V, rank
  <1>7. frontier = CHOOSE h : h = [n \in Branches |-> FrontierBody(h, n)]
    BY DEF frontier, FrontierBody, Leaf, Under, Branches
  <1>8. frontier = [n \in Branches |-> FrontierBody(frontier, n)]
    BY <1>6, <1>7
  <1>9. \A n \in Branches : frontier[n] = FrontierBody(frontier, n)
    BY <1>8
  <1>10. \A n \in Branches : frontier[n] \in Seq(Leaves)
    <2> DEFINE Bad == {d \in Nat : \E n \in Branches : n.levels = d /\ frontier[n] \notin Seq(Leaves)}
    <2>1. SUFFICES ASSUME Bad # {} PROVE FALSE
      BY DEF Branches
    <2>2. PICK d \in Bad : \A e \in Bad : d <= e
      <3>1. Bad \in SUBSET Nat
        OBVIOUS
      <3> HIDE DEF Bad
      <3> QED
        BY <2>1, <3>1, Least
    <2>3. PICK n \in Branches : n.levels = d /\ frontier[n] \notin Seq(Leaves)
      BY <2>2
    <2>4. \A m \in Branches : m.levels < d => frontier[m] \in Seq(Leaves)
      BY <2>2 DEF Branches
    <2> QED
      BY <1>9, <2>3, <2>4, FrontierBodyTyped
  <1> QED
    BY <1>9, <1>10

(* The tasks below a branch are those of its moves.                          *)
LEMMA FrontierSplits ==
  ASSUME NEW n \in Branches
  PROVE  IF n.levels = 0 \/ Terminal(n.board) THEN frontier[n] = << Leaf(n) >>
         ELSE ToSet(frontier[n]) = UNION {ToSet(frontier[Under(n, i)]) : i \in 1 .. Len(n.board.next)}
  <1>1. CASE n.levels = 0 \/ Terminal(n.board)
    BY <1>1, FrontierIs DEF FrontierBody
  <1>2. CASE ~(n.levels = 0 \/ Terminal(n.board))
    <2>1. n.levels # 0 => \A m \in Branches : m.levels < n.levels => frontier[m] \in Seq(Leaves)
      BY FrontierIs
    <2> QED
      BY <1>2, <2>1, FrontierIs, FrontierBodyTyped
  <1> QED
    BY <1>1, <1>2

-----------------------------------------------------------------------------
(* The paths of the tasks.                                                   *)
StartsWith(q, w) == Len(q) <= Len(w) /\ \A k \in 1 .. Len(q) : w[k] = q[k]

LEMMA PrefixIs ==
  ASSUME NEW q \in Seq(Nat), NEW w \in Seq(Nat), Len(q) <= Len(w)
  PROVE  /\ SubSeq(w, 1, Len(q)) = q => StartsWith(q, w)
         /\ StartsWith(q, w) => SubSeq(w, 1, Len(q)) = q
  <1>1. /\ Len(q) \in Nat /\ Len(w) \in Nat /\ DOMAIN q = 1 .. Len(q)
        /\ SubSeq(w, 1, Len(q)) = [k \in 1 .. Len(q) |-> w[k]]
    <2>1. SubSeq(w, 1, Len(q)) = [k \in 1 .. (Len(q) - 1 + 1) |-> w[1 + k - 1]]
      OBVIOUS
    <2>2. Len(q) - 1 + 1 = Len(q) /\ \A k \in 1 .. Len(q) : 1 + k - 1 = k
      OBVIOUS
    <2> QED
      BY <2>1, <2>2
  <1>2. q = [k \in 1 .. Len(q) |-> q[k]]
    BY <1>1
  <1>3. ASSUME \A k \in 1 .. Len(q) : w[k] = q[k]
        PROVE  [k \in 1 .. Len(q) |-> w[k]] = [k \in 1 .. Len(q) |-> q[k]]
    BY <1>3
  <1>4. ASSUME SubSeq(w, 1, Len(q)) = q
        PROVE  \A k \in 1 .. Len(q) : w[k] = q[k]
    <2>1. ASSUME NEW k \in 1 .. Len(q) PROVE SubSeq(w, 1, Len(q))[k] = w[k]
      BY <1>1
    <2> QED
      BY <1>4, <2>1
  <1>5. SubSeq(w, 1, Len(q)) = q <=> \A k \in 1 .. Len(q) : w[k] = q[k]
    BY <1>1, <1>2, <1>3, <1>4
  <1>6. StartsWith(q, w) <=> \A k \in 1 .. Len(q) : w[k] = q[k]
    BY DEF StartsWith
  <1>7. SubSeq(w, 1, Len(q)) = q => StartsWith(q, w)
    BY <1>5, <1>6
  <1>8. StartsWith(q, w) => SubSeq(w, 1, Len(q)) = q
    BY <1>5, <1>6
  <1> QED
    BY <1>7, <1>8

LEMMA StartsLonger ==
  ASSUME NEW q \in Seq(Nat), NEW w \in Seq(Nat), NEW i \in Nat
  PROVE  /\ Len(Append(q, i)) = Len(q) + 1 /\ Append(q, i) \in Seq(Nat)
         /\ StartsWith(Append(q, i), w)
            <=> StartsWith(q, w) /\ Len(q) < Len(w) /\ w[Len(q) + 1] = i
  <1>1. /\ Len(q) \in Nat /\ Len(w) \in Nat /\ Len(Append(q, i)) = Len(q) + 1
        /\ Append(q, i) \in Seq(Nat) /\ Append(q, i)[Len(q) + 1] = i
        /\ \A k \in 1 .. Len(q) : Append(q, i)[k] = q[k]
    OBVIOUS
  <1>2. 1 .. (Len(q) + 1) = (1 .. Len(q)) \cup {Len(q) + 1}
    BY <1>1
  <1>3. StartsWith(Append(q, i), w)
        <=> /\ Len(q) + 1 <= Len(w)
            /\ \A k \in 1 .. Len(q) : w[k] = q[k]
            /\ w[Len(q) + 1] = i
    BY <1>1, <1>2 DEF StartsWith
  <1>4. Len(q) + 1 <= Len(w) <=> Len(q) <= Len(w) /\ Len(q) < Len(w)
    BY <1>1
  <1>5. StartsWith(q, w) <=> Len(q) <= Len(w) /\ \A k \in 1 .. Len(q) : w[k] = q[k]
    BY DEF StartsWith
  <1>6. StartsWith(Append(q, i), w)
        <=> StartsWith(q, w) /\ Len(q) < Len(w) /\ w[Len(q) + 1] = i
    BY <1>3, <1>4, <1>5
  <1> QED
    BY <1>1, <1>6

(* A branch of a search to the depth of the run.                             *)
Reached(n) == /\ n \in Branches /\ Len(n.path) + n.levels <= Depth
              /\ n.board \in Known[Depth - Len(n.path)]

Shape(n) == /\ frontier[n] # <<>>
            /\ \A t \in ToSet(frontier[n]) :
                  /\ StartsWith(n.path, t.path)
                  /\ Len(t.path) <= Len(n.path) + n.levels
                  /\ t.board \in Known[Depth - Len(t.path)]

LEMMA UnderReached ==
  ASSUME NEW n, Reached(n), n.levels # 0, ~Terminal(n.board)
  PROVE  /\ Len(n.board.next) \in Nat /\ 1 \in 1 .. Len(n.board.next)
         /\ \A i \in 1 .. Len(n.board.next) :
               /\ i \in Nat /\ Reached(Under(n, i)) /\ Under(n, i).levels = n.levels - 1
               /\ Under(n, i).path = Append(n.path, i) /\ Under(n, i).board = n.board.next[i]
               /\ Len(Append(n.path, i)) = Len(n.path) + 1
  <1>1. /\ n \in Branches /\ n.board \in Position /\ n.levels \in Nat /\ n.path \in Seq(Nat)
        /\ Len(n.path) \in Nat /\ Depth \in Nat
    BY CpuSearchAssumption, OptionsAssumption DEF Reached, Branches
  <1>2. Depth - Len(n.path) \in Nat /\ Depth - Len(n.path) # 0
    BY <1>1 DEF Reached
  <1>3. Len(n.board.next) \in Nat /\ 1 \in 1 .. Len(n.board.next)
    BY <1>1, <1>2, Moves, KnownMoves DEF Reached
  <1>4. ASSUME NEW i \in 1 .. Len(n.board.next)
        PROVE  /\ i \in Nat /\ Reached(Under(n, i)) /\ Under(n, i).levels = n.levels - 1
               /\ Under(n, i).path = Append(n.path, i) /\ Under(n, i).board = n.board.next[i]
               /\ Len(Append(n.path, i)) = Len(n.path) + 1
    <2>1. i \in Nat
      BY <1>3
    <2>2. /\ Under(n, i) \in Branches /\ Under(n, i).levels = n.levels - 1
          /\ Under(n, i).board = n.board.next[i] /\ Under(n, i).path = Append(n.path, i)
      BY <1>1, UnderTyped
    <2>3. n.board.next[i] \in Known[(Depth - Len(n.path)) - 1]
      BY <1>2, KnownMoves DEF Reached
    <2>4. Len(Append(n.path, i)) = Len(n.path) + 1
      BY <1>1, <2>1
    <2>5. (Depth - Len(n.path)) - 1 = Depth - (Len(n.path) + 1)
      BY <1>1
    <2>6. Len(n.path) + 1 + (n.levels - 1) <= Depth
      BY <1>1 DEF Reached
    <2> QED
      BY <2>1, <2>2, <2>3, <2>4, <2>5, <2>6 DEF Reached
  <1> QED
    BY <1>3, <1>4

LEMMA ShapeStep ==
  ASSUME NEW n, Reached(n),
         \A m \in Branches : Reached(m) /\ m.levels < n.levels => Shape(m)
  PROVE  Shape(n)
  <1>1. /\ n \in Branches /\ n.board \in Position /\ n.levels \in Nat /\ n.path \in Seq(Nat)
        /\ Len(n.path) \in Nat /\ Depth \in Nat
    BY CpuSearchAssumption, OptionsAssumption DEF Reached, Branches
  <1>2. CASE n.levels = 0 \/ Terminal(n.board)
    <2>1. frontier[n] = << Leaf(n) >>
      BY <1>1, <1>2, FrontierSplits
    <2>2. ToSet(<< Leaf(n) >>) = {Leaf(n)} /\ << Leaf(n) >> # <<>>
      BY DEF ToSet
    <2>3. StartsWith(n.path, n.path)
      BY <1>1 DEF StartsWith
    <2>4. /\ Leaf(n).path = n.path /\ Leaf(n).board = n.board
          /\ Len(n.path) <= Len(n.path) + n.levels
          /\ n.board \in Known[Depth - Len(n.path)]
      BY <1>1 DEF Leaf, Reached
    <2>5. \A t \in ToSet(frontier[n]) : t = Leaf(n)
      BY <2>1, <2>2
    <2>6. \A t \in ToSet(frontier[n]) :
            /\ StartsWith(n.path, t.path) /\ Len(t.path) <= Len(n.path) + n.levels
            /\ t.board \in Known[Depth - Len(t.path)]
      BY <2>3, <2>4, <2>5
    <2> QED
      BY <2>1, <2>2, <2>6 DEF Shape
  <1>3. CASE ~(n.levels = 0 \/ Terminal(n.board))
    <2> DEFINE k == Len(n.board.next)
    <2>1. /\ 1 \in 1 .. k
          /\ ToSet(frontier[n]) = UNION {ToSet(frontier[Under(n, i)]) : i \in 1 .. k}
      BY <1>1, <1>3, UnderReached, FrontierSplits
    <2>2. ASSUME NEW i \in 1 .. k
          PROVE  /\ Shape(Under(n, i)) /\ Under(n, i) \in Branches /\ i \in Nat
                 /\ Under(n, i).levels = n.levels - 1 /\ Under(n, i).path = Append(n.path, i)
                 /\ Len(Append(n.path, i)) = Len(n.path) + 1
      <3>1. /\ i \in Nat /\ Reached(Under(n, i)) /\ Under(n, i).levels = n.levels - 1
            /\ Under(n, i).path = Append(n.path, i)
            /\ Len(Append(n.path, i)) = Len(n.path) + 1
        BY <1>3, UnderReached
      <3>2. Under(n, i) \in Branches /\ Under(n, i).levels < n.levels
        BY <1>1, <3>1 DEF Reached
      <3> QED
        BY <3>1, <3>2
    <2> HIDE DEF k
    <2>3. frontier[n] # <<>>
      <3>1. frontier[Under(n, 1)] # <<>> /\ frontier[Under(n, 1)] \in Seq(Leaves)
        BY <2>1, <2>2, FrontierIs DEF Shape
      <3>2. ToSet(frontier[Under(n, 1)]) # {}
        <4>1. 1 \in DOMAIN frontier[Under(n, 1)]
          BY <3>1
        <4> QED
          BY <4>1 DEF ToSet
      <3>3. ToSet(frontier[n]) # {}
        BY <2>1, <3>2
      <3> QED
        BY <3>3 DEF ToSet
    <2>4. ASSUME NEW t \in ToSet(frontier[n])
          PROVE  /\ StartsWith(n.path, t.path)
                 /\ Len(t.path) <= Len(n.path) + n.levels
                 /\ t.board \in Known[Depth - Len(t.path)]
      <3>1. PICK i \in 1 .. k : t \in ToSet(frontier[Under(n, i)])
        BY <2>1
      <3>2. frontier[Under(n, i)] \in Seq(Leaves)
        BY <2>2, FrontierIs
      <3>3. t \in Leaves
        BY <3>1, <3>2 DEF ToSet
      <3>4. t.path \in Seq(Nat) /\ Len(t.path) \in Nat
        BY <3>3 DEF Leaves
      <3>5. /\ StartsWith(Append(n.path, i), t.path)
            /\ Len(t.path) <= Len(n.path) + 1 + (n.levels - 1)
            /\ t.board \in Known[Depth - Len(t.path)]
        BY <2>2, <3>1 DEF Shape
      <3>6. StartsWith(n.path, t.path)
        BY <1>1, <2>2, <3>4, <3>5, StartsLonger
      <3> QED
        BY <1>1, <3>4, <3>5, <3>6
    <2> QED
      BY <2>3, <2>4 DEF Shape
  <1> QED
    BY <1>2, <1>3

LEMMA FrontierShape ==
  \A n \in Branches : Reached(n) => Shape(n)
  <1> DEFINE Bad == {d \in Nat : \E n \in Branches : n.levels = d /\ Reached(n) /\ ~Shape(n)}
  <1>1. SUFFICES ASSUME Bad # {} PROVE FALSE
    BY DEF Branches
  <1>2. PICK d \in Bad : \A e \in Bad : d <= e
    <2>1. Bad \in SUBSET Nat
      OBVIOUS
    <2> HIDE DEF Bad
    <2> QED
      BY <1>1, <2>1, Least
  <1>3. PICK n \in Branches : n.levels = d /\ Reached(n) /\ ~Shape(n)
    BY <1>2
  <1>4. \A m \in Branches : Reached(m) /\ m.levels < d => Shape(m)
    BY <1>2 DEF Branches
  <1> QED
    BY <1>3, <1>4, ShapeStep

-----------------------------------------------------------------------------
(* combine_frontier.                                                         *)
Here(q) == {i \in DOMAIN tasks : tasks[i].path = q}

Below1(q) == {i \in DOMAIN tasks : /\ Len(tasks[i].path) > Len(q)
                                   /\ SubSeq(tasks[i].path, 1, Len(q)) = q}

BestBody(s, g, q) ==
    IF Here(q) # {} THEN s[CHOOSE i \in Here(q) : TRUE]
    ELSE Max({-INF} \cup {-g[Append(q, tasks[i].path[Len(q) + 1])] : i \in Below1(q)})

BestOf(s) == CHOOSE g : g = [q \in Seq(Nat) |-> BestBody(s, g, q)]

(* What the combination is made from: a score for each task.                 *)
Scored(s) == /\ tasks \in Seq(Leaves) /\ s \in [1 .. Len(tasks) -> Int]
             /\ \A i \in 1 .. Len(tasks) : Len(tasks[i].path) <= Depth

LEMMA CombineIs ==
  ASSUME NEW s
  PROVE  \A q : Combine(s, q) = BestOf(s)[q]
  BY DEF Combine, BestOf, BestBody, Here, Below1

LEMMA NextOnPath ==
  ASSUME tasks \in Seq(Leaves), NEW q \in Seq(Nat), NEW i \in Below1(q)
  PROVE  /\ i \in 1 .. Len(tasks) /\ tasks[i].path[Len(q) + 1] \in Nat
         /\ Append(q, tasks[i].path[Len(q) + 1]) \in Seq(Nat)
         /\ Len(Append(q, tasks[i].path[Len(q) + 1])) = Len(q) + 1
         /\ Len(q) \in Nat /\ Len(tasks[i].path) \in Nat /\ Len(q) < Len(tasks[i].path)
  <1>1. i \in 1 .. Len(tasks) /\ tasks[i] \in Leaves /\ Len(tasks[i].path) > Len(q)
    BY DEF Below1
  <1>2. PICK w \in Seq(Nat) : w = tasks[i].path
    BY <1>1 DEF Leaves
  <1>3. Len(w) \in Nat /\ Len(q) \in Nat /\ Len(q) + 1 \in 1 .. Len(w)
    BY <1>1, <1>2
  <1>4. w[Len(q) + 1] \in Nat
    BY <1>3
  <1>5. \A x \in Nat : Append(q, x) \in Seq(Nat) /\ Len(Append(q, x)) = Len(q) + 1
    OBVIOUS
  <1> QED
    BY <1>1, <1>2, <1>3, <1>4, <1>5

LEMMA BestBodyTyped ==
  ASSUME NEW s, Scored(s), NEW q \in Seq(Nat), NEW g,
         \A i \in Below1(q) : g[Append(q, tasks[i].path[Len(q) + 1])] \in Int
  PROVE  BestBody(s, g, q) \in Int
  <1>1. tasks \in Seq(Leaves) /\ s \in [1 .. Len(tasks) -> Int] /\ DOMAIN tasks = 1 .. Len(tasks)
    BY DEF Scored
  <1>2. CASE Here(q) # {}
    <2>1. (CHOOSE i \in Here(q) : TRUE) \in 1 .. Len(tasks)
      BY <1>1, <1>2 DEF Here
    <2>2. BestBody(s, g, q) = s[CHOOSE i \in Here(q) : TRUE]
      BY <1>2 DEF BestBody
    <2> QED
      BY <1>1, <2>1, <2>2
  <1>3. CASE Here(q) = {}
    <2> DEFINE n == Len(tasks)
               f == [i \in 1 .. n |-> IF i \in Below1(q)
                                        THEN -g[Append(q, tasks[i].path[Len(q) + 1])] ELSE -INF]
    <2>1. \A i \in Below1(q) : i \in 1 .. n
      BY <1>1, NextOnPath
    <2>2. -INF \in Int /\ n \in Nat
      BY <1>1, GameTreeAssumption
    <2>3. \A i \in 1 .. n : f[i] = IF i \in Below1(q)
                                     THEN -g[Append(q, tasks[i].path[Len(q) + 1])] ELSE -INF
      OBVIOUS
    <2> HIDE DEF f
    <2>4. \A i \in 1 .. n : f[i] \in Int
      BY <2>2, <2>3
    <2>5. {-INF} \cup {f[i] : i \in 1 .. n}
          = {-INF} \cup {-g[Append(q, tasks[i].path[Len(q) + 1])] : i \in Below1(q)}
      BY <2>1, <2>3
    <2>6. BestBody(s, g, q) = Max({-INF} \cup {f[i] : i \in 1 .. n})
      BY <1>3, <2>5 DEF BestBody
    <2> HIDE DEF n
    <2>7. Max({-INF} \cup {f[i] : i \in 1 .. n}) \in Int
      BY <2>2, <2>4, MaxOfList
    <2> QED
      BY <2>6, <2>7
  <1> QED
    BY <1>2, <1>3

LEMMA BestIs ==
  ASSUME NEW s, Scored(s)
  PROVE  \A q \in Seq(Nat) : BestOf(s)[q] = BestBody(s, BestOf(s), q)
  <1> DEFINE Paths == Seq(Nat)
             left(q) == IF Len(q) < Depth THEN Depth - Len(q) ELSE 0
             rank == [q \in Paths |-> left(q)]
             T == [g \in [Paths -> Int] |-> [q \in Paths |-> BestBody(s, g, q)]]
  <1>1. rank \in [Paths -> Nat] /\ Depth \in Nat
    BY CpuSearchAssumption, OptionsAssumption
  <1>2. tasks \in Seq(Leaves)
    BY DEF Scored
  <1>3. T \in [[Paths -> Int] -> [Paths -> Int]]
    <2>1. ASSUME NEW g \in [Paths -> Int], NEW q \in Paths PROVE BestBody(s, g, q) \in Int
      BY <1>2, NextOnPath, BestBodyTyped
    <2> QED
      BY <2>1
  <1>4. ASSUME NEW g \in [Paths -> Int], NEW h \in [Paths -> Int], NEW q \in Paths,
               \A m \in Paths : rank[m] < rank[q] => g[m] = h[m]
        PROVE  T[g][q] = T[h][q]
    <2>1. ASSUME NEW i \in Below1(q)
          PROVE  g[Append(q, tasks[i].path[Len(q) + 1])] = h[Append(q, tasks[i].path[Len(q) + 1])]
      <3> DEFINE m == Append(q, tasks[i].path[Len(q) + 1])
      <3>1. /\ m \in Paths /\ Len(m) = Len(q) + 1 /\ Len(q) \in Nat /\ i \in 1 .. Len(tasks)
            /\ Len(tasks[i].path) \in Nat /\ Len(q) < Len(tasks[i].path)
        BY <1>2, NextOnPath
      <3>2. Len(tasks[i].path) <= Depth
        BY <3>1 DEF Scored
      <3> HIDE DEF m
      <3>3. left(m) < left(q)
        BY <1>1, <3>1, <3>2
      <3>4. g[m] = h[m]
        BY <1>4, <3>1, <3>3
      <3> QED
        BY <3>4 DEF m
    <2>2. BestBody(s, g, q) = BestBody(s, h, q)
      <3>1. {-g[Append(q, tasks[i].path[Len(q) + 1])] : i \in Below1(q)}
            = {-h[Append(q, tasks[i].path[Len(q) + 1])] : i \in Below1(q)}
        BY <2>1
      <3> DEFINE gs == {-g[Append(q, tasks[i].path[Len(q) + 1])] : i \in Below1(q)}
                 hs == {-h[Append(q, tasks[i].path[Len(q) + 1])] : i \in Below1(q)}
                 seen == s[CHOOSE i \in Here(q) : TRUE]
      <3>2. BestBody(s, g, q) = IF Here(q) # {} THEN seen ELSE Max({-INF} \cup gs)
        BY DEF BestBody
      <3>3. BestBody(s, h, q) = IF Here(q) # {} THEN seen ELSE Max({-INF} \cup hs)
        BY DEF BestBody
      <3>4. gs = hs
        BY <3>1
      <3> HIDE DEF gs, hs, seen
      <3> QED
        BY <3>2, <3>3, <3>4
    <2> QED
      BY <2>2
  <1>5. \E g \in [Paths -> Int] : g = T[g]
    <2> HIDE DEF T, rank, Paths
    <2>1. Contracts(Paths, Int, rank, T)
      BY <1>1, <1>3, <1>4 DEF Contracts
    <2> QED
      BY <2>1, FixedPoint, 0 \in Int
  <1>6. PICK g \in [Paths -> Int] : g = T[g]
    BY <1>5
  <1>7. g = [q \in Seq(Nat) |-> BestBody(s, g, q)]
    BY <1>6
  <1>8. BestOf(s) = [q \in Seq(Nat) |-> BestBody(s, BestOf(s), q)]
    BY <1>7 DEF BestOf
  <1> QED
    BY <1>8

(* What the search of t is worth.                                            *)
ValueAt(t) == Minimax(t.board, Depth - Len(t.path), Len(t.path))

(* The tasks below n are those of its frontier.                              *)
Covered(n) ==
    /\ \A i \in 1 .. Len(tasks) : StartsWith(n.path, tasks[i].path) => tasks[i] \in ToSet(frontier[n])
    /\ \A t \in ToSet(frontier[n]) : \E i \in 1 .. Len(tasks) : tasks[i] = t

(* The tasks below the i-th move of n start with its path.                   *)
LEMMA InUnder ==
  ASSUME NEW n, Reached(n), n.levels # 0, ~Terminal(n.board),
         NEW i \in 1 .. Len(n.board.next), NEW t \in ToSet(frontier[Under(n, i)])
  PROVE  /\ t \in ToSet(frontier[n]) /\ t.path \in Seq(Nat) /\ Len(t.path) \in Nat
         /\ StartsWith(n.path, t.path) /\ Len(n.path) < Len(t.path)
         /\ t.path[Len(n.path) + 1] = i
         /\ StartsWith(Append(n.path, i), t.path)
  <1>1. /\ i \in Nat /\ Reached(Under(n, i)) /\ Under(n, i).path = Append(n.path, i)
        /\ n \in Branches /\ n.path \in Seq(Nat) /\ Under(n, i) \in Branches
    <2>1. i \in Nat /\ Reached(Under(n, i)) /\ Under(n, i).path = Append(n.path, i)
      BY UnderReached
    <2> QED
      BY <2>1 DEF Reached, Branches
  <1>2. t \in ToSet(frontier[n])
    BY <1>1, FrontierSplits
  <1>3. t \in Leaves
    <2>1. frontier[Under(n, i)] \in Seq(Leaves)
      BY <1>1, FrontierIs
    <2> QED
      BY <2>1 DEF ToSet
  <1>4. t.path \in Seq(Nat) /\ Len(t.path) \in Nat
    BY <1>3 DEF Leaves
  <1>5. StartsWith(Append(n.path, i), t.path)
    BY <1>1, FrontierShape DEF Shape
  <1>6. StartsWith(n.path, t.path) /\ Len(n.path) < Len(t.path) /\ t.path[Len(n.path) + 1] = i
    BY <1>1, <1>4, <1>5, StartsLonger
  <1> QED
    BY <1>2, <1>4, <1>5, <1>6

LEMMA CoveredUnder ==
  ASSUME NEW n, Reached(n), n.levels # 0, ~Terminal(n.board), Covered(n), tasks \in Seq(Leaves),
         NEW i \in 1 .. Len(n.board.next)
  PROVE  Covered(Under(n, i))
  <1>1. /\ i \in Nat /\ Under(n, i).path = Append(n.path, i)
        /\ n \in Branches /\ n.path \in Seq(Nat)
    <2>1. i \in Nat /\ Under(n, i).path = Append(n.path, i)
      BY UnderReached
    <2> QED
      BY <2>1 DEF Reached, Branches
  <1>2. ASSUME NEW j \in 1 .. Len(tasks), StartsWith(Append(n.path, i), tasks[j].path)
        PROVE  tasks[j] \in ToSet(frontier[Under(n, i)])
    <2>1. tasks[j].path \in Seq(Nat)
      <3>1. tasks[j] \in Leaves
        OBVIOUS
      <3> QED
        BY <3>1 DEF Leaves
    <2>2. StartsWith(n.path, tasks[j].path) /\ tasks[j].path[Len(n.path) + 1] = i
      BY SMTT(30), <1>1, <1>2, <2>1, StartsLonger
    <2>3. tasks[j] \in ToSet(frontier[n])
      BY <2>2 DEF Covered
    <2>4. PICK k \in 1 .. Len(n.board.next) : tasks[j] \in ToSet(frontier[Under(n, k)])
      <3>1. ToSet(frontier[n]) = UNION {ToSet(frontier[Under(n, k)]) : k \in 1 .. Len(n.board.next)}
        BY <1>1, FrontierSplits
      <3> QED
        BY <2>3, <3>1
    <2>5. tasks[j].path[Len(n.path) + 1] = k
      BY <2>4, InUnder
    <2> QED
      BY <2>2, <2>4, <2>5
  <1>3. ASSUME NEW t \in ToSet(frontier[Under(n, i)])
        PROVE  \E j \in 1 .. Len(tasks) : tasks[j] = t
    BY InUnder DEF Covered
  <1> QED
    BY <1>1, <1>2, <1>3 DEF Covered

LEMMA CombineStep ==
  ASSUME NEW s, Scored(s), \A i \in 1 .. Len(tasks) : s[i] = ValueAt(tasks[i]),
         NEW n, Reached(n), Covered(n),
         \A m \in Branches : Reached(m) /\ Covered(m) /\ m.levels < n.levels =>
            Combine(s, m.path) = ValueAt(m)
  PROVE  Combine(s, n.path) = ValueAt(n)
  <1> DEFINE q == n.path
  <1>1. /\ n \in Branches /\ n.board \in Position /\ n.levels \in Nat /\ q \in Seq(Nat)
        /\ Len(q) \in Nat /\ Depth \in Nat /\ tasks \in Seq(Leaves)
        /\ DOMAIN tasks = 1 .. Len(tasks)
    BY CpuSearchAssumption, OptionsAssumption DEF Reached, Branches, Scored
  <1>2. Combine(s, q) = BestBody(s, BestOf(s), q)
    BY <1>1, CombineIs, BestIs
  <1>3. CASE n.levels = 0 \/ Terminal(n.board)
    <2>1. ToSet(frontier[n]) = {Leaf(n)}
      <3>1. frontier[n] = << Leaf(n) >>
        BY <1>1, <1>3, FrontierSplits
      <3> QED
        BY <3>1 DEF ToSet
    <2>2. PICK i \in 1 .. Len(tasks) : tasks[i] = Leaf(n)
      BY <2>1 DEF Covered
    <2>3. i \in Here(q)
      BY <1>1, <2>2 DEF Here, Leaf
    <2>4. PICK j : j = CHOOSE m \in Here(q) : TRUE
      OBVIOUS
    <2>5. j \in 1 .. Len(tasks) /\ tasks[j].path = q
      BY <1>1, <2>3, <2>4 DEF Here
    <2>6. StartsWith(q, q)
      BY <1>1 DEF StartsWith
    <2>7. tasks[j] = Leaf(n)
      BY <2>1, <2>5, <2>6 DEF Covered
    <2>8. Combine(s, q) = s[j]
      BY <1>2, <2>3, <2>4 DEF BestBody
    <2> QED
      BY <2>5, <2>7, <2>8 DEF ValueAt, Leaf
  <1>4. CASE ~(n.levels = 0 \/ Terminal(n.board))
    <2> DEFINE k == Len(n.board.next)
               d == Depth - Len(q)
               Next1(i) == At(n.board.next[i], d - 1, Len(q) + 1)
    <2>1. /\ k \in Nat /\ DOMAIN n.board.next = 1 .. k
          /\ ToSet(frontier[n]) = UNION {ToSet(frontier[Under(n, i)]) : i \in 1 .. k}
      BY <1>1, <1>4, Moves, FrontierSplits
    <2>2. d \in Nat /\ d # 0 /\ At(n.board, d, Len(q)) \in Searched
      BY <1>1, <1>4 DEF Reached, At, Searched
    <2>3. ASSUME NEW i \in 1 .. k
          PROVE  BestOf(s)[Append(q, i)] = minimax[Next1(i)]
      <3>1. /\ Reached(Under(n, i)) /\ Covered(Under(n, i)) /\ Under(n, i).levels < n.levels
            /\ Under(n, i).path = Append(q, i) /\ Under(n, i).board = n.board.next[i]
            /\ Len(Append(q, i)) = Len(q) + 1 /\ Under(n, i) \in Branches
        <4>1. /\ Reached(Under(n, i)) /\ Under(n, i).levels = n.levels - 1
              /\ Under(n, i).path = Append(q, i) /\ Under(n, i).board = n.board.next[i]
              /\ Len(Append(q, i)) = Len(q) + 1
          BY <1>4, UnderReached
        <4>2. Covered(Under(n, i))
          BY <1>1, <1>4, CoveredUnder
        <4> QED
          BY <1>1, <4>1, <4>2 DEF Reached
      <3>2. Combine(s, Append(q, i)) = ValueAt(Under(n, i))
        BY <3>1
      <3>3. Depth - (Len(q) + 1) = d - 1
        BY <1>1
      <3>4. ValueAt(Under(n, i)) = minimax[Next1(i)]
        BY <3>1, <3>3 DEF ValueAt, Minimax
      <3> QED
        BY <3>2, <3>4, CombineIs
    <2>4. Here(q) = {}
      <3> SUFFICES ASSUME NEW j \in Here(q) PROVE FALSE
        OBVIOUS
      <3>1. j \in 1 .. Len(tasks) /\ tasks[j].path = q
        BY <1>1 DEF Here
      <3>2. StartsWith(q, q)
        BY <1>1 DEF StartsWith
      <3>3. PICK i \in 1 .. k : tasks[j] \in ToSet(frontier[Under(n, i)])
        BY <2>1, <3>1, <3>2 DEF Covered
      <3>4. Len(q) < Len(tasks[j].path)
        BY <1>4, <3>3, InUnder
      <3> QED
        BY <1>1, <3>1, <3>4
    <2>5. ASSUME NEW j \in Below1(q)
          PROVE  tasks[j].path[Len(q) + 1] \in 1 .. k
      <3>1. /\ j \in 1 .. Len(tasks) /\ Len(q) < Len(tasks[j].path)
            /\ SubSeq(tasks[j].path, 1, Len(q)) = q
        BY <1>1, NextOnPath DEF Below1
      <3>2. tasks[j].path \in Seq(Nat)
        <4>1. tasks[j] \in Leaves
          BY <1>1, <3>1
        <4> QED
          BY <4>1 DEF Leaves
      <3>3. StartsWith(q, tasks[j].path)
        <4>1. PICK w \in Seq(Nat) : w = tasks[j].path
          BY <3>2
        <4>2. Len(w) \in Nat /\ Len(q) <= Len(w) /\ SubSeq(w, 1, Len(q)) = q
          BY <1>1, <3>1, <4>1
        <4> HIDE DEF q
        <4>3. StartsWith(q, w)
          BY <1>1, <4>2, PrefixIs
        <4> QED
          BY <4>1, <4>3
      <3>4. PICK i \in 1 .. k : tasks[j] \in ToSet(frontier[Under(n, i)])
        BY <2>1, <3>1, <3>3 DEF Covered
      <3> QED
        BY SMTT(30), <1>4, <3>4, InUnder
    <2>6. ASSUME NEW i \in 1 .. k
          PROVE  \E j \in Below1(q) : tasks[j].path[Len(q) + 1] = i
      <3>1. frontier[Under(n, i)] # <<>> /\ frontier[Under(n, i)] \in Seq(Leaves)
        <4>1. Reached(Under(n, i))
          BY <1>4, UnderReached
        <4>2. Under(n, i) \in Branches
          BY <4>1 DEF Reached
        <4> QED
          BY <4>1, <4>2, FrontierShape, FrontierIs DEF Shape
      <3>2. PICK t : t \in ToSet(frontier[Under(n, i)])
        <4>1. 1 \in DOMAIN frontier[Under(n, i)]
          BY <3>1
        <4> QED
          BY <4>1 DEF ToSet
      <3>3. /\ t \in ToSet(frontier[n]) /\ t.path \in Seq(Nat)
            /\ StartsWith(q, t.path) /\ Len(q) < Len(t.path) /\ t.path[Len(q) + 1] = i
        BY <1>4, <3>2, InUnder
      <3>4. PICK j \in 1 .. Len(tasks) : tasks[j] = t
        BY <3>3 DEF Covered
      <3>5. Len(t.path) > Len(q) /\ SubSeq(t.path, 1, Len(q)) = q
        <4>1. PICK w \in Seq(Nat) : w = t.path
          BY <3>3
        <4>2. Len(w) \in Nat /\ Len(q) <= Len(w) /\ StartsWith(q, w)
          BY <1>1, <3>3, <4>1
        <4> HIDE DEF q
        <4>3. SubSeq(w, 1, Len(q)) = q
          BY <1>1, <4>2, PrefixIs
        <4> QED
          BY <3>3, <4>1, <4>2, <4>3 DEF q
      <3>6. j \in Below1(q)
        BY <1>1, <3>4, <3>5 DEF Below1
      <3> QED
        BY <3>3, <3>4, <3>6
    <2>7. {-BestOf(s)[Append(q, tasks[i].path[Len(q) + 1])] : i \in Below1(q)}
          = {-minimax[Next1(i)] : i \in 1 .. k}
      <3>1. ASSUME NEW j \in Below1(q)
            PROVE  \E i \in 1 .. k : BestOf(s)[Append(q, tasks[j].path[Len(q) + 1])] = minimax[Next1(i)]
        BY <2>3, <2>5
      <3>2. ASSUME NEW i \in 1 .. k
            PROVE  \E j \in Below1(q) : BestOf(s)[Append(q, tasks[j].path[Len(q) + 1])] = minimax[Next1(i)]
        BY <2>3, <2>6
      <3> HIDE DEF Next1
      <3> QED
        BY <3>1, <3>2
    <2>8. Combine(s, q) = Max({-INF} \cup {-minimax[Next1(i)] : i \in 1 .. k})
      <3> DEFINE bs == {-BestOf(s)[Append(q, tasks[i].path[Len(q) + 1])] : i \in Below1(q)}
                 ms == {-minimax[Next1(i)] : i \in 1 .. k}
      <3>1. Combine(s, q) = Max({-INF} \cup bs)
        BY <1>2, <2>4 DEF BestBody
      <3>2. bs = ms
        BY <2>7
      <3> HIDE DEF bs, ms
      <3>3. Combine(s, q) = Max({-INF} \cup ms)
        BY <3>1, <3>2
      <3> QED
        BY <3>3 DEF ms
    <2>9. ValueAt(n) = MinimaxBody(minimax, At(n.board, d, Len(q)))
      BY <2>2, MinimaxIs DEF ValueAt, Minimax
    <2>10. MinimaxBody(minimax, At(n.board, d, Len(q)))
           = Max({-INF} \cup {-minimax[Next1(i)] : i \in 1 .. k})
      BY <1>4, <2>1, <2>2 DEF MinimaxBody, At
    <2> QED
      BY <2>8, <2>9, <2>10
  <1> QED
    BY <1>3, <1>4

LEMMA CombineIsMinimax ==
  ASSUME NEW s, Scored(s), \A i \in 1 .. Len(tasks) : s[i] = ValueAt(tasks[i])
  PROVE  \A n \in Branches : Reached(n) /\ Covered(n) => Combine(s, n.path) = ValueAt(n)
  <1> DEFINE Bad == {d \in Nat : \E n \in Branches : /\ n.levels = d /\ Reached(n) /\ Covered(n)
                                                     /\ Combine(s, n.path) # ValueAt(n)}
  <1>1. SUFFICES ASSUME Bad # {} PROVE FALSE
    BY DEF Branches
  <1>2. PICK d \in Bad : \A e \in Bad : d <= e
    <2>1. Bad \in SUBSET Nat
      OBVIOUS
    <2> HIDE DEF Bad
    <2> QED
      BY <1>1, <2>1, Least
  <1>3. PICK n \in Branches : /\ n.levels = d /\ Reached(n) /\ Covered(n)
                              /\ Combine(s, n.path) # ValueAt(n)
    BY <1>2
  <1>4. \A m \in Branches : Reached(m) /\ Covered(m) /\ m.levels < d =>
           Combine(s, m.path) = ValueAt(m)
    BY <1>2 DEF Branches
  <1> QED
    BY <1>3, <1>4, CombineStep

-----------------------------------------------------------------------------
(* The options of a run and what follows from them.                          *)
Options == /\ position \in Games /\ split \in Splits /\ seeded \in BOOLEAN
           /\ (seeded => split = 1) /\ tasks = Tasks(position, split)

(* Nothing to split.                                                         *)
Alone == split = 1 /\ Terminal(position)

Root == [board |-> position, levels |-> split, path |-> <<>>]

LEMMA OptionsAre ==
  ASSUME Options
  PROVE  /\ Depth \in Nat \ {0} /\ Depth < INF /\ split \in 1 .. Depth /\ split \in Nat
         /\ position \in Known[Depth] /\ position \in Position
         /\ Reached(Root) /\ Root \in Branches
         /\ position.next \in Seq(Position) /\ Len(position.next) \in Nat
         /\ DOMAIN position.next = 1 .. Len(position.next)
         /\ ~Terminal(position) => 1 \in 1 .. Len(position.next)
  <1>1. /\ Depth \in Nat \ {0} /\ Depth < INF /\ split \in 1 .. Depth /\ split \in Nat
        /\ position \in Known[Depth]
    BY CpuSearchAssumption, OptionsAssumption DEF Options
  <1>2. position \in Position
    BY <1>1, KnownIs
  <1>3. <<>> \in Seq(Nat) /\ Len(<<>>) = 0 /\ Depth - 0 = Depth
    BY <1>1
  <1>4. Root \in Branches
    BY <1>1, <1>2, <1>3 DEF Root, Branches
  <1>5. Reached(Root)
    BY <1>1, <1>3, <1>4 DEF Root, Reached
  <1>6. ~Terminal(position) => 1 \in 1 .. Len(position.next)
    BY <1>1, KnownMoves
  <1> QED
    BY <1>1, <1>2, <1>4, <1>5, <1>6, Moves

LEMMA TasksOfMoves ==
  ASSUME Options, split = 1
  PROVE  /\ tasks \in Seq(Leaves) /\ Len(tasks) = Len(position.next)
         /\ \A i \in 1 .. Len(tasks) : tasks[i] = [board |-> position.next[i], path |-> <<i>>]
  <1> DEFINE n == Len(position.next)
             t == [i \in 1 .. n |-> [board |-> position.next[i], path |-> <<i>>]]
  <1>1. n \in Nat /\ DOMAIN position.next = 1 .. n /\ \A i \in 1 .. n : position.next[i] \in Position
    BY OptionsAre, Moves
  <1>2. tasks = t
    BY <1>1 DEF Options, Tasks
  <1>3. \A i \in 1 .. n : [board |-> position.next[i], path |-> <<i>>] \in Leaves
    BY <1>1 DEF Leaves
  <1>4. t \in Seq(Leaves) /\ Len(t) = n
    BY <1>1, <1>3
  <1> QED
    BY <1>2, <1>4

LEMMA TasksOfFrontier ==
  ASSUME Options, split # 1
  PROVE  /\ tasks \in Seq(Leaves) /\ tasks = frontier[Root] /\ Covered(Root)
         /\ 1 \in 1 .. Len(tasks)
         /\ \A i \in 1 .. Len(tasks) :
               Len(tasks[i].path) \in 0 .. Depth /\ tasks[i].board \in Known[Depth - Len(tasks[i].path)]
  <1>1. tasks = frontier[Root] /\ Root \in Branches /\ Reached(Root) /\ Depth \in Nat /\ split \in Nat
    BY OptionsAre DEF Options, Tasks, Root
  <1>2. tasks \in Seq(Leaves) /\ Len(tasks) \in Nat /\ DOMAIN tasks = 1 .. Len(tasks)
    BY <1>1, FrontierIs
  <1>3. Shape(Root)
    BY <1>1, FrontierShape
  <1>4. Covered(Root)
    BY <1>1, <1>2 DEF Covered, ToSet
  <1>5. 1 \in 1 .. Len(tasks)
    BY <1>1, <1>2, <1>3 DEF Shape
  <1>6. ASSUME NEW i \in 1 .. Len(tasks)
        PROVE  /\ Len(tasks[i].path) \in 0 .. Depth
               /\ tasks[i].board \in Known[Depth - Len(tasks[i].path)]
    <2>1. tasks[i] \in ToSet(frontier[Root])
      BY <1>1, <1>2 DEF ToSet
    <2>2. /\ Len(tasks[i].path) <= Len(Root.path) + Root.levels
          /\ tasks[i].board \in Known[Depth - Len(tasks[i].path)]
      BY <1>3, <2>1 DEF Shape
    <2>3. Len(tasks[i].path) \in Nat
      <3>1. tasks[i] \in Leaves
        BY <1>2
      <3> QED
        BY <3>1 DEF Leaves
    <2>4. Len(Root.path) + Root.levels <= Depth /\ Len(Root.path) \in Nat /\ Root.levels \in Nat
      BY <1>1 DEF Reached, Root
    <2> QED
      BY <1>1, <2>2, <2>3, <2>4
  <1> QED
    BY <1>1, <1>2, <1>4, <1>5, <1>6

LEMMA TasksTyped ==
  ASSUME Options
  PROVE  /\ tasks \in Seq(Leaves) /\ Len(tasks) \in Nat /\ DOMAIN tasks = 1 .. Len(tasks)
         /\ ~Alone => 1 \in 1 .. Len(tasks)
  <1>1. CASE split = 1
    BY <1>1, TasksOfMoves, OptionsAre DEF Alone
  <1>2. CASE split # 1
    BY <1>2, TasksOfFrontier
  <1> QED
    BY <1>1, <1>2

(* The scores a rank may have for the tasks: exact, but for moves that are   *)
(* no better than the first.                                                 *)
Exact(s) ==
    /\ s \in [1 .. Len(tasks) -> Int]
    /\ IF split = 1
         THEN LET v(i) == Value(position, Depth, i)
              IN  /\ s[1] = v(1)
                  /\ \A i \in 1 .. Len(tasks) : IF v(i) <= v(1) THEN s[i] <= v(1) ELSE s[i] = v(i)
         ELSE \A i \in 1 .. Len(tasks) : s[i] = ValueAt(tasks[i])

(* The answer of serial_search.                                              *)
Answer == LET r == SerialSearch(position, Depth, TRUE)
          IN  [score |-> r.score, move |-> r.move]

LEMMA RootScores ==
  ASSUME Options, split = 1, ~Terminal(position), NEW s, Exact(s)
  PROVE  FirstBest(s) = Answer
  <1> DEFINE n == Len(tasks)
             r == SerialSearch(position, Depth, TRUE)
             v(i) == Value(position, Depth, i)
  <1>1. /\ r \in Bests /\ SerialKnows(position, Depth, n, r) /\ n \in Nat /\ 1 \in 1 .. n
        /\ \A i \in 1 .. n : v(i) \in Int
    <2>1. n = Len(position.next)
      BY TasksOfMoves
    <2>2. r \in Bests /\ SerialKnows(position, Depth, Len(position.next), r)
      BY OptionsAre, SerialFindsBest, TRUE \in BOOLEAN
    <2>3. \A i \in 1 .. Len(position.next) : v(i) \in Int
      BY OptionsAre, ValueTyped
    <2> HIDE DEF r
    <2> QED
      BY <2>1, <2>2, <2>3, OptionsAre
  <1>2. /\ s \in [1 .. n -> Int] /\ s[1] = v(1)
        /\ \A i \in 1 .. n : IF v(i) <= v(1) THEN s[i] <= v(1) ELSE s[i] = v(i)
    BY DEF Exact
  <1> HIDE DEF r
  <1>3. PICK most \in Int, move \in Nat : most = r.score /\ move = r.move
    BY <1>1 DEF Bests
  <1>4. /\ \A j \in 1 .. n : v(j) <= most
        /\ -INF < most /\ move \in 1 .. n /\ v(move) = most
        /\ \A j \in 1 .. (move - 1) : v(j) # most
    BY <1>1, <1>3 DEF SerialKnows
  <1> HIDE DEF v, n
  <1>5. \A i \in 1 .. n : s[i] <= most
    BY <1>1, <1>2, <1>4
  <1>6. s[move] = most
    <2>1. CASE move = 1
      BY <1>2, <1>4, <2>1
    <2>2. CASE move # 1
      <3>1. 1 \in 1 .. (move - 1)
        BY <1>1, <1>4, <2>2
      <3>2. v(1) < most
        BY <1>1, <1>4, <3>1
      <3> QED
        BY <1>1, <1>2, <1>4, <3>2
    <2> QED
      BY <2>1, <2>2
  <1>7. ASSUME NEW j \in 1 .. (move - 1) PROVE s[j] # most
    <2>1. j \in 1 .. n /\ 1 \in 1 .. (move - 1)
      BY <1>1, <1>4
    <2>2. v(j) < most /\ v(1) < most
      BY <1>1, <1>4, <2>1
    <2> QED
      BY <1>1, <1>2, <2>1, <2>2
  <1>8. IsFirstBest(n, s, most, move)
    BY <1>4, <1>5, <1>6, <1>7 DEF IsFirstBest
  <1>9. FirstBest(s) = [score |-> most, move |-> move]
    BY <1>1, <1>2, <1>8, FirstBestIs
  <1>10. Answer = [score |-> r.score, move |-> r.move]
    BY DEF Answer, r
  <1> QED
    BY <1>3, <1>9, <1>10

LEMMA FrontierScores ==
  ASSUME Options, split # 1, NEW s, Exact(s)
  PROVE  Reduce(s) = Answer
  <1>1. /\ Reached(Root) /\ Root \in Branches /\ Depth \in Nat \ {0} /\ Depth < INF
        /\ position \in Known[Depth] /\ position \in Position /\ split \in Nat
        /\ DOMAIN position.next = 1 .. Len(position.next)
    BY OptionsAre
  <1>2. /\ tasks \in Seq(Leaves) /\ tasks = frontier[Root] /\ Covered(Root) /\ 1 \in 1 .. Len(tasks)
        /\ \A i \in 1 .. Len(tasks) : Len(tasks[i].path) <= Depth
    BY <1>1, TasksOfFrontier
  <1>3. Scored(s) /\ \A i \in 1 .. Len(tasks) : s[i] = ValueAt(tasks[i])
    BY <1>2 DEF Exact, Scored
  <1>4. Root.board = position /\ Root.levels = split /\ Root.path = <<>>
    BY DEF Root
  <1>5. CASE Terminal(position)
    <2>1. frontier[Root] = << Leaf(Root) >>
      BY <1>1, <1>4, <1>5, FrontierSplits
    <2>2. tasks[1] = Leaf(Root)
      BY <1>2, <2>1
    <2>3. s[1] = Minimax(position, Depth, 0)
      <3>1. Len(<<>>) = 0 /\ Depth - 0 = Depth
        BY <1>1
      <3> QED
        BY <1>2, <1>3, <1>4, <2>2, <3>1 DEF ValueAt, Leaf
    <2>4. Minimax(position, Depth, 0) = StaticScore(position, 0)
      <3>1. At(position, Depth, 0) \in Searched
        BY <1>1 DEF At, Searched
      <3> QED
        BY <1>5, <3>1, MinimaxIs DEF MinimaxBody, Minimax, At
    <2>5. Answer = [score |-> StaticScore(position, 0), move |-> 0]
      <3>1. PICK r : r = SerialSearch(position, Depth, TRUE)
        OBVIOUS
      <3>2. r = [score |-> StaticScore(position, 0), move |-> 0, nodes |-> 1]
        BY <1>1, <1>5, <3>1, SerialIs, TRUE \in BOOLEAN
      <3>3. r.score = StaticScore(position, 0) /\ r.move = 0
        BY <3>2
      <3>4. Answer = [score |-> r.score, move |-> r.move]
        BY <3>1 DEF Answer
      <3> QED
        BY <3>3, <3>4
    <2> QED
      BY <1>5, <2>3, <2>4, <2>5 DEF Reduce
  <1>6. CASE ~Terminal(position)
    <2>1. ASSUME NEW i \in 1 .. Len(position.next)
          PROVE  Combine(s, <<i>>) = Minimax(position.next[i], Depth - 1, 1)
      <3>1. /\ Reached(Under(Root, i)) /\ Under(Root, i).board = position.next[i]
            /\ Under(Root, i).path = Append(<<>>, i) /\ i \in Nat
        <4>1. /\ Root.levels # 0 /\ ~Terminal(Root.board) /\ i \in 1 .. Len(Root.board.next)
          BY <1>1, <1>4, <1>6, OptionsAre
        <4>2. /\ i \in Nat /\ Reached(Under(Root, i)) /\ Under(Root, i).path = Append(Root.path, i)
              /\ Under(Root, i).board = Root.board.next[i]
          BY <1>1, <4>1, UnderReached
        <4> QED
          BY <1>4, <4>2
      <3>2. Under(Root, i) \in Branches
        BY <3>1 DEF Reached
      <3>3. Covered(Under(Root, i))
        <4>1. /\ Root.levels # 0 /\ ~Terminal(Root.board) /\ i \in 1 .. Len(Root.board.next)
          BY <1>1, <1>4, <1>6, OptionsAre
        <4> QED
          BY <1>1, <1>2, <4>1, CoveredUnder
      <3>4. Append(<<>>, i) = <<i>> /\ Len(<<i>>) = 1
        OBVIOUS
      <3>5. Combine(s, Under(Root, i).path) = ValueAt(Under(Root, i))
        BY <1>3, <3>1, <3>2, <3>3, CombineIsMinimax
      <3> QED
        BY <3>1, <3>4, <3>5 DEF ValueAt
    <2> DEFINE f == [i \in DOMAIN position.next |-> -Combine(s, <<i>>)]
               g == [i \in DOMAIN position.next |-> -Minimax(position.next[i], Depth - 1, 1)]
    <2>2. f = g
      BY <1>1, <2>1
    <2>3. Reduce(s) = FirstBest(f)
      BY <1>6 DEF Reduce
    <2>4. Answer = FirstBest(g)
      BY <1>1, <1>6, SerialFindsBest, TRUE \in BOOLEAN DEF Answer
    <2> HIDE DEF f, g
    <2> QED
      BY <2>2, <2>3, <2>4
  <1> QED
    BY <1>5, <1>6

(* From exact scores every rank forms the answer of serial_search.           *)
LEMMA ReduceIs ==
  ASSUME Options, ~Alone, NEW s, Exact(s)
  PROVE  Reduce(s) = Answer
  <1>1. CASE split = 1
    BY <1>1, RootScores DEF Alone, Reduce
  <1>2. CASE split # 1
    BY <1>2, FrontierScores
  <1> QED
    BY <1>1, <1>2

-----------------------------------------------------------------------------
(* Sums.                                                                     *)
Partial(f, n) == CHOOSE u : u = [i \in 0 .. n |-> IF i = 0 THEN 0 ELSE u[i - 1] + f[i]]

LEMMA PartialIs ==
  ASSUME NEW n \in Nat, NEW f, \A i \in 1 .. n : f[i] \in Int
  PROVE  /\ Partial(f, n) \in [0 .. n -> Int] /\ Partial(f, n)[0] = 0
         /\ \A i \in 1 .. n : Partial(f, n)[i] = Partial(f, n)[i - 1] + f[i]
         /\ Sum(f, n) = Partial(f, n)[n]
  <1> DEFINE step == [i \in 1 .. n |-> [x \in Int |-> x + f[i]]]
  <1>1. PICK u \in [0 .. n -> Int] : u[0] = 0 /\ \A i \in 1 .. n : u[i] = u[i - 1] + f[i]
    <2>1. step \in [1 .. n -> [Int -> Int]] /\ 0 \in Int
      OBVIOUS
    <2>2. \A i \in 1 .. n, x \in Int : step[i][x] = x + f[i]
      OBVIOUS
    <2> HIDE DEF step
    <2>3. CanBeMade(n, Int, 0, step)
      BY <2>1, Steps
    <2>4. PICK u \in [0 .. n -> Int] : u[0] = 0 /\ \A i \in 1 .. n : u[i] = step[i][u[i - 1]]
      BY <2>3 DEF CanBeMade
    <2>5. \A i \in 1 .. n : i - 1 \in 0 .. n
      OBVIOUS
    <2> QED
      BY ZenonT(30), <2>2, <2>4, <2>5
  <1>2. u = [i \in 0 .. n |-> IF i = 0 THEN 0 ELSE u[i - 1] + f[i]]
    <2>1. \A i \in 0 .. n : u[i] = IF i = 0 THEN 0 ELSE u[i - 1] + f[i]
      <3>1. \A i \in 0 .. n : i = 0 \/ i \in 1 .. n
        OBVIOUS
      <3> QED
        BY <1>1, <3>1
    <2> QED
      BY <2>1
  <1> DEFINE p == Partial(f, n)
  <1>3. p = [i \in 0 .. n |-> IF i = 0 THEN 0 ELSE p[i - 1] + f[i]]
    BY <1>2 DEF Partial
  <1>4. Sum(f, n) = p[n]
    BY DEF Sum, Partial
  <1> HIDE DEF p
  <1>5. p[0] = 0 /\ \A i \in 1 .. n : p[i] = p[i - 1] + f[i]
    <2>1. 0 \in 0 .. n /\ \A i \in 1 .. n : i \in 0 .. n /\ i # 0
      OBVIOUS
    <2> QED
      BY <1>3, <2>1
  <1>6. \A i \in 0 .. n : p[i] \in Int
    <2> DEFINE Bad == {i \in 0 .. n : p[i] \notin Int}
    <2>1. SUFFICES ASSUME Bad # {} PROVE FALSE
      OBVIOUS
    <2>2. PICK i \in Bad : \A e \in Bad : i <= e
      <3>1. Bad \in SUBSET Nat
        OBVIOUS
      <3> HIDE DEF Bad
      <3> QED
        BY <2>1, <3>1, Least
    <2>3. i \in 1 .. n
      BY <1>5, <2>2
    <2>4. i - 1 \in 0 .. n /\ ~(i <= i - 1)
      BY <2>3
    <2>5. p[i - 1] \in Int /\ f[i] \in Int
      BY <2>2, <2>3, <2>4
    <2> QED
      BY <1>5, <2>2, <2>3, <2>5
  <1>7. p \in [0 .. n -> Int]
    BY <1>3, <1>6
  <1> QED
    BY <1>4, <1>5, <1>7 DEF p

LEMMA SumIs ==
  ASSUME NEW n \in Nat, NEW f, \A i \in 1 .. n : f[i] \in Int
  PROVE  /\ Sum(f, 0) = 0
         /\ \A k \in 1 .. n : Sum(f, k) = Sum(f, k - 1) + f[k]
         /\ \A k \in 0 .. n : Sum(f, k) \in Int
  <1> DEFINE p(k) == Partial(f, k)
  <1>1. ASSUME NEW k \in 0 .. n
        PROVE  /\ p(k) \in [0 .. k -> Int] /\ p(k)[0] = 0 /\ Sum(f, k) = p(k)[k]
               /\ \A i \in 1 .. k : p(k)[i] = p(k)[i - 1] + f[i]
    BY PartialIs
  <1> HIDE DEF p
  <1>2. ASSUME NEW k \in 1 .. n
        PROVE  p(k)[k - 1] = p(k - 1)[k - 1]
    <2> DEFINE Bad == {i \in 0 .. (k - 1) : p(k)[i] # p(k - 1)[i]}
    <2>1. k \in 0 .. n /\ k - 1 \in 0 .. n /\ k - 1 \in 0 .. (k - 1)
      OBVIOUS
    <2>2. SUFFICES ASSUME Bad # {} PROVE FALSE
      BY <2>1
    <2>3. PICK i \in Bad : \A e \in Bad : i <= e
      <3>1. Bad \in SUBSET Nat
        OBVIOUS
      <3> HIDE DEF Bad
      <3> QED
        BY <2>2, <3>1, Least
    <2>4. i \in 1 .. (k - 1) /\ i \in 1 .. k
      BY <1>1, <2>1, <2>3
    <2>5. i - 1 \in 0 .. (k - 1) /\ ~(i <= i - 1)
      BY <2>4
    <2>6. p(k)[i - 1] = p(k - 1)[i - 1]
      BY <2>3, <2>5
    <2>7. p(k)[i] = p(k)[i - 1] + f[i] /\ p(k - 1)[i] = p(k - 1)[i - 1] + f[i]
      BY <1>1, <2>1, <2>4
    <2> QED
      BY <2>3, <2>6, <2>7
  <1>3. ASSUME NEW k \in 1 .. n
        PROVE  Sum(f, k) = Sum(f, k - 1) + f[k]
    <2>1. k \in 0 .. n /\ k - 1 \in 0 .. n /\ k \in 1 .. k
      OBVIOUS
    <2> QED
      BY <1>1, <1>2, <2>1
  <1>4. ASSUME NEW k \in 0 .. n PROVE Sum(f, k) \in Int
    BY <1>1
  <1>5. Sum(f, 0) = 0
    BY <1>1
  <1> QED
    BY <1>3, <1>4, <1>5

(* The same terms. *)
LEMMA SumSame ==
  ASSUME NEW n \in Nat, NEW f, NEW g, \A i \in 1 .. n : f[i] \in Int /\ f[i] = g[i]
  PROVE  Sum(f, n) = Sum(g, n)
  <1>1. /\ Sum(f, 0) = 0 /\ \A k \in 0 .. n : Sum(f, k) \in Int
        /\ \A k \in 1 .. n : Sum(f, k) = Sum(f, k - 1) + f[k]
    BY SumIs
  <1>2. /\ Sum(g, 0) = 0 /\ \A k \in 0 .. n : Sum(g, k) \in Int
        /\ \A k \in 1 .. n : Sum(g, k) = Sum(g, k - 1) + g[k]
    BY SumIs
  <1> DEFINE Bad == {k \in 0 .. n : ~(Sum(f, k) = Sum(g, k))}
  <1>3. SUFFICES ASSUME Bad # {} PROVE FALSE
    <2>1. n \in 0 .. n
      OBVIOUS
    <2> QED
      BY <2>1
  <1>4. PICK k \in Bad : \A e \in Bad : k <= e
    <2>1. Bad \in SUBSET Nat
      OBVIOUS
    <2> HIDE DEF Bad
    <2> QED
      BY <1>3, <2>1, Least
  <1>5. k \in 1 .. n
    BY <1>1, <1>2, <1>4
  <1>6. k - 1 \in 0 .. n /\ ~(k <= k - 1)
    BY <1>5
  <1>7. Sum(f, (k - 1)) = Sum(g, (k - 1))
    BY <1>4, <1>6
  <1> QED
    BY <1>1, <1>2, <1>4, <1>5, <1>6, <1>7

(* Term by term. *)
TermByTerm(h, f, g, n) ==
    \A i \in 1 .. n : f[i] \in Int /\ g[i] \in Int /\ h[i] = f[i] + g[i]

LEMMA SumPlus ==
  ASSUME NEW n \in Nat, NEW f, NEW g, NEW h, TermByTerm(h, f, g, n)
  PROVE  Sum(h, n) = Sum(f, n) + Sum(g, n)
  <1> USE DEF TermByTerm
  <1>1. /\ Sum(f, 0) = 0 /\ \A k \in 0 .. n : Sum(f, k) \in Int
        /\ \A k \in 1 .. n : Sum(f, k) = Sum(f, k - 1) + f[k]
    BY SumIs
  <1>2. /\ Sum(g, 0) = 0 /\ \A k \in 0 .. n : Sum(g, k) \in Int
        /\ \A k \in 1 .. n : Sum(g, k) = Sum(g, k - 1) + g[k]
    BY SumIs
  <1>3. /\ Sum(h, 0) = 0 /\ \A k \in 0 .. n : Sum(h, k) \in Int
        /\ \A k \in 1 .. n : Sum(h, k) = Sum(h, k - 1) + h[k]
    BY SumIs
  <1> DEFINE Bad == {k \in 0 .. n : ~(Sum(h, k) = Sum(f, k) + Sum(g, k))}
  <1>4. SUFFICES ASSUME Bad # {} PROVE FALSE
    <2>1. n \in 0 .. n
      OBVIOUS
    <2> QED
      BY <2>1
  <1>5. PICK k \in Bad : \A e \in Bad : k <= e
    <2>1. Bad \in SUBSET Nat
      OBVIOUS
    <2> HIDE DEF Bad
    <2> QED
      BY <1>4, <2>1, Least
  <1>6. k \in 1 .. n
    BY <1>1, <1>2, <1>3, <1>5
  <1>7. k - 1 \in 0 .. n /\ ~(k <= k - 1)
    BY <1>6
  <1>8. Sum(h, (k - 1)) = Sum(f, (k - 1)) + Sum(g, (k - 1))
    BY <1>5, <1>7
  <1> QED
    BY <1>1, <1>2, <1>3, <1>5, <1>6, <1>7, <1>8

(* Natural numbers. *)
LEMMA SumNatural ==
  ASSUME NEW n \in Nat, NEW f, \A i \in 1 .. n : f[i] \in Nat
  PROVE  Sum(f, n) \in Nat
  <1>1. /\ Sum(f, 0) = 0 /\ \A k \in 0 .. n : Sum(f, k) \in Int
        /\ \A k \in 1 .. n : Sum(f, k) = Sum(f, k - 1) + f[k]
    BY SumIs
  <1> DEFINE Bad == {k \in 0 .. n : ~(Sum(f, k) \in Nat)}
  <1>2. SUFFICES ASSUME Bad # {} PROVE FALSE
    <2>1. n \in 0 .. n
      OBVIOUS
    <2> QED
      BY <2>1
  <1>3. PICK k \in Bad : \A e \in Bad : k <= e
    <2>1. Bad \in SUBSET Nat
      OBVIOUS
    <2> HIDE DEF Bad
    <2> QED
      BY <1>2, <2>1, Least
  <1>4. k \in 1 .. n
    BY <1>1, <1>3
  <1>5. k - 1 \in 0 .. n /\ ~(k <= k - 1)
    BY <1>4
  <1>6. Sum(f, (k - 1)) \in Nat
    BY <1>3, <1>5
  <1> QED
    BY <1>1, <1>3, <1>4, <1>5, <1>6

OnlyAt(n, f, j, x) == \A i \in 1 .. n : f[i] = IF i = j THEN x ELSE 0

(* All terms but one are 0. *)
LEMMA SumOfOne ==
  ASSUME NEW n \in Nat, NEW f, NEW j \in Int, NEW x \in Int, OnlyAt(n, f, j, x)
  PROVE  Sum(f, n) = IF j \in 1 .. n THEN x ELSE 0
  <1> USE DEF OnlyAt
  <1>1. /\ Sum(f, 0) = 0 /\ \A k \in 0 .. n : Sum(f, k) \in Int
        /\ \A k \in 1 .. n : Sum(f, k) = Sum(f, k - 1) + f[k]
    BY SumIs
  <1> DEFINE Bad == {k \in 0 .. n : ~(Sum(f, k) = IF j \in 1 .. k THEN x ELSE 0)}
  <1>2. SUFFICES ASSUME Bad # {} PROVE FALSE
    <2>1. n \in 0 .. n
      OBVIOUS
    <2> QED
      BY <2>1
  <1>3. PICK k \in Bad : \A e \in Bad : k <= e
    <2>1. Bad \in SUBSET Nat
      OBVIOUS
    <2> HIDE DEF Bad
    <2> QED
      BY <1>2, <2>1, Least
  <1>4. k \in 1 .. n
    BY <1>1, <1>3
  <1>5. k - 1 \in 0 .. n /\ ~(k <= k - 1)
    BY <1>4
  <1>6. Sum(f, (k - 1)) = IF j \in 1 .. (k - 1) THEN x ELSE 0
    BY <1>3, <1>5
  <1> QED
    BY <1>1, <1>3, <1>4, <1>5, <1>6

OneInEach(R, n, a, e) ==
    \A i \in 1 .. n :
       e[i] \in Int /\ \E j \in 1 .. R : \A q \in 1 .. R : a[q][i] = IF q = j THEN e[i] ELSE 0

(* A table whose every column has one entry that is not 0.                   *)
LEMMA SumOfTable ==
  ASSUME NEW R \in Nat, NEW n \in Nat, NEW a, NEW e, OneInEach(R, n, a, e),
         NEW sums, sums = [q \in 1 .. R |-> Sum(a[q], n)]
  PROVE  Sum(sums, R) = Sum(e, n)
  <1> DEFINE row(k) == [q \in 1 .. R |-> Sum(a[q], k)]
             column(k) == [q \in 1 .. R |-> a[q][k]]
  <1> USE DEF OneInEach
  <1>1. \A q \in 1 .. R, i \in 1 .. n : a[q][i] \in Int
    OBVIOUS
  <1>2. ASSUME NEW q \in 1 .. R
        PROVE  /\ Sum(a[q], 0) = 0 /\ \A k \in 0 .. n : Sum(a[q], k) \in Int
               /\ \A k \in 1 .. n : Sum(a[q], k) = Sum(a[q], k - 1) + a[q][k]
    BY <1>1, SumIs
  <1>3. /\ Sum(e, 0) = 0 /\ \A k \in 0 .. n : Sum(e, k) \in Int
        /\ \A k \in 1 .. n : Sum(e, k) = Sum(e, k - 1) + e[k]
    BY SumIs
  <1>4. Sum(row(0), R) = 0
    <2>1. \A q \in 1 .. R : row(0)[q] = IF q = 0 THEN 0 ELSE 0
      BY <1>2
    <2> HIDE DEF row
    <2>2. OnlyAt(R, row(0), 0, 0)
      BY <2>1 DEF OnlyAt
    <2>3. Sum(row(0), R) = IF 0 \in 1 .. R THEN 0 ELSE 0
      BY <2>2, SumOfOne, 0 \in Int
    <2> QED
      BY <2>3
  <1>5. ASSUME NEW k \in 1 .. n
        PROVE  /\ Sum(row(k), R) = Sum(row(k - 1), R) + e[k]
    <2>1. PICK j \in 1 .. R : \A q \in 1 .. R : a[q][k] = IF q = j THEN e[k] ELSE 0
      OBVIOUS
    <2>2. \A q \in 1 .. R : /\ row(k - 1)[q] \in Int /\ column(k)[q] \in Int
                            /\ row(k)[q] = row(k - 1)[q] + column(k)[q]
      <3>1. k - 1 \in 0 .. n
        OBVIOUS
      <3> QED
        BY <1>1, <1>2, <3>1
    <2>3. \A q \in 1 .. R : column(k)[q] = IF q = j THEN e[k] ELSE 0
      BY <2>1
    <2> HIDE DEF row, column
    <2>4. Sum(column(k), R) = IF j \in 1 .. R THEN e[k] ELSE 0
      <3>1. PICK x \in Int : x = e[k]
        OBVIOUS
      <3>2. PICK f : f = column(k)
        OBVIOUS
      <3>3. j \in Int /\ \A i \in 1 .. R : f[i] = IF i = j THEN x ELSE 0
        BY <2>3, <3>1, <3>2
      <3>4. Sum(f, R) = IF j \in 1 .. R THEN x ELSE 0
        <4>1. OnlyAt(R, f, j, x)
          BY <3>3 DEF OnlyAt
        <4> QED
          BY <3>3, <4>1, SumOfOne
      <3> QED
        BY <3>1, <3>2, <3>4
    <2>5. Sum(row(k), R) = Sum(row(k - 1), R) + Sum(column(k), R)
      <3>1. TermByTerm(row(k), row(k - 1), column(k), R)
        BY <2>2 DEF TermByTerm
      <3> QED
        BY <3>1, SumPlus
    <2> QED
      BY <2>4, <2>5
  <1> HIDE DEF row
  <1> DEFINE Bad == {k \in 0 .. n : Sum(row(k), R) # Sum(e, k)}
  <1>6. Bad = {}
    <2>1. SUFFICES ASSUME Bad # {} PROVE FALSE
      OBVIOUS
    <2>2. PICK k \in Bad : \A m \in Bad : k <= m
      <3>1. Bad \in SUBSET Nat
        OBVIOUS
      <3> HIDE DEF Bad
      <3> QED
        BY <2>1, <3>1, Least
    <2>3. k \in 1 .. n
      BY <1>3, <1>4, <2>2
    <2>4. k - 1 \in 0 .. n /\ ~(k <= k - 1)
      BY <2>3
    <2>5. Sum(row(k - 1), R) = Sum(e, k - 1)
      BY <2>2, <2>4
    <2> QED
      BY <1>3, <1>5, <2>2, <2>3, <2>5
  <1>7. n \in 0 .. n
    OBVIOUS
  <1> QED
    BY <1>6, <1>7 DEF row

-----------------------------------------------------------------------------
(* The size of a frontier.                                                   *)

Sub(n, i) == [board |-> n.board.next[i], levels |-> n.levels - 1]

SizeBody(g, n) ==
    IF n.levels = 0 \/ Terminal(n.board) THEN 1
    ELSE 1 + Sum([i \in DOMAIN n.board.next |-> g[Sub(n, i)]], Len(n.board.next))

LEMMA SizeIs ==
  \A n \in Sizes : size[n] \in Nat
  <1> DEFINE rank == [n \in Sizes |-> n.levels]
             T == [g \in [Sizes -> Nat] |-> [n \in Sizes |-> SizeBody(g, n)]]
  <1>1. rank \in [Sizes -> Nat]
    BY DEF Sizes
  <1>2. ASSUME NEW n \in Sizes, ~(n.levels = 0 \/ Terminal(n.board))
        PROVE  /\ Len(n.board.next) \in Nat /\ DOMAIN n.board.next = 1 .. Len(n.board.next)
               /\ \A i \in 1 .. Len(n.board.next) : Sub(n, i) \in Sizes /\ Sub(n, i).levels < n.levels
    BY <1>2, Moves DEF Sizes, Sub
  <1>3. T \in [[Sizes -> Nat] -> [Sizes -> Nat]]
    <2>1. ASSUME NEW g \in [Sizes -> Nat], NEW n \in Sizes PROVE SizeBody(g, n) \in Nat
      <3>1. CASE n.levels = 0 \/ Terminal(n.board)
        BY <3>1 DEF SizeBody
      <3>2. CASE ~(n.levels = 0 \/ Terminal(n.board))
        <4> DEFINE f == [i \in 1 .. Len(n.board.next) |-> g[Sub(n, i)]]
                   k == Len(n.board.next)
        <4>1. k \in Nat /\ \A i \in 1 .. k : f[i] \in Nat
          BY <1>2, <3>2
        <4>2. SizeBody(g, n) = 1 + Sum(f, k)
          BY <1>2, <3>2 DEF SizeBody
        <4> HIDE DEF f, k
        <4>3. Sum(f, k) \in Nat
          BY <4>1, SumNatural
        <4> QED
          BY <4>2, <4>3
      <3> QED
        BY <3>1, <3>2
    <2> QED
      BY <2>1
  <1>4. ASSUME NEW g \in [Sizes -> Nat], NEW h \in [Sizes -> Nat], NEW n \in Sizes,
               \A m \in Sizes : rank[m] < rank[n] => g[m] = h[m]
        PROVE  T[g][n] = T[h][n]
    <2>1. CASE n.levels = 0 \/ Terminal(n.board)
      BY <2>1 DEF SizeBody
    <2>2. CASE ~(n.levels = 0 \/ Terminal(n.board))
      <3>1. [i \in DOMAIN n.board.next |-> g[Sub(n, i)]] = [i \in DOMAIN n.board.next |-> h[Sub(n, i)]]
        BY <1>2, <1>4, <2>2
      <3>2. SizeBody(g, n) = SizeBody(h, n)
        BY <3>1 DEF SizeBody
      <3> QED
        BY <3>2
    <2> QED
      BY <2>1, <2>2
  <1>5. \E g \in [Sizes -> Nat] : g = T[g]
    <2> HIDE DEF T, rank
    <2>1. Contracts(Sizes, Nat, rank, T)
      BY <1>1, <1>3, <1>4 DEF Contracts
    <2> QED
      BY <2>1, FixedPoint, 0 \in Nat
  <1>6. PICK g \in [Sizes -> Nat] : g = T[g]
    BY <1>5
  <1>7. g = [n \in Sizes |-> SizeBody(g, n)]
    BY <1>6
  <1> HIDE DEF T, rank
  <1>8. size = CHOOSE h : h = [n \in Sizes |-> SizeBody(h, n)]
    BY DEF size, SizeBody, Sub, Sizes
  <1>9. size = [n \in Sizes |-> SizeBody(size, n)]
    BY <1>7, <1>8
  <1> DEFINE Bad == {d \in Nat : \E n \in Sizes : n.levels = d /\ size[n] # g[n]}
  <1>10. Bad = {}
    <2>1. SUFFICES ASSUME Bad # {} PROVE FALSE
      OBVIOUS
    <2>2. PICK d \in Bad : \A e \in Bad : d <= e
      <3>1. Bad \in SUBSET Nat
        OBVIOUS
      <3> HIDE DEF Bad
      <3> QED
        BY <2>1, <3>1, Least
    <2>3. PICK n \in Sizes : n.levels = d /\ size[n] # g[n]
      BY <2>2
    <2>4. \A m \in Sizes : m.levels < d => size[m] = g[m]
      BY <2>2 DEF Sizes
    <2>5. CASE n.levels = 0 \/ Terminal(n.board)
      BY <1>7, <1>9, <2>3, <2>5 DEF SizeBody
    <2>6. CASE ~(n.levels = 0 \/ Terminal(n.board))
      <3>1. [i \in DOMAIN n.board.next |-> size[Sub(n, i)]] = [i \in DOMAIN n.board.next |-> g[Sub(n, i)]]
        BY <1>2, <2>3, <2>4, <2>6
      <3>2. SizeBody(size, n) = SizeBody(g, n)
        BY <3>1 DEF SizeBody
      <3> QED
        BY <1>7, <1>9, <2>3, <3>2
    <2> QED
      BY <2>5, <2>6
  <1> QED
    BY <1>10 DEF Sizes

-----------------------------------------------------------------------------
(* The search of a root move, with all that beats `low'.                     *)
LEMMA MoveSearched ==
  ASSUME Options, split = 1, ~Terminal(position), NEW i \in 1 .. Len(tasks),
         NEW low \in Int, -INF <= low, low < INF, NEW b, b = -low,
         NEW r, r = Negamax(tasks[i].board, Depth - 1, 1, -INF, b, TRUE)
  PROVE  /\ r \in Results
         /\ IF Value(position, Depth, i) <= low THEN -r.score <= low
            ELSE -r.score = Value(position, Depth, i)
  <1>1. i \in 1 .. Len(position.next) /\ tasks[i].board = position.next[i]
    <2>1. Len(tasks) = Len(position.next) /\ tasks[i] = [board |-> position.next[i], path |-> <<i>>]
      BY TasksOfMoves
    <2> QED
      BY <2>1
  <1> DEFINE c == Call(position.next[i], Depth - 1, 1, -INF, -low, TRUE)
  <1>2. /\ negamax[c] \in Results
        /\ IF Value(position, Depth, i) <= low THEN -negamax[c].score <= low
           ELSE -negamax[c].score = Value(position, Depth, i)
    BY <1>1, OptionsAre, RootMove, TRUE \in BOOLEAN
  <1>3. r = negamax[c]
    BY <1>1 DEF Negamax
  <1> HIDE DEF c
  <1> QED
    BY <1>2, <1>3

(* The search of a leaf of the frontier.                                     *)
LEMMA LeafSearched ==
  ASSUME Options, split # 1, NEW i \in 1 .. Len(tasks),
         NEW r, r = Negamax(tasks[i].board, Depth - Len(tasks[i].path), Len(tasks[i].path),
                            -INF, INF, TRUE)
  PROVE  r \in Results /\ r.score = ValueAt(tasks[i]) /\ -INF < ValueAt(tasks[i])
  <1>1. PICK p, k : p = tasks[i].board /\ k = Len(tasks[i].path)
    OBVIOUS
  <1>2. /\ k \in Nat /\ Depth - k \in Nat /\ p \in Known[Depth - k] /\ p \in Position
        /\ k + (Depth - k) < INF
    <2>1. k \in 0 .. Depth /\ p \in Known[Depth - k]
      BY <1>1, TasksOfFrontier
    <2>2. Depth \in Nat /\ Depth < INF
      BY OptionsAre
    <2> QED
      BY <2>1, <2>2, KnownIs
  <1>3. INF \in Nat /\ -INF \in Int /\ -INF < INF
    BY GameTreeAssumption
  <1> DEFINE c == Call(p, Depth - k, k, -INF, INF, TRUE)
             m == At(p, Depth - k, k)
  <1>4. c \in Calls /\ Window(c) /\ c.prune /\ c.alpha = -INF /\ c.beta = INF /\ WorthOf(c) = minimax[m]
    BY <1>2, <1>3 DEF Calls, Call, Window, WorthOf
  <1>5. m \in Searched /\ m.board \in Known[m.depth] /\ m.ply + m.depth < INF
    BY <1>2 DEF At, Searched
  <1>6. PICK v \in Int : v = minimax[m] /\ -INF < v /\ v < INF
    BY <1>5, MinimaxIs, ValuesBounded DEF Bounded
  <1>7. r = negamax[c] /\ ValueAt(tasks[i]) = minimax[m]
    BY <1>1 DEF Negamax, ValueAt, Minimax
  <1> HIDE DEF c, m
  <1>8. negamax[c] \in Results
    BY <1>4, NegamaxIs
  <1>9. PICK s \in Int : s = r.score
    BY <1>7, <1>8 DEF Results
  <1>10. Says(s, v, -INF, INF)
    BY <1>4, <1>6, <1>7, <1>9, AlphaBeta DEF Sound
  <1>11. s = v
    BY <1>3, <1>6, <1>10 DEF Says
  <1> QED
    BY <1>6, <1>7, <1>8, <1>9, <1>11

(* All backends give the same answer.                                        *)

(* What a search of each task gives, on whichever rank.                      *)
Work == [i \in 1 .. Len(tasks) |->
           IF i < First THEN SeedTask
           ELSE SearchTask(i, IF seeded THEN SeedTask.score ELSE -INF)]

Good == {s \in [1 .. Len(tasks) -> Int] : Exact(s)}

Labels == {"start", "seed", "bcast", "work", "gather", "scores", "choose", "stats", "done", "aborted"}

Rows == {<<>>} \cup [1 .. Len(tasks) -> Int]

Told == [score : Int, move : Nat, nodes : Int]

Types == /\ pc \in [Rank -> Labels] /\ scores \in [Rank -> Rows] /\ nodes \in [Rank -> Rows]
         /\ pending \in [Rank -> SUBSET (1 .. Len(tasks))] /\ result \in [Rank -> Told]

(* The seed is what every rank would find.                                   *)
Sent == message # <<>> => seeded /\ message = <<Work[1].score>>

(* A rank that has its rows, up to the reduction: the tasks it has searched  *)
(* and the seed, and nothing else.                                           *)
Loop(r) ==
    /\ pc[r] \in {"seed", "bcast", "work", "gather", "scores"}
    /\ scores[r] \in [1 .. Len(tasks) -> Int] /\ nodes[r] \in [1 .. Len(tasks) -> Int]
    /\ pc[r] = "seed" => seeded /\ r = 0
    /\ pc[r] = "bcast" => seeded /\ r # 0
    /\ pc[r] \in {"gather", "scores"} => pending[r] = {}
    /\ \A i \in pending[r] : i >= First /\ Owner(r, i)
    /\ \A i \in 1 .. Len(tasks) : i >= First =>
          IF Owner(r, i) /\ i \notin pending[r]
            THEN scores[r][i] = Work[i].score /\ nodes[r][i] = Work[i].nodes
            ELSE scores[r][i] = -INF /\ nodes[r][i] = 0
    /\ seeded =>
          /\ scores[r][1] = IF pc[r] \in {"seed", "bcast"} THEN -INF ELSE Work[1].score
          /\ nodes[r][1] = IF r = 0 /\ pc[r] # "seed" THEN Work[1].nodes ELSE 0

(* The rank that counts a task.                                              *)
Counts(r, i) == IF i < First THEN r = 0 ELSE Owner(r, i)

Share(r) == IF r = 0 THEN Upper ELSE 0

(* A rank between the two reductions.                                        *)
RankKnows(r) ==
    /\ pc[r] \in {"choose", "stats"}
    /\ scores[r] \in Good /\ nodes[r] \in [1 .. Len(tasks) -> Int]
    /\ \A i \in 1 .. Len(tasks) : nodes[r][i] = IF Counts(r, i) THEN Work[i].nodes ELSE 0
    /\ pc[r] = "stats" =>
          /\ result[r].score = Answer.score /\ result[r].move = Answer.move
          /\ result[r].nodes = Sum(nodes[r], Len(tasks)) + Share(r)

Aborted == \A r \in Rank : pc[r] = "aborted"

AllAlone == /\ Alone
            /\ \A r \in Rank : pc[r] \in {"start", "done"}
            /\ \A r \in Rank : pc[r] = "done" => result[r] = SerialSearch(position, Depth, TRUE)

Working == ~Alone /\ \A r \in Rank : pc[r] = "start" \/ Loop(r)

Choosing == ~Alone /\ \A r \in Rank : RankKnows(r)

Total == Upper + Sum([i \in 1 .. Len(tasks) |-> Work[i].nodes], Len(tasks))

AllFinished == /\ ~Alone
            /\ \A r \in Rank : /\ pc[r] = "done" /\ result[r].nodes = Total
                               /\ result[r].score = Answer.score /\ result[r].move = Answer.move

Phases == Aborted \/ AllAlone \/ Working \/ Choosing \/ AllFinished

SameInv == Options /\ Types /\ Sent /\ Phases

(* A score a rank may have for the i-th task.                                *)
ExactAt(i, x) ==
    IF split = 1
      THEN LET v(j) == Value(position, Depth, j)
           IN  IF v(i) <= v(1) THEN x <= v(1) /\ (i = 1 => x = v(1)) ELSE x = v(i)
      ELSE x = ValueAt(tasks[i])

LEMMA SeedIs ==
  ASSUME Options, split = 1, ~Terminal(position)
  PROVE  /\ SeedTask \in Results /\ SeedTask.score = Value(position, Depth, 1)
         /\ -INF < SeedTask.score /\ SeedTask.score < INF
  <1>1. 1 \in 1 .. Len(tasks) /\ 1 \in 1 .. Len(position.next)
    BY TasksTyped, TasksOfMoves DEF Alone
  <1>2. INF \in Nat /\ -INF \in Int /\ -INF <= -INF /\ -INF < INF /\ INF = -(-INF)
    BY GameTreeAssumption
  <1>3. PICK r : r = Negamax(tasks[1].board, Depth - 1, 1, -INF, INF, TRUE)
    OBVIOUS
  <1>4. PICK v \in Int : v = Value(position, Depth, 1) /\ -INF < v /\ v < INF
    BY <1>1, OptionsAre, ValueTyped
  <1>5. /\ r \in Results
        /\ IF Value(position, Depth, 1) <= -INF THEN -r.score <= -INF
           ELSE -r.score = Value(position, Depth, 1)
    BY <1>1, <1>2, <1>3, MoveSearched
  <1>6. -r.score = v
    BY <1>2, <1>4, <1>5
  <1>7. SeedTask = [score |-> -r.score, nodes |-> r.nodes]
    BY <1>3 DEF SeedTask
  <1> QED
    BY <1>4, <1>5, <1>6, <1>7 DEF Results

LEMMA WorkIs ==
  ASSUME Options, ~Alone, NEW i \in 1 .. Len(tasks)
  PROVE  Work[i] \in Results /\ ExactAt(i, Work[i].score)
  <1>1. INF \in Nat /\ -INF \in Int /\ -INF <= -INF /\ -INF < INF /\ INF = -(-INF)
    BY GameTreeAssumption
  <1>2. CASE split = 1
    <2>0. ~Terminal(position)
      BY <1>2 DEF Alone
    <2>1. /\ SeedTask \in Results /\ SeedTask.score = Value(position, Depth, 1)
          /\ -INF < SeedTask.score /\ SeedTask.score < INF
      BY <1>2, <2>0, SeedIs
    <2>2. PICK v \in Int, u \in Int : v = Value(position, Depth, i) /\ u = Value(position, Depth, 1)
                                      /\ -INF < v /\ v < INF /\ -INF < u /\ u < INF
      <3>1. i \in 1 .. Len(position.next) /\ 1 \in 1 .. Len(position.next)
        BY <1>2, <2>0, TasksOfMoves, OptionsAre
      <3> QED
        BY <2>0, <3>1, OptionsAre, ValueTyped
    <2>3. CASE i < First
      <3>1. i = 1 /\ Work[i] = SeedTask
        BY <2>3 DEF First, Work
      <3> QED
        BY <1>2, <2>1, <2>2, <3>1 DEF ExactAt
    <2>4. CASE ~(i < First)
      <3> DEFINE x == IF seeded THEN SeedTask.score ELSE -INF
                 r == Negamax(tasks[i].board, Depth - 1, 1, -INF, Bound(x), TRUE)
      <3>1. Work[i] = SearchTask(i, x)
        BY <2>4 DEF Work
      <3>2. Work[i] = [score |-> -r.score, nodes |-> r.nodes]
        BY <1>2, <3>1 DEF SearchTask
      <3>3. x \in Int /\ Bound(x) = -x /\ -INF <= x /\ x < INF
        BY <1>1, <2>1, <2>2 DEF Bound
      <3>4. r \in Results /\ IF Value(position, Depth, i) <= x THEN -r.score <= x
                             ELSE -r.score = Value(position, Depth, i)
        <4> HIDE DEF x
        <4> QED
          BY <1>2, <2>0, <3>3, MoveSearched
      <3>5. PICK s \in Int, k \in Nat : s = -r.score /\ k = r.nodes
        <4> HIDE DEF r
        <4> QED
          BY <3>4 DEF Results
      <3>6. IF v <= x THEN s <= x ELSE s = v
        BY <2>2, <3>4, <3>5
      <3>7. Work[i] = [score |-> s, nodes |-> k]
        BY <3>2, <3>5
      <3>8. Work[i] \in Results /\ Work[i].score = s
        BY <3>7 DEF Results
      <3>9. IF v <= u THEN s <= u /\ (i = 1 => s = u) ELSE s = v
        <4>1. CASE seeded
          <5>1. x = u /\ i # 1
            BY <2>1, <2>2, <2>4, <4>1 DEF First
          <5> HIDE DEF x
          <5> QED
            BY <2>2, <3>6, <5>1
        <4>2. CASE ~seeded
          <5>1. x = -INF
            BY <4>2
          <5>2. s = v
            BY <1>1, <2>2, <3>6, <5>1
          <5> QED
            BY <2>2, <5>2
        <4> QED
          BY <4>1, <4>2
      <3> QED
        BY <1>2, <2>2, <3>8, <3>9 DEF ExactAt
    <2> QED
      BY <2>3, <2>4
  <1>3. CASE split # 1
    <2>1. ~seeded /\ First = 1
      BY <1>3 DEF Options, First
    <2>2. PICK r : r = Negamax(tasks[i].board, Depth - Len(tasks[i].path), Len(tasks[i].path),
                               -INF, INF, TRUE)
      OBVIOUS
    <2>3. Work[i] = r
      <3>1. Work[i] = SearchTask(i, -INF)
        BY <2>1 DEF Work
      <3>2. SearchTask(i, -INF) = r
        BY Zenon, <1>3, <2>2 DEF SearchTask
      <3> QED
        BY <3>1, <3>2
    <2> QED
      BY <1>3, <2>2, <2>3, LeafSearched DEF ExactAt
  <1> QED
    BY <1>2, <1>3

(* A rank searches each task.                                                *)
LEMMA Owners ==
  ASSUME NEW i \in Int
  PROVE  \E r \in Rank : Owner(r, i) /\ \A q \in Rank : Owner(q, i) => q = r
  <1>1. NumRanks \in Nat /\ NumRanks > 0
    BY CpuSearchAssumption, OptionsAssumption
  <1>2. (i - 1) % NumRanks \in 0 .. (NumRanks - 1)
    BY <1>1
  <1> QED
    BY <1>2 DEF Rank, Owner

(* MPI_MAX over the ranks.                                                   *)
LEMMA MaxOfRanks ==
  ASSUME Options, ~Alone, NEW i \in 1 .. Len(tasks), NEW x \in Int, ExactAt(i, x),
         NEW S, x \in S, S \subseteq {x, -INF}
  PROVE  Max(S) \in Int /\ ExactAt(i, Max(S))
  <1>1. INF \in Nat /\ -INF \in Int
    BY GameTreeAssumption
  <1>2. PICK m \in Int : m = Max(S) /\ m \in {x, -INF} /\ x <= m
    <2>1. CASE x <= -INF /\ -INF \in S
      <3>1. -INF = Max(S)
        BY <1>1, <2>1, MaxIs
      <3> QED
        BY <1>1, <2>1, <3>1
    <2>2. CASE ~(x <= -INF /\ -INF \in S)
      <3>1. x = Max(S)
        BY <1>1, <2>2, MaxIs
      <3> QED
        BY <3>1
    <2> QED
      BY <2>1, <2>2
  <1>3. CASE split = 1
    <2>1. ~Terminal(position) /\ i \in 1 .. Len(position.next) /\ 1 \in 1 .. Len(position.next)
      BY <1>3, TasksOfMoves, OptionsAre DEF Alone
    <2>2. PICK v \in Int, u \in Int : v = Value(position, Depth, i) /\ u = Value(position, Depth, 1)
                                      /\ -INF < v /\ -INF < u
      BY <2>1, OptionsAre, ValueTyped
    <2>3. IF v <= u THEN x <= u /\ (i = 1 => x = u) ELSE x = v
      BY <1>3, <2>2 DEF ExactAt
    <2>4. IF v <= u THEN m <= u /\ (i = 1 => m = u) ELSE m = v
      BY <1>1, <1>2, <2>2, <2>3
    <2> QED
      BY <1>2, <1>3, <2>2, <2>4 DEF ExactAt
  <1>4. CASE split # 1
    <2>1. PICK r : r = Negamax(tasks[i].board, Depth - Len(tasks[i].path), Len(tasks[i].path),
                               -INF, INF, TRUE)
      OBVIOUS
    <2>2. -INF < ValueAt(tasks[i])
      BY <1>4, <2>1, LeafSearched
    <2>3. x = ValueAt(tasks[i])
      BY <1>4 DEF ExactAt
    <2>4. m = x
      BY <1>1, <1>2, <2>2, <2>3
    <2> QED
      BY <1>2, <2>4
  <1> QED
    BY <1>3, <1>4

(* The options of a run stay, and with them what they determine.             *)
LEMMA OptionsStay ==
  ASSUME UNCHANGED options
  PROVE  /\ Options => Options'
         /\ Work' = Work /\ Good' = Good /\ Answer' = Answer /\ Upper' = Upper /\ Total' = Total
         /\ First' = First /\ seeded' = seeded /\ tasks' = tasks
         /\ Len(tasks') = Len(tasks) /\ Rows' = Rows
  <1>1. position' = position /\ split' = split /\ seeded' = seeded /\ tasks' = tasks
    BY DEF options
  <1>2. First' = First
    BY <1>1 DEF First
  <1>3. Work' = Work
    <2>1. SeedTask' = SeedTask
      BY <1>1 DEF SeedTask
    <2>2. ASSUME NEW i, NEW x PROVE SearchTask(i, x)' = SearchTask(i, x)
      BY <1>1 DEF SearchTask, Bound
    <2> QED
      BY <1>1, <1>2, <2>1, <2>2 DEF Work, SearchTask, Bound
  <1>4. Good' = Good
    BY <1>1 DEF Good, Exact
  <1>5. Answer' = Answer
    BY <1>1 DEF Answer
  <1>6. Upper' = Upper
    BY <1>1 DEF Upper
  <1>7. Total' = Total
    BY <1>1, <1>3, <1>6 DEF Total
  <1>8. Options => Options'
    BY <1>1 DEF Options
  <1> QED
    BY <1>1, <1>2, <1>3, <1>4, <1>5, <1>6, <1>7, <1>8 DEF Rows

LEMMA ExactFromParts ==
  ASSUME Options, ~Alone, NEW s \in [1 .. Len(tasks) -> Int],
         \A i \in 1 .. Len(tasks) : ExactAt(i, s[i])
  PROVE  s \in Good
  <1>1. CASE split = 1
    <2>1. ~Terminal(position) /\ Len(tasks) = Len(position.next) /\ 1 \in 1 .. Len(tasks)
      BY <1>1, TasksOfMoves, TasksTyped DEF Alone
    <2>2. \A i \in 1 .. Len(tasks) : Value(position, Depth, i) \in Int
      BY <2>1, OptionsAre, ValueTyped
    <2> QED
      BY <1>1, <2>1, <2>2 DEF ExactAt, Exact, Good
  <1>2. CASE split # 1
    BY <1>2 DEF ExactAt, Exact, Good
  <1> QED
    BY <1>1, <1>2

LEMMA AnswerTyped ==
  ASSUME Options
  PROVE  Answer.score \in Int /\ Answer.move \in Nat
  <1>1. PICK r : r = SerialSearch(position, Depth, TRUE)
    OBVIOUS
  <1>2. Answer = [score |-> r.score, move |-> r.move]
    BY <1>1 DEF Answer
  <1>3. r.score \in Int /\ r.move \in Nat
    <2>1. CASE Terminal(position)
      <3>1. r = [score |-> StaticScore(position, 0), move |-> 0, nodes |-> 1]
        BY <1>1, <2>1, OptionsAre, SerialIs, TRUE \in BOOLEAN
      <3>2. StaticScore(position, 0) \in Int
        BY OptionsAre, StaticTyped
      <3> QED
        BY <3>1, <3>2
    <2>2. CASE ~Terminal(position)
      <3>1. r \in Bests
        BY <1>1, <2>2, OptionsAre, SerialFindsBest, TRUE \in BOOLEAN
      <3> QED
        BY <3>1 DEF Bests
    <2> QED
      BY <2>1, <2>2
  <1> QED
    BY <1>2, <1>3

LEMMA UpperTyped ==
  ASSUME Options
  PROVE  Upper \in Int
  <1>1. [board |-> position, levels |-> split] \in Sizes /\ Len(tasks) \in Nat
    BY OptionsAre, TasksTyped DEF Sizes
  <1>2. FrontierSize(position, split) \in Nat
    BY <1>1, SizeIs DEF FrontierSize
  <1> QED
    BY <1>1, <1>2 DEF Upper

LEMMA Ranks == 0 \in Rank /\ Rank \subseteq Int
  BY CpuSearchAssumption, OptionsAssumption DEF Rank

-----------------------------------------------------------------------------
(* The steps of a run.                                                       *)
LEMMA NoneLeft ==
  ASSUME \A r \in Rank : pc[r] \in {"done", "aborted"}, Next
  PROVE  FALSE
  <1>1. pc[0] \in {"done", "aborted"}
    BY Ranks
  <1>2. CASE Seed
    BY <1>1, <1>2 DEF Seed
  <1>3. CASE ReduceScores \/ ReduceStats
    BY <1>1, <1>3, Ranks DEF ReduceScores, ReduceStats, Together
  <1>4. ASSUME NEW r \in Rank, RankStep(r) PROVE FALSE
    BY <1>4 DEF RankStep, Serial, Abort, Start, Receive, Search, WorkDone, Gather, Choose
  <1> QED
    BY <1>2, <1>3, <1>4 DEF Next

LEMMA AloneStep ==
  ASSUME Options, Types, AllAlone, Next
  PROVE  Types' /\ AllAlone' /\ UNCHANGED <<options, message>>
  <1>1. pc[0] \in {"start", "done"} /\ Alone
    BY Ranks DEF AllAlone
  <1>2. CASE Seed
    BY <1>1, <1>2 DEF Seed
  <1>3. CASE ReduceScores
    BY <1>1, <1>3, Ranks DEF ReduceScores, Together
  <1>4. CASE ReduceStats
    <2>1. FALSE
      BY <1>1, <1>4, Ranks DEF ReduceStats, Together
    <2> QED
      BY <2>1
  <1>5. ASSUME NEW r \in Rank, RankStep(r)
        PROVE  Types' /\ AllAlone' /\ UNCHANGED <<options, message>>
    <2>1. Serial(r)
      <3>1. pc[r] \in {"start", "done"} /\ split = 1 /\ Terminal(position)
        BY <1>1 DEF AllAlone, Alone
      <3>2. ~Abort(r)
        BY <3>1 DEF Abort
      <3>3. ~Start(r)
        BY <3>1 DEF Start
      <3>4. ~Receive(r) /\ ~WorkDone(r) /\ ~Gather(r) /\ ~Choose(r)
        BY <3>1 DEF Receive, WorkDone, Gather, Choose
      <3>5. ~ \E i \in pending[r] : Search(r, i)
        BY <3>1 DEF Search
      <3> QED
        BY <1>5, <3>2, <3>3, <3>4, <3>5 DEF RankStep
    <2>2. UNCHANGED <<options, message, scores, nodes, pending>>
      BY <2>1 DEF Serial
    <2>3. /\ SerialSearch(position', Depth, TRUE) = SerialSearch(position, Depth, TRUE)
          /\ Rows' = Rows /\ Len(tasks') = Len(tasks) /\ Alone'
      <3>1. position' = position /\ Alone'
        BY <1>1, <2>2 DEF Alone, options
      <3>2. SerialSearch(position', Depth, TRUE) = SerialSearch(position, Depth, TRUE)
        BY Zenon, <3>1
      <3>3. Rows' = Rows /\ Len(tasks') = Len(tasks)
        BY <2>2, OptionsStay
      <3> QED
        BY Zenon, <3>1, <3>2, <3>3
    <2>4. PICK s : s = SerialSearch(position, Depth, TRUE)
      OBVIOUS
    <2>5. s \in Told
      <3>1. s = [score |-> StaticScore(position, 0), move |-> 0, nodes |-> 1]
        BY <1>1, <2>4, OptionsAre, SerialIs, TRUE \in BOOLEAN DEF Alone
      <3>2. StaticScore(position, 0) \in Int
        BY OptionsAre, StaticTyped
      <3> QED
        BY <3>1, <3>2 DEF Told
    <2>6. pc' = [pc EXCEPT ![r] = "done"] /\ result' = [result EXCEPT ![r] = s]
      BY <2>1, <2>4 DEF Serial, Goto
    <2>7. Types'
      BY <2>2, <2>3, <2>5, <2>6 DEF Types, Labels
    <2>8. AllAlone'
      BY <2>3, <2>4, <2>6 DEF AllAlone, Types
    <2> QED
      BY <2>2, <2>7, <2>8
  <1> QED
    BY <1>2, <1>3, <1>4, <1>5 DEF Next

-----------------------------------------------------------------------------
(* The steps of a rank that works.                                           *)
LEMMA OthersStay ==
  ASSUME UNCHANGED options, NEW q \in Rank, Loop(q), pc'[q] = pc[q], scores'[q] = scores[q],
         nodes'[q] = nodes[q], pending'[q] = pending[q]
  PROVE  Loop(q)'
  <1>1. Work' = Work /\ First' = First /\ seeded' = seeded /\ Len(tasks') = Len(tasks)
    BY OptionsStay
  <1> QED
    BY <1>1 DEF Loop

(* What is to be shown of a step that moves rank r.                          *)
LEMMA OneMoves ==
  ASSUME Working, UNCHANGED options, NEW r \in Rank, Loop(r)',
         \A q \in Rank : q # r => /\ pc'[q] = pc[q] /\ scores'[q] = scores[q]
                                  /\ nodes'[q] = nodes[q] /\ pending'[q] = pending[q]
  PROVE  Working'
  <1>1. ~Alone'
    BY DEF Working, Alone, options
  <1>2. ASSUME NEW q \in Rank PROVE pc'[q] = "start" \/ Loop(q)'
    <2>1. CASE q = r
      BY <2>1
    <2>2. CASE q # r
      BY <2>2, OthersStay DEF Working
    <2> QED
      BY <2>1, <2>2
  <1> QED
    BY <1>1, <1>2 DEF Working

LEMMA WorkTyped ==
  ASSUME Options, ~Alone
  PROVE  /\ -INF \in Int /\ Len(tasks) \in Nat /\ DOMAIN tasks = 1 .. Len(tasks)
         /\ 1 \in 1 .. Len(tasks) /\ First \in {1, 2} /\ (seeded <=> First = 2)
         /\ \A i \in 1 .. Len(tasks) : Work[i].score \in Int /\ Work[i].nodes \in Nat
         /\ seeded => Work[1] = SeedTask
  <1>1. \A i \in 1 .. Len(tasks) : Work[i] \in Results
    BY WorkIs
  <1>2. 1 \in 1 .. Len(tasks) /\ Len(tasks) \in Nat /\ DOMAIN tasks = 1 .. Len(tasks)
    BY TasksTyped
  <1>3. First \in {1, 2} /\ (seeded <=> First = 2)
    BY DEF First, Options
  <1>4. seeded => Work[1] = SeedTask
    BY <1>2 DEF Work, First
  <1> QED
    BY <1>1, <1>2, <1>3, <1>4, GameTreeAssumption DEF Results

LEMMA StartStep ==
  ASSUME Options, Types, Working, NEW r \in Rank, Start(r)
  PROVE  Types' /\ Working' /\ UNCHANGED <<options, message>>
  <1>1. UNCHANGED <<options, message, result>> /\ pc[r] = "start"
    BY DEF Start
  <1>2. /\ Work' = Work /\ First' = First /\ seeded' = seeded /\ Len(tasks') = Len(tasks)
        /\ Rows' = Rows
    BY <1>1, OptionsStay
  <1>3. /\ -INF \in Int /\ Len(tasks) \in Nat /\ DOMAIN tasks = 1 .. Len(tasks)
        /\ 1 \in 1 .. Len(tasks) /\ First \in {1, 2} /\ (seeded <=> First = 2)
    BY WorkTyped DEF Working
  <1> DEFINE n == Len(tasks)
             a == [i \in 1 .. n |-> -INF]
             z == [i \in 1 .. n |-> 0]
             p == {i \in 1 .. n : i >= First /\ Owner(r, i)}
             l == IF ~seeded THEN "work" ELSE IF r = 0 THEN "seed" ELSE "bcast"
  <1>4. /\ scores' = [scores EXCEPT ![r] = a] /\ nodes' = [nodes EXCEPT ![r] = z]
        /\ pending' = [pending EXCEPT ![r] = p] /\ pc' = [pc EXCEPT ![r] = l]
    BY <1>3 DEF Start, Goto
  <1>5. a \in Rows /\ z \in Rows /\ p \in SUBSET (1 .. n) /\ l \in Labels
    BY <1>3 DEF Rows, Labels
  <1>6. Types'
    <2> HIDE DEF a, z, p, l
    <2> QED
      BY <1>1, <1>2, <1>4, <1>5 DEF Types
  <1>7. scores'[r] = a /\ nodes'[r] = z /\ pending'[r] = p /\ pc'[r] = l
    BY <1>4 DEF Types
  <1>8. Loop(r)'
    <2>1. a \in [1 .. n -> Int] /\ z \in [1 .. n -> Int]
      BY <1>3
    <2>2. \A i \in 1 .. n : a[i] = -INF /\ z[i] = 0
      OBVIOUS
    <2>3. \A i \in 1 .. n : i >= First => (i \in p <=> Owner(r, i))
      OBVIOUS
    <2>4. \A i \in p : i >= First /\ Owner(r, i)
      OBVIOUS
    <2>5. /\ l \in {"seed", "bcast", "work"} /\ (l = "seed" => seeded /\ r = 0)
          /\ (l = "bcast" => seeded /\ r # 0) /\ (seeded => l \in {"seed", "bcast"})
          /\ (seeded /\ r = 0 => l = "seed")
      BY DEF Options
    <2> HIDE DEF a, z, p, l
    <2> QED
      BY <1>2, <1>3, <1>7, <2>1, <2>2, <2>3, <2>4, <2>5 DEF Loop
  <1>9. \A q \in Rank : q # r => /\ pc'[q] = pc[q] /\ scores'[q] = scores[q]
                                  /\ nodes'[q] = nodes[q] /\ pending'[q] = pending[q]
    <2> HIDE DEF a, z, p, l
    <2> QED
      BY <1>4 DEF Types
  <1> QED
    BY <1>1, <1>6, <1>8, <1>9, OneMoves

LEMMA SeedStep ==
  ASSUME Options, Types, Sent, Working, Seed
  PROVE  Types' /\ Working' /\ Sent' /\ UNCHANGED options
  <1>1. UNCHANGED <<options, pending, result>> /\ pc[0] = "seed" /\ 0 \in Rank
    BY Ranks DEF Seed
  <1>2. /\ Work' = Work /\ First' = First /\ seeded' = seeded /\ Len(tasks') = Len(tasks)
        /\ Rows' = Rows
    BY <1>1, OptionsStay
  <1>3. /\ -INF \in Int /\ Len(tasks) \in Nat /\ 1 \in 1 .. Len(tasks)
        /\ First \in {1, 2} /\ (seeded <=> First = 2)
        /\ Work[1].score \in Int /\ Work[1].nodes \in Nat /\ (seeded => Work[1] = SeedTask)
    BY WorkTyped DEF Working
  <1>4. Loop(0) /\ seeded
    BY <1>1 DEF Working, Loop
  <1> DEFINE n == Len(tasks)
             x == Work[1].score
             y == Work[1].nodes
  <1>5. /\ scores' = [scores EXCEPT ![0][1] = x] /\ nodes' = [nodes EXCEPT ![0][1] = y]
        /\ message' = <<x>> /\ pc' = [pc EXCEPT ![0] = "work"]
    BY <1>3, <1>4 DEF Seed, Goto
  <1> HIDE DEF x, y
  <1>6. scores[0] \in [1 .. n -> Int] /\ nodes[0] \in [1 .. n -> Int] /\ x \in Int /\ y \in Int
    BY <1>3, <1>4 DEF Loop, x, y
  <1>7. /\ scores'[0] = [scores[0] EXCEPT ![1] = x] /\ nodes'[0] = [nodes[0] EXCEPT ![1] = y]
        /\ pc'[0] = "work"
        /\ \A q \in Rank : q # 0 => /\ pc'[q] = pc[q] /\ scores'[q] = scores[q]
                                     /\ nodes'[q] = nodes[q]
    BY <1>1, <1>5 DEF Types
  <1>8. /\ scores'[0] \in [1 .. n -> Int] /\ nodes'[0] \in [1 .. n -> Int]
        /\ scores'[0][1] = x /\ nodes'[0][1] = y
        /\ \A i \in 1 .. n : i # 1 => scores'[0][i] = scores[0][i] /\ nodes'[0][i] = nodes[0][i]
    BY <1>3, <1>6, <1>7
  <1>9. Types'
    <2>1. scores'[0] \in Rows /\ nodes'[0] \in Rows /\ "work" \in Labels
      BY <1>8 DEF Rows, Labels
    <2>2. scores' \in [Rank -> Rows] /\ nodes' \in [Rank -> Rows] /\ pc' \in [Rank -> Labels]
      BY <1>1, <1>5, <1>7, <2>1 DEF Types
    <2> QED
      BY <1>1, <1>2, <2>2 DEF Types
  <1>10. Loop(0)'
    BY <1>1, <1>2, <1>3, <1>4, <1>7, <1>8 DEF Loop, x, y
  <1>11. Working'
    BY <1>1, <1>7, <1>10, OneMoves
  <1>12. Sent'
    BY <1>2, <1>4, <1>5 DEF Sent, x
  <1> QED
    BY <1>1, <1>9, <1>11, <1>12

LEMMA ReceiveStep ==
  ASSUME Options, Types, Sent, Working, NEW r \in Rank, Receive(r)
  PROVE  Types' /\ Working' /\ UNCHANGED <<options, message>>
  <1>1. UNCHANGED <<options, message, nodes, pending, result>> /\ pc[r] = "bcast" /\ message # <<>>
    BY DEF Receive
  <1>2. /\ Work' = Work /\ First' = First /\ seeded' = seeded /\ Len(tasks') = Len(tasks)
        /\ Rows' = Rows
    BY <1>1, OptionsStay
  <1>3. /\ Len(tasks) \in Nat /\ 1 \in 1 .. Len(tasks)
        /\ First \in {1, 2} /\ (seeded <=> First = 2) /\ Work[1].score \in Int
    BY WorkTyped DEF Working
  <1>4. Loop(r) /\ seeded /\ r # 0
    BY <1>1 DEF Working, Loop
  <1> DEFINE n == Len(tasks)
             x == Work[1].score
  <1>5. message[1] = x
    BY <1>1 DEF Sent
  <1>6. scores' = [scores EXCEPT ![r][1] = x] /\ pc' = [pc EXCEPT ![r] = "work"]
    BY <1>5 DEF Receive, Goto
  <1> HIDE DEF x
  <1>7. scores[r] \in [1 .. n -> Int] /\ x \in Int
    BY <1>3, <1>4 DEF Loop, x
  <1>8. /\ scores'[r] = [scores[r] EXCEPT ![1] = x] /\ pc'[r] = "work"
        /\ \A q \in Rank : q # r => pc'[q] = pc[q] /\ scores'[q] = scores[q]
    BY <1>6 DEF Types
  <1>9. /\ scores'[r] \in [1 .. n -> Int] /\ scores'[r][1] = x
        /\ \A i \in 1 .. n : i # 1 => scores'[r][i] = scores[r][i]
    BY <1>3, <1>7, <1>8
  <1>10. Types'
    <2>1. scores'[r] \in Rows /\ "work" \in Labels
      BY <1>9 DEF Rows, Labels
    <2>2. scores' \in [Rank -> Rows] /\ pc' \in [Rank -> Labels]
      BY <1>6, <1>8, <2>1 DEF Types
    <2> QED
      BY <1>1, <1>2, <2>2 DEF Types
  <1>11. Loop(r)'
    BY <1>1, <1>2, <1>3, <1>4, <1>8, <1>9 DEF Loop, x
  <1>12. Working'
    BY <1>1, <1>8, <1>11, OneMoves
  <1> QED
    BY <1>1, <1>10, <1>12

LEMMA SearchStep ==
  ASSUME Options, Types, Working, NEW r \in Rank, NEW i \in pending[r], Search(r, i)
  PROVE  Types' /\ Working' /\ UNCHANGED <<options, message>>
  <1>1. UNCHANGED <<options, message, pc, result>> /\ pc[r] = "work"
    BY DEF Search
  <1>2. /\ Work' = Work /\ First' = First /\ seeded' = seeded /\ Len(tasks') = Len(tasks)
        /\ Rows' = Rows
    BY <1>1, OptionsStay
  <1>3. /\ Len(tasks) \in Nat /\ 1 \in 1 .. Len(tasks) /\ First \in {1, 2} /\ (seeded <=> First = 2)
        /\ \A j \in 1 .. Len(tasks) : Work[j].score \in Int /\ Work[j].nodes \in Nat
        /\ seeded => Work[1] = SeedTask
    BY WorkTyped DEF Working
  <1>4. Loop(r)
    BY <1>1 DEF Working
  <1> DEFINE n == Len(tasks)
             x == Work[i].score
             y == Work[i].nodes
             p == pending[r] \ {i}
  <1>5. i \in 1 .. n /\ i >= First /\ Owner(r, i) /\ pending[r] \in SUBSET (1 .. n)
    BY <1>4 DEF Loop, Types
  <1>6. SearchTask(i, scores[r][1]) = Work[i]
    <2>1. Work[i] = SearchTask(i, IF seeded THEN SeedTask.score ELSE -INF)
      BY <1>3, <1>5 DEF Work
    <2>2. CASE seeded
      <3>1. scores[r][1] = SeedTask.score
        BY <1>1, <1>3, <1>4, <2>2 DEF Loop
      <3> QED
        BY <2>1, <2>2, <3>1
    <2>3. CASE ~seeded
      <3>1. SearchTask(i, scores[r][1]) = SearchTask(i, -INF)
        BY <2>3 DEF SearchTask, Bound
      <3>2. Work[i] = SearchTask(i, -INF)
        BY <2>1, <2>3
      <3> QED
        BY <3>1, <3>2
    <2> QED
      BY <2>2, <2>3
  <1>7. /\ scores' = [scores EXCEPT ![r][i] = x] /\ nodes' = [nodes EXCEPT ![r][i] = y]
        /\ pending' = [pending EXCEPT ![r] = p]
    BY <1>6 DEF Search
  <1>8. scores[r] \in [1 .. n -> Int] /\ nodes[r] \in [1 .. n -> Int] /\ x \in Int /\ y \in Int
    BY <1>3, <1>4, <1>5 DEF Loop
  <1> HIDE DEF x, y
  <1>9. /\ scores'[r] = [scores[r] EXCEPT ![i] = x] /\ nodes'[r] = [nodes[r] EXCEPT ![i] = y]
        /\ pending'[r] = p
        /\ \A q \in Rank : q # r => /\ scores'[q] = scores[q] /\ nodes'[q] = nodes[q]
                                     /\ pending'[q] = pending[q]
    BY <1>7 DEF Types
  <1>10. /\ scores'[r] \in [1 .. n -> Int] /\ nodes'[r] \in [1 .. n -> Int]
         /\ scores'[r][i] = x /\ nodes'[r][i] = y
         /\ \A j \in 1 .. n : j # i => scores'[r][j] = scores[r][j] /\ nodes'[r][j] = nodes[r][j]
    BY <1>5, <1>8, <1>9
  <1>11. Types'
    <2>1. scores'[r] \in Rows /\ nodes'[r] \in Rows /\ p \in SUBSET (1 .. n)
      BY <1>5, <1>10 DEF Rows
    <2>2. /\ scores' \in [Rank -> Rows] /\ nodes' \in [Rank -> Rows]
          /\ pending' \in [Rank -> SUBSET (1 .. n)]
      BY <1>7, <1>9, <2>1 DEF Types
    <2> QED
      BY <1>1, <1>2, <2>2 DEF Types
  <1>12. Loop(r)'
    <2>1. ASSUME NEW j \in 1 .. n, j >= First
          PROVE  IF Owner(r, j) /\ j \notin p
                   THEN scores'[r][j] = Work[j].score /\ nodes'[r][j] = Work[j].nodes
                   ELSE scores'[r][j] = -INF /\ nodes'[r][j] = 0
      <3>1. CASE j = i
        BY <1>5, <1>10, <3>1 DEF x, y
      <3>2. CASE j # i
        BY <1>4, <1>10, <2>1, <3>2 DEF Loop
      <3> QED
        BY <3>1, <3>2
    <2>2. seeded => i # 1
      BY <1>3, <1>5
    <2>3. seeded => scores'[r][1] = scores[r][1] /\ nodes'[r][1] = nodes[r][1]
      BY <1>3, <1>10, <2>2
    <2>4. \A j \in p : j >= First /\ Owner(r, j)
      BY <1>4 DEF Loop
    <2> HIDE DEF p
    <2> QED
      BY <1>1, <1>2, <1>4, <1>9, <1>10, <2>1, <2>3, <2>4 DEF Loop
  <1>13. Working'
    BY <1>1, <1>9, <1>12, OneMoves
  <1> QED
    BY <1>1, <1>11, <1>13

LEMMA WorkDoneStep ==
  ASSUME Options, Types, Working, NEW r \in Rank, WorkDone(r) \/ Gather(r)
  PROVE  Types' /\ Working' /\ UNCHANGED <<options, message>>
  <1>1. /\ UNCHANGED <<options, scores, nodes, pending, message, result>>
        /\ pc[r] \in {"work", "gather"} /\ (pc[r] = "work" => pending[r] = {})
    BY DEF WorkDone, Gather
  <1>2. /\ Work' = Work /\ First' = First /\ seeded' = seeded /\ Len(tasks') = Len(tasks)
        /\ Rows' = Rows
    BY <1>1, OptionsStay
  <1>3. Loop(r)
    BY <1>1 DEF Working
  <1>4. PICK l \in {"gather", "scores"} : pc' = [pc EXCEPT ![r] = l]
    BY DEF WorkDone, Gather, Goto
  <1>5. pc'[r] = l /\ \A q \in Rank : q # r => pc'[q] = pc[q]
    BY <1>4 DEF Types
  <1>6. pending[r] = {}
    BY <1>1, <1>3 DEF Loop
  <1>7. Loop(r)'
    BY <1>1, <1>2, <1>3, <1>5, <1>6 DEF Loop
  <1>8. Types'
    BY <1>1, <1>2, <1>4 DEF Types, Labels
  <1>9. Working'
    BY <1>1, <1>5, <1>7, OneMoves
  <1> QED
    BY <1>1, <1>8, <1>9

LEMMA AbortStep ==
  ASSUME Options, Types, NEW r \in Rank, Abort(r)
  PROVE  Types' /\ Aborted' /\ UNCHANGED <<options, message>>
  <1>1. /\ UNCHANGED <<options, scores, nodes, pending, message, result>>
        /\ pc' = [q \in Rank |-> "aborted"]
    BY DEF Abort
  <1>2. Len(tasks') = Len(tasks) /\ Rows' = Rows
    BY <1>1, OptionsStay
  <1> QED
    BY <1>1, <1>2 DEF Types, Labels, Aborted

LEMMA ReduceScoresStep ==
  ASSUME Options, Types, Working, ReduceScores
  PROVE  Types' /\ Choosing' /\ UNCHANGED <<options, message>>
  <1>1. /\ UNCHANGED <<options, nodes, pending, message, result>>
        /\ \A r \in Rank : pc[r] = "scores"
        /\ pc' = [r \in Rank |-> "choose"]
    BY DEF ReduceScores, Together
  <1>2. /\ Work' = Work /\ First' = First /\ seeded' = seeded /\ Len(tasks') = Len(tasks)
        /\ Rows' = Rows /\ Good' = Good /\ ~Alone'
    <2>1. ~Alone'
      BY <1>1 DEF Working, Alone, options
    <2> QED
      BY <1>1, <2>1, OptionsStay
  <1>3. /\ -INF \in Int /\ Len(tasks) \in Nat /\ DOMAIN tasks = 1 .. Len(tasks)
        /\ 1 \in 1 .. Len(tasks) /\ First \in {1, 2} /\ (seeded <=> First = 2)
        /\ \A j \in 1 .. Len(tasks) : Work[j].score \in Int /\ Work[j].nodes \in Nat
    BY WorkTyped DEF Working
  <1>4. \A r \in Rank : Loop(r) /\ pending[r] = {}
    BY <1>1 DEF Working, Loop
  <1> DEFINE n == Len(tasks)
             all(i) == {scores[q][i] : q \in Rank}
             s == [i \in 1 .. n |-> Max(all(i))]
  <1>5. ASSUME NEW i \in 1 .. n
        PROVE  Work[i].score \in all(i) /\ all(i) \subseteq {Work[i].score, -INF}
    <2>1. CASE i < First
      <3>1. i = 1 /\ seeded
        BY <1>3, <2>1
      <3>2. \A q \in Rank : scores[q][i] = Work[i].score
        BY <1>1, <1>4, <3>1 DEF Loop
      <3> QED
        BY <3>2, Ranks
    <2>2. CASE ~(i < First)
      <3>1. \A q \in Rank : scores[q][i] = IF Owner(q, i) THEN Work[i].score ELSE -INF
        BY <1>3, <1>4, <2>2 DEF Loop
      <3>2. PICK r \in Rank : Owner(r, i)
        BY Owners
      <3> QED
        BY <3>1, <3>2
    <2> QED
      BY <2>1, <2>2
  <1> HIDE DEF all
  <1>6. s \in Good
    <2>1. ASSUME NEW i \in 1 .. n
          PROVE  Max(all(i)) \in Int /\ ExactAt(i, Max(all(i)))
      <3>1. PICK x \in Int : x = Work[i].score
        BY <1>3
      <3>2. ExactAt(i, x)
        BY <3>1, WorkIs DEF Working
      <3>3. PICK S : S = all(i)
        OBVIOUS
      <3>4. x \in S /\ S \subseteq {x, -INF}
        BY <1>5, <3>1, <3>3
      <3>5. Max(S) \in Int /\ ExactAt(i, Max(S))
        BY <3>2, <3>4, MaxOfRanks DEF Working
      <3> QED
        BY <3>3, <3>5
    <2>2. s \in [1 .. n -> Int] /\ \A i \in 1 .. n : s[i] = Max(all(i))
      BY <2>1
    <2>3. \A i \in 1 .. n : ExactAt(i, s[i])
      BY <2>1, <2>2
    <2> HIDE DEF s
    <2> QED
      BY <2>2, <2>3, ExactFromParts DEF Working
  <1>7. scores' = [r \in Rank |-> s]
    BY <1>3 DEF ReduceScores, all
  <1> HIDE DEF s
  <1>8. s \in Rows
    BY <1>6 DEF Good, Rows
  <1>9. Types'
    BY <1>1, <1>2, <1>7, <1>8 DEF Types, Labels
  <1>10. ASSUME NEW r \in Rank PROVE RankKnows(r)'
    <2>1. scores'[r] = s /\ pc'[r] = "choose" /\ nodes'[r] = nodes[r]
      BY <1>1, <1>7
    <2>2. nodes[r] \in [1 .. n -> Int]
      BY <1>4 DEF Loop
    <2>3. ASSUME NEW i \in 1 .. n
          PROVE  nodes[r][i] = IF i < First THEN IF r = 0 THEN Work[i].nodes ELSE 0
                               ELSE IF Owner(r, i) THEN Work[i].nodes ELSE 0
      <3>1. CASE i < First
        <4>1. i = 1 /\ seeded
          BY <1>3, <3>1
        <4> QED
          BY <1>1, <1>4, <3>1, <4>1 DEF Loop
      <3>2. CASE ~(i < First)
        BY SMTT(30), <1>3, <1>4, <3>2 DEF Loop
      <3> QED
        BY <3>1, <3>2
    <2> QED
      BY <1>2, <1>6, <2>1, <2>2, <2>3 DEF RankKnows, Counts
  <1>11. Choosing'
    BY <1>2, <1>10 DEF Choosing
  <1> QED
    BY <1>1, <1>9, <1>11

LEMMA ChooseStep ==
  ASSUME Options, Types, Choosing, NEW r \in Rank, Choose(r)
  PROVE  Types' /\ Choosing' /\ UNCHANGED <<options, message>>
  <1>1. UNCHANGED <<options, scores, nodes, pending, message>> /\ pc[r] = "choose"
    BY DEF Choose
  <1>2. /\ Work' = Work /\ First' = First /\ seeded' = seeded /\ Len(tasks') = Len(tasks)
        /\ Rows' = Rows /\ Good' = Good /\ Answer' = Answer /\ Upper' = Upper /\ ~Alone'
    <2>1. ~Alone'
      BY <1>1 DEF Choosing, Alone, options
    <2> QED
      BY <1>1, <2>1, OptionsStay
  <1>3. RankKnows(r) /\ Upper \in Int /\ Answer.score \in Int /\ Answer.move \in Nat /\ Len(tasks) \in Nat
    BY UpperTyped, AnswerTyped, TasksTyped DEF Choosing
  <1>4. Reduce(scores[r]) = Answer
    <2>1. PICK s : s = scores[r] /\ Exact(s)
      BY <1>3 DEF RankKnows, Good
    <2>2. Reduce(s) = Answer
      BY <2>1, ReduceIs DEF Choosing
    <2> QED
      BY <2>1, <2>2
  <1> DEFINE total == Sum(nodes[r], Len(tasks)) + Share(r)
             t == [score |-> Answer.score, move |-> Answer.move, nodes |-> total]
  <1>5. total \in Int
    <2>1. PICK f : f = nodes[r]
      OBVIOUS
    <2>2. \A i \in 1 .. Len(tasks) : f[i] \in Int
      BY <1>3, <2>1 DEF RankKnows
    <2>3. Sum(f, Len(tasks)) \in Int
      <3>1. Len(tasks) \in 0 .. Len(tasks)
        BY <1>3
      <3> QED
        BY <1>3, <2>2, <3>1, SumIs
    <2> QED
      BY <1>3, <2>1, <2>3 DEF Share
  <1>6. result' = [result EXCEPT ![r] = t] /\ pc' = [pc EXCEPT ![r] = "stats"]
    BY <1>4 DEF Choose, Goto, Share
  <1>7. t \in Told /\ t.score = Answer.score /\ t.move = Answer.move /\ t.nodes = total
    <2> HIDE DEF total
    <2> QED
      BY <1>3, <1>5 DEF Told
  <1> HIDE DEF t
  <1>8. /\ result'[r] = t /\ pc'[r] = "stats"
        /\ \A q \in Rank : q # r => result'[q] = result[q] /\ pc'[q] = pc[q]
    BY <1>6 DEF Types
  <1>9. Types'
    BY <1>1, <1>2, <1>6, <1>7 DEF Types, Labels
  <1>10. ASSUME NEW q \in Rank PROVE RankKnows(q)'
    <2>1. RankKnows(q)
      BY DEF Choosing
    <2>2. CASE q = r
      BY <1>1, <1>2, <1>7, <1>8, <2>1, <2>2 DEF RankKnows, Counts, Share
    <2>3. CASE q # r
      BY <1>1, <1>2, <1>8, <2>1, <2>3 DEF RankKnows, Counts, Share
    <2> QED
      BY <2>2, <2>3
  <1> QED
    BY <1>1, <1>2, <1>9, <1>10 DEF Choosing

(* MPI_SUM over the ranks: each task and the upper nodes are counted once.   *)
LEMMA NodesOfAll ==
  ASSUME Options, Choosing, \A r \in Rank : pc[r] = "stats"
  PROVE  Sum([q \in 1 .. NumRanks |-> result[q - 1].nodes], NumRanks) = Total /\ Total \in Int
  <1> DEFINE n == Len(tasks)
             R == NumRanks
             a == [q \in 1 .. R |-> nodes[q - 1]]
             e == [i \in 1 .. n |-> Work[i].nodes]
             f == [q \in 1 .. R |-> Sum(a[q], n)]
             g == [q \in 1 .. R |-> Share(q - 1)]
             h == [q \in 1 .. R |-> result[q - 1].nodes]
  <1>1. /\ n \in Nat /\ R \in Nat /\ 1 \in 1 .. R /\ Upper \in Int
        /\ \A q \in 1 .. R : q - 1 \in Rank
        /\ \A r \in Rank : r + 1 \in 1 .. R /\ (r + 1) - 1 = r
    BY UpperTyped, TasksTyped, CpuSearchAssumption, OptionsAssumption DEF Rank
  <1>2. \A i \in 1 .. n : Work[i].nodes \in Int
    BY WorkTyped DEF Choosing
  <1>3. \A q \in 1 .. R : RankKnows(q - 1) /\ pc[q - 1] = "stats"
    BY <1>1 DEF Choosing
  <1>4. \A q \in 1 .. R : /\ a[q] = nodes[q - 1]
                          /\ \A i \in 1 .. n : a[q][i] \in Int
    BY <1>3 DEF RankKnows
  <1>5. \A q \in 1 .. R : f[q] \in Int /\ g[q] \in Int /\ h[q] = f[q] + g[q]
    <2>1. ASSUME NEW q \in 1 .. R PROVE Sum(a[q], n) \in Int
      <3>1. PICK b : b = a[q] /\ \A i \in 1 .. n : b[i] \in Int
        BY <1>4
      <3>2. n \in 0 .. n
        BY <1>1
      <3>3. Sum(b, n) \in Int
        BY <1>1, <3>1, <3>2, SumIs
      <3> QED
        BY <3>1, <3>3
    <2>2. \A q \in 1 .. R : Share(q - 1) \in Int
      BY <1>1 DEF Share
    <2>3. \A q \in 1 .. R : result[q - 1].nodes = Sum(nodes[q - 1], n) + Share(q - 1)
      BY <1>3 DEF RankKnows
    <2>4. \A q \in 1 .. R : Sum(nodes[q - 1], n) = Sum(a[q], n)
      BY <1>4
    <2> HIDE DEF a
    <2> QED
      BY <2>1, <2>2, <2>3, <2>4
  <1>6. Sum(h, R) = Sum(f, R) + Sum(g, R)
    <2> HIDE DEF f, g, h, R
    <2>1. TermByTerm(h, f, g, R)
      BY <1>5 DEF TermByTerm
    <2> QED
      BY <1>1, <2>1, SumPlus
  <1>7. Sum(g, R) = Upper
    <2>1. \A q \in 1 .. R : g[q] = IF q = 1 THEN Upper ELSE 0
      BY <1>1 DEF Share
    <2> HIDE DEF g, R
    <2>2. Sum(g, R) = IF 1 \in 1 .. R THEN Upper ELSE 0
      <3>1. OnlyAt(R, g, 1, Upper)
        BY <2>1 DEF OnlyAt
      <3> QED
        BY <1>1, <3>1, SumOfOne, 1 \in Int
    <2> QED
      BY <1>1, <2>2
  <1>8. Sum(f, R) = Sum(e, n)
    <2>1. ASSUME NEW i \in 1 .. n
          PROVE  /\ e[i] \in Int
                 /\ \E j \in 1 .. R : \A q \in 1 .. R : a[q][i] = IF q = j THEN e[i] ELSE 0
      <3>1. e[i] \in Int /\ e[i] = Work[i].nodes
        BY <1>2
      <3>2. PICK r \in Rank : Counts(r, i) /\ \A q \in Rank : Counts(q, i) => q = r
        <4>1. CASE i < First
          BY <4>1, Ranks DEF Counts
        <4>2. CASE ~(i < First)
          <5>1. i \in Int
            BY <1>1
          <5> QED
            BY <4>2, <5>1, Owners DEF Counts
        <4> QED
          BY <4>1, <4>2
      <3>3. ASSUME NEW q \in 1 .. R PROVE a[q][i] = IF q = r + 1 THEN e[i] ELSE 0
        <4>1. a[q][i] = IF Counts(q - 1, i) THEN e[i] ELSE 0
          BY <1>3, <1>4, <3>1 DEF RankKnows
        <4>2. q = r + 1 => q - 1 = r
          BY <1>1
        <4>3. q - 1 = r => q = r + 1
          BY <1>1, Ranks
        <4>4. q - 1 \in Rank
          BY <1>1
        <4> HIDE DEF a, e
        <4> QED
          BY <3>2, <4>1, <4>2, <4>3, <4>4
      <3> HIDE DEF a, e
      <3> QED
        BY <1>1, <3>1, <3>3
    <2>2. OneInEach(R, n, a, e)
      BY <2>1 DEF OneInEach
    <2>3. f = [q \in 1 .. R |-> Sum(a[q], n)]
      OBVIOUS
    <2> HIDE DEF a, e, f, n, R
    <2> QED
      BY <1>1, <2>2, <2>3, SumOfTable
  <1>9. Sum(e, n) \in Int
    <2>1. n \in 0 .. n /\ \A i \in 1 .. n : e[i] \in Int
      BY <1>1, <1>2
    <2> HIDE DEF e, n
    <2> QED
      BY <1>1, <2>1, SumIs
  <1>10. Sum(h, R) = Upper + Sum(e, n)
    <2> HIDE DEF e, f, g, h, n, R
    <2> QED
      BY <1>1, <1>6, <1>7, <1>8, <1>9
  <1>11. Upper + Sum(e, n) \in Int
    <2> HIDE DEF e, n
    <2> QED
      BY <1>1, <1>9
  <1> QED
    BY <1>10, <1>11 DEF Total

LEMMA ReduceStatsStep ==
  ASSUME Options, Types, Choosing, ReduceStats
  PROVE  Types' /\ AllFinished' /\ UNCHANGED <<options, message>>
  <1>1. /\ UNCHANGED <<options, scores, nodes, pending, message>>
        /\ \A r \in Rank : pc[r] = "stats"
        /\ pc' = [r \in Rank |-> "done"]
    BY DEF ReduceStats, Together
  <1>2. Total' = Total /\ Answer' = Answer /\ Rows' = Rows /\ Len(tasks') = Len(tasks) /\ ~Alone'
    <2>1. ~Alone'
      BY <1>1 DEF Choosing, Alone, options
    <2> QED
      BY <1>1, <2>1, OptionsStay
  <1>3. PICK total \in Int :
           /\ total = Total
           /\ result' = [r \in Rank |-> [result[r] EXCEPT !.nodes = total]]
    BY <1>1, NodesOfAll DEF ReduceStats
  <1>4. ASSUME NEW r \in Rank
        PROVE  /\ result'[r] \in Told /\ result'[r].nodes = total
               /\ result'[r].score = Answer.score /\ result'[r].move = Answer.move
    <2>1. result[r] \in Told /\ result[r].score = Answer.score /\ result[r].move = Answer.move
      BY <1>1 DEF Types, Choosing, RankKnows
    <2>2. result'[r] = [result[r] EXCEPT !.nodes = total]
      BY <1>3
    <2> QED
      BY <2>1, <2>2 DEF Told
  <1>5. Types'
    <2>1. result' \in [Rank -> Told]
      BY <1>3, <1>4
    <2> QED
      BY <1>1, <1>2, <2>1 DEF Types, Labels
  <1>6. AllFinished'
    BY <1>1, <1>2, <1>3, <1>4 DEF AllFinished
  <1> QED
    BY <1>1, <1>5, <1>6

LEMMA Begin ==
  ASSUME Init
  PROVE  SameInv
  <1>1. Options
    BY DEF Init, Options
  <1>2. Types
    <2>1. -INF \in Int
      BY GameTreeAssumption
    <2>2. [score |-> -INF, move |-> 0, nodes |-> 0] \in Told
      BY <2>1 DEF Told
    <2> QED
      BY <2>2 DEF Init, Types, Labels, Rows
  <1>3. Sent
    BY DEF Init, Sent
  <1>4. AllAlone \/ Working
    BY DEF Init, AllAlone, Working
  <1> QED
    BY <1>1, <1>2, <1>3, <1>4 DEF SameInv, Phases

(* One step of a working rank.                                               *)
LEMMA WorkingStep ==
  ASSUME Options, Types, Sent, Working, Next
  PROVE  /\ Types' /\ (Working' \/ Choosing' \/ Aborted') /\ UNCHANGED options
         /\ Sent' \/ UNCHANGED message
  <1>1. ~Alone /\ \A r \in Rank : pc[r] \notin {"choose", "stats"}
    BY DEF Working, Loop
  <1>2. CASE Seed
    BY <1>2, SeedStep
  <1>3. CASE ReduceScores
    BY <1>3, ReduceScoresStep
  <1>4. CASE ReduceStats
    BY <1>1, <1>4, Ranks DEF ReduceStats, Together
  <1>5. ASSUME NEW r \in Rank, RankStep(r)
        PROVE  /\ Types' /\ (Working' \/ Choosing' \/ Aborted') /\ UNCHANGED options
               /\ Sent' \/ UNCHANGED message
    <2>1. CASE Serial(r)
      BY <1>1, <2>1 DEF Serial, Alone
    <2>2. CASE Abort(r)
      BY <2>2, AbortStep
    <2>3. CASE Start(r)
      BY <2>3, StartStep
    <2>4. CASE Receive(r)
      BY <2>4, ReceiveStep
    <2>5. ASSUME NEW i \in pending[r], Search(r, i)
          PROVE  Types' /\ Working' /\ UNCHANGED <<options, message>>
      BY <2>5, SearchStep
    <2>6. CASE WorkDone(r) \/ Gather(r)
      BY <2>6, WorkDoneStep
    <2>7. CASE Choose(r)
      BY <1>1, <2>7 DEF Choose
    <2> QED
      BY <1>5, <2>1, <2>2, <2>3, <2>4, <2>5, <2>6, <2>7 DEF RankStep
  <1> QED
    BY <1>2, <1>3, <1>4, <1>5 DEF Next

LEMMA ChoosingStep ==
  ASSUME Options, Types, Choosing, Next
  PROVE  Types' /\ (Choosing' \/ AllFinished') /\ UNCHANGED <<options, message>>
  <1>1. \A r \in Rank : pc[r] \in {"choose", "stats"}
    BY DEF Choosing, RankKnows
  <1>2. CASE Seed
    BY <1>1, <1>2, Ranks DEF Seed
  <1>3. CASE ReduceScores
    BY <1>1, <1>3, Ranks DEF ReduceScores, Together
  <1>4. CASE ReduceStats
    BY <1>4, ReduceStatsStep
  <1>5. ASSUME NEW r \in Rank, RankStep(r)
        PROVE  Types' /\ Choosing' /\ UNCHANGED <<options, message>>
    <2>1. Choose(r)
      BY <1>1, <1>5 DEF RankStep, Serial, Abort, Start, Receive, Search, WorkDone, Gather
    <2> QED
      BY <2>1, ChooseStep
  <1> QED
    BY <1>2, <1>3, <1>4, <1>5 DEF Next

LEMMA SameInvStep ==
  ASSUME SameInv, [Next]_vars
  PROVE  SameInv'
  <1> USE DEF SameInv
  <1>1. ASSUME UNCHANGED options PROVE Options' /\ (UNCHANGED message => Sent')
    <2>1. Options' /\ Work' = Work /\ seeded' = seeded
      BY <1>1, OptionsStay
    <2> QED
      BY <2>1 DEF Sent
  <1>2. CASE UNCHANGED vars
    <2>1. /\ UNCHANGED <<options, message, pc, scores, nodes, pending, result>>
      BY <1>2 DEF vars, options
    <2>2. /\ Work' = Work /\ Good' = Good /\ Answer' = Answer /\ Upper' = Upper /\ Total' = Total
          /\ First' = First /\ seeded' = seeded /\ Len(tasks') = Len(tasks) /\ Rows' = Rows
          /\ position' = position /\ split' = split
      BY <2>1, OptionsStay DEF options
    <2>3. Types'
      BY <2>1, <2>2 DEF Types
    <2>4. Phases'
      <3>1. Aborted => Aborted'
        BY <2>1 DEF Aborted
      <3>2. AllAlone => AllAlone'
        BY <2>1, <2>2 DEF AllAlone, Alone
      <3>3. Working => Working'
        BY <2>1, <2>2, OthersStay DEF Working, Alone
      <3>4. Choosing => Choosing'
        BY <2>1, <2>2 DEF Choosing, RankKnows, Counts, Share, Alone
      <3>5. AllFinished => AllFinished'
        BY <2>1, <2>2 DEF AllFinished, Alone
      <3> QED
        BY <3>1, <3>2, <3>3, <3>4, <3>5 DEF Phases
    <2> QED
      BY <1>1, <2>1, <2>3, <2>4
  <1>3. CASE Next
    <2>1. CASE Aborted \/ AllFinished
      BY <1>3, <2>1, NoneLeft DEF Aborted, AllFinished
    <2>2. CASE AllAlone
      BY <1>1, <1>3, <2>2, AloneStep DEF Phases
    <2>3. CASE Working
      BY <1>1, <1>3, <2>3, WorkingStep DEF Phases
    <2>4. CASE Choosing
      BY <1>1, <1>3, <2>4, ChoosingStep DEF Phases
    <2> QED
      BY <2>1, <2>2, <2>3, <2>4 DEF Phases
  <1> QED
    BY <1>2, <1>3

LEMMA SameInvHolds == Spec => []SameInv
  <1>1. Init => SameInv
    BY Begin
  <1>2. SameInv /\ [Next]_vars => SameInv'
    BY SameInvStep
  <1> QED
    BY <1>1, <1>2, PTL DEF Spec

(* Whatever the number of ranks and threads, the split, the seed and the     *)
(* order of the work: every rank ends with the score and the move of         *)
(* serial_search, and with each task counted once in its nodes.              *)
THEOREM BackendsAgree == Spec => []SameAnswer
  <1>1. SameInv => SameAnswer
    <2> SUFFICES ASSUME SameInv PROVE SameAnswer
      OBVIOUS
    <2>1. PICK serial : serial = SerialSearch(position, Depth, TRUE)
      OBVIOUS
    <2>2. Answer = [score |-> serial.score, move |-> serial.move]
      BY <2>1 DEF Answer
    <2>3. Answer.score = serial.score /\ Answer.move = serial.move
      BY <2>2
    <2> DEFINE each == [i \in DOMAIN tasks |->
                          IF i < First THEN SeedTask.nodes
                          ELSE SearchTask(i, IF seeded THEN SeedTask.score ELSE -INF).nodes]
               work == [i \in 1 .. Len(tasks) |-> Work[i].nodes]
    <2>4. each = work
      BY TasksTyped DEF SameInv, Work
    <2>5. ASSUME NEW r \in Rank
          PROVE  /\ pc[r] \in {"stats", "done"} =>
                      result[r].score = serial.score /\ result[r].move = serial.move
                 /\ pc[r] = "done" /\ ~Alone => result[r].nodes = Upper + Sum(each, Len(tasks))
      <3>1. CASE Aborted
        BY <3>1 DEF Aborted
      <3>2. CASE AllAlone
        BY <2>1, <3>2 DEF AllAlone
      <3>3. CASE Working
        BY <3>3 DEF Working, Loop
      <3>4. CASE Choosing
        BY <2>3, <3>4 DEF Choosing, RankKnows
      <3>5. CASE AllFinished
        <4>1. /\ result[r].score = Answer.score /\ result[r].move = Answer.move
              /\ result[r].nodes = Total
          BY <3>5 DEF AllFinished
        <4>2. Total = Upper + Sum(work, Len(tasks))
          BY DEF Total
        <4> HIDE DEF each, work
        <4> QED
          BY <2>3, <2>4, <4>1, <4>2
      <3> QED
        BY <3>1, <3>2, <3>3, <3>4, <3>5 DEF SameInv, Phases
    <2> QED
      BY Zenon, <2>1, <2>5 DEF SameAnswer, Alone
  <1> QED
    BY <1>1, SameInvHolds, PTL

-----------------------------------------------------------------------------
(* device_search.  A frame is a call of the recursive negamax in its loop,   *)
(* with the window that was open when it was made.                           *)
CallAt(t, n, floor, beta) ==
    LET a == t[n + 1].at IN Call(a.board, a.depth, a.ply, floor, beta, TRUE)

(* The loop of c after i moves; a position that is not searched further has  *)
(* none.                                                                     *)
LoopAt(c, i) == IF i = 0 THEN Begun(c) ELSE TurnsOf(negamax, c)[i]

(* Frame f, made with the window from floor on, is the loop after i moves.   *)
Simulates(t, f, floor, i) ==
    LET l == LoopAt(CallAt(t, f.index, floor, f.beta), i)
    IN  /\ f.index \in Node(t) /\ f.next \in 0 .. t[f.index + 1].count
        /\ -INF <= floor /\ floor <= f.alpha /\ floor < f.beta /\ f.beta <= INF
        /\ i \in Nat /\ i <= f.next
        /\ f.best = l.best /\ f.alpha = l.alpha /\ (l.cut <=> f.alpha >= f.beta)

(* How the frame above f belongs to it.                                      *)
Links(t, f, g) ==
    /\ f.next > 0 /\ f.alpha < f.beta
    /\ g.index = t[f.index + 1].first + f.next - 1
    /\ g.beta = -f.alpha

(* The stack s with n + 1 frames: the lower end of the window frame k was    *)
(* made with, how many children of its node are finished (the latest of a    *)
(* frame below the top is not), and how many nodes its loop has counted.     *)
Floor(s, k) == IF k = 0 THEN -INF ELSE -s[k - 1].beta

Done(s, n, k) == IF k = n THEN s[k].next ELSE s[k].next - 1

NodesOf(t, s, n, k) ==
    LoopAt(CallAt(t, s[k].index, Floor(s, k), s[k].beta), Done(s, n, k)).nodes

(* The nodes visited are those that the frames have counted.                 *)
Counted(t, s, n, v) ==
    \E u \in [Slots -> Nat] :
       /\ u[0] = NodesOf(t, s, n, 0)
       /\ \A k \in 1 .. n : u[k] = u[k - 1] + NodesOf(t, s, n, k)
       /\ v = u[n]

InFrame(t, s, n, k) == /\ Simulates(t, s[k], Floor(s, k), Done(s, n, k))
                       /\ t[s[k].index + 1].at.depth + k <= MaxDepth

Stacked(t, r, s, n, v) ==
    /\ s[0].index = r /\ s[0].beta = INF
    /\ \A k \in 0 .. n : InFrame(t, s, n, k)
    /\ \A k \in 0 .. (n - 1) : Links(t, s[k], s[k + 1])
    /\ Counted(t, s, n, v)

Running == top >= 0 => Stacked(tree, root, stack, top, visited)

DeviceInv == TypeOK /\ StackFits /\ Running /\ TraversesLikeNegamax

-----------------------------------------------------------------------------
LEMMA Bounds == INF \in Nat /\ -INF < INF /\ MaxDepth \in Nat
  BY DeviceSearchAssumption, GameTreeAssumption

(* What a node of a tree is made of.                                         *)
LEMMA NodeTyped ==
  ASSUME NEW t, IsTree(t), NEW n \in Node(t)
  PROVE  /\ t \in Seq(TreeNode) /\ t[n + 1] \in TreeNode /\ n \in Int
         /\ t[n + 1].at \in Searched
         /\ t[n + 1].at.board \in Position /\ t[n + 1].at.depth \in Nat /\ t[n + 1].at.ply \in Nat
         /\ t[n + 1].count \in Nat /\ t[n + 1].first \in Int /\ t[n + 1].leaf \in Int
         /\ t[n + 1].at.depth <= MaxDepth /\ t[n + 1].at.depth + t[n + 1].at.ply < INF
         /\ IsNode(t, n)
  <1>1. t \in Seq(TreeNode) /\ n \in 0 .. (Len(t) - 1) /\ Len(t) \in Nat
    BY DEF IsTree, Node
  <1>2. n + 1 \in 1 .. Len(t)
    BY <1>1
  <1>3. t[n + 1] \in TreeNode
    BY <1>1, <1>2
  <1>4. /\ t[n + 1].at \in Searched /\ t[n + 1].count \in Nat
        /\ t[n + 1].first \in Int /\ t[n + 1].leaf \in Int
    BY <1>3 DEF TreeNode
  <1>5. /\ t[n + 1].at.board \in Position /\ t[n + 1].at.depth \in Nat
        /\ t[n + 1].at.ply \in Nat
    BY <1>4 DEF Searched
  <1>6. /\ IsNode(t, n) /\ t[n + 1].at.depth <= MaxDepth
        /\ t[n + 1].at.depth + t[n + 1].at.ply < INF
    BY DEF IsTree
  <1> QED
    BY <1>1, <1>3, <1>4, <1>5, <1>6

(* A node with children.                                                     *)
LEMMA ChildrenAre ==
  ASSUME NEW t, IsTree(t), NEW n \in Node(t), t[n + 1].count # 0
  PROVE  /\ ~Terminal(t[n + 1].at.board) /\ t[n + 1].at.depth # 0
         /\ t[n + 1].count = Len(t[n + 1].at.board.next)
         /\ \A i \in 1 .. t[n + 1].count :
               /\ t[n + 1].first + i - 1 \in Node(t)
               /\ t[t[n + 1].first + i].at
                     = At(t[n + 1].at.board.next[i], t[n + 1].at.depth - 1, t[n + 1].at.ply + 1)
  BY NodeTyped DEF IsNode

LEMMA ChildlessIs ==
  ASSUME NEW t, IsTree(t), NEW n \in Node(t), t[n + 1].count = 0
  PROVE  /\ Terminal(t[n + 1].at.board) \/ t[n + 1].at.depth = 0
         /\ t[n + 1].leaf = StaticScore(t[n + 1].at.board, t[n + 1].at.ply)
  <1>1. t[n + 1].at.board \in Position /\ IsNode(t, n)
    BY NodeTyped
  <1>2. t[n + 1].at.board.next \in Seq(Position)
    BY <1>1, Moves
  <1>3. t[n + 1].at.board.next # <<>> => Len(t[n + 1].at.board.next) # 0
    BY <1>2
  <1> QED
    BY <1>1, <1>3 DEF IsNode

LEMMA CallAtIs ==
  ASSUME NEW t, IsTree(t), NEW n \in Node(t), NEW floor \in Int, NEW beta \in Int,
         NEW c, c = CallAt(t, n, floor, beta)
  PROVE  /\ c \in Calls /\ c.board = t[n + 1].at.board /\ c.depth = t[n + 1].at.depth
         /\ c.ply = t[n + 1].at.ply /\ c.alpha = floor /\ c.beta = beta /\ c.prune
  <1>1. /\ t[n + 1].at.board \in Position /\ t[n + 1].at.depth \in Nat
        /\ t[n + 1].at.ply \in Nat
    BY NodeTyped
  <1> QED
    BY <1>1 DEF CallAt, Call, Calls

(* The loop of a call.                                                       *)
LEMMA LoopAtIs ==
  ASSUME NEW c \in Calls, c.depth # 0
  PROVE  /\ Len(c.board.next) \in Nat
         /\ \A i \in 0 .. Len(c.board.next) :
               LoopAt(c, i) \in Loops /\ LoopAt(c, i) = TurnsOf(negamax, c)[i]
         /\ \A i \in 1 .. Len(c.board.next) :
               LoopAt(c, i) = Turn(negamax, c, i, LoopAt(c, i - 1))
  <1> DEFINE n == Len(c.board.next)
             u == TurnsOf(negamax, c)
  <1>1. /\ n \in Nat /\ u \in [0 .. n -> Loops] /\ u[0] = Begun(c)
        /\ \A i \in 1 .. n : u[i] = Turn(negamax, c, i, u[i - 1])
    <2>1. TypedBelow(negamax, c)
      BY NegamaxIs DEF TypedBelow
    <2> QED
      BY <2>1, TurnsAre
  <1>2. \A i \in 0 .. n : LoopAt(c, i) = u[i]
    BY <1>1 DEF LoopAt
  <1> HIDE DEF u, n
  <1>3. \A i \in 1 .. n : i \in 0 .. n /\ i - 1 \in 0 .. n
    BY <1>1
  <1>4. \A i \in 1 .. n : LoopAt(c, i) = Turn(negamax, c, i, LoopAt(c, i - 1))
    BY <1>1, <1>2, <1>3
  <1> QED
    BY <1>1, <1>2, <1>4 DEF u, n

LEMMA LoopBegins ==
  ASSUME NEW c \in Calls
  PROVE  LoopAt(c, 0) = [best |-> -INF, alpha |-> c.alpha, nodes |-> 1, cut |-> FALSE]
  BY DEF LoopAt, Begun

(* A loop that was cut stays as it is.                                       *)
LEMMA CutStays ==
  ASSUME NEW c \in Calls, c.depth # 0, NEW i \in 0 .. Len(c.board.next), LoopAt(c, i).cut
  PROVE  LoopAt(c, Len(c.board.next)) = LoopAt(c, i)
  <1> DEFINE n == Len(c.board.next)
             Bad == {j \in i .. n : LoopAt(c, j) # LoopAt(c, i)}
  <1>1. n \in Nat /\ \A j \in 1 .. n : LoopAt(c, j) = Turn(negamax, c, j, LoopAt(c, j - 1))
    BY LoopAtIs
  <1> HIDE DEF n
  <1>2. i \in 0 .. n
    BY DEF n
  <1>3. Bad = {}
    <2>1. SUFFICES ASSUME Bad # {} PROVE FALSE
      OBVIOUS
    <2>2. PICK j \in Bad : \A e \in Bad : j <= e
      <3>1. Bad \in SUBSET Nat
        BY <1>1, <1>2
      <3> HIDE DEF Bad
      <3> QED
        BY <2>1, <3>1, Least
    <2>3. j \in i .. n /\ LoopAt(c, j) # LoopAt(c, i)
      BY <2>2
    <2>4. j # i
      BY <2>3
    <2>5. j \in 1 .. n /\ j - 1 \in i .. n /\ ~(j <= j - 1)
      BY <1>1, <1>2, <2>3, <2>4
    <2>6. LoopAt(c, j - 1) = LoopAt(c, i)
      BY <2>2, <2>5
    <2>7. LoopAt(c, j) = Turn(negamax, c, j, LoopAt(c, j - 1))
      BY <1>1, <2>5
    <2> QED
      BY <2>3, <2>6, <2>7 DEF Turn
  <1>4. n \in i .. n
    BY <1>1, <1>2
  <1> QED
    BY <1>3, <1>4 DEF n

(* An exhausted frame returns what the recursive negamax returns, and its    *)
(* loop has counted the same nodes.                                          *)
LEMMA FrameEnds ==
  ASSUME IsTree(tree), NEW f \in Frame, NEW floor \in Int, Simulates(tree, f, floor, f.next),
         Exhausted(f), NEW c, c = CallAt(tree, f.index, floor, f.beta)
  PROVE  /\ c \in Calls /\ negamax[c] \in Results
         /\ Worth(f) = negamax[c].score /\ LoopAt(c, f.next).nodes = negamax[c].nodes
  <1> DEFINE e == tree[f.index + 1]
             l == LoopAt(c, f.next)
  <1>1. /\ f.index \in Node(tree) /\ f.next \in 0 .. e.count
        /\ f.best = l.best /\ f.alpha = l.alpha /\ (l.cut <=> f.alpha >= f.beta)
    BY DEF Simulates
  <1>2. /\ c \in Calls /\ c.board = e.at.board /\ c.depth = e.at.depth /\ c.ply = e.at.ply
    <2>1. f.beta \in Int
      BY DEF Frame
    <2>2. f.index \in Node(tree)
      BY <1>1
    <2> HIDE DEF e, l
    <2>3. /\ c \in Calls /\ c.board = tree[f.index + 1].at.board /\ c.depth = tree[f.index + 1].at.depth
        /\ c.ply = tree[f.index + 1].at.ply
      BY <2>2, <2>1, CallAtIs
    <2> QED
      BY <2>3 DEF e
  <1>3. negamax[c] = NegamaxBody(negamax, c) /\ negamax[c] \in Results
    BY <1>2, NegamaxIs
  <1>4. e.count \in Nat
    BY <1>1, NodeTyped
  <1>5. CASE e.count = 0
    <2>1. (Terminal(c.board) \/ c.depth = 0) /\ e.leaf = StaticScore(c.board, c.ply)
      BY <1>1, <1>2, <1>5, ChildlessIs
    <2>2. negamax[c].score = e.leaf /\ negamax[c].nodes = 1
      BY <1>3, <2>1 DEF NegamaxBody
    <2>3. f.next = 0 /\ l.nodes = 1
      <3>1. f.next = 0
        BY <1>1, <1>5
      <3> QED
        BY <1>2, <3>1, LoopBegins
    <2>4. Worth(f) = e.leaf
      BY <1>5 DEF Worth, Count
    <2> QED
      BY <1>2, <1>3, <2>2, <2>3, <2>4
  <1>6. CASE e.count # 0
    <2>1. ~Terminal(c.board) /\ c.depth # 0 /\ e.count = Len(c.board.next)
      BY <1>1, <1>2, <1>6, ChildrenAre
    <2>2. /\ LoopAt(c, Len(c.board.next)) = TurnsOf(negamax, c)[Len(c.board.next)]
          /\ f.next \in 0 .. Len(c.board.next)
      BY <1>1, <1>2, <1>4, <2>1, LoopAtIs
    <2>3. LoopAt(c, Len(c.board.next)) = l
      <3>1. f.next >= e.count \/ f.alpha >= f.beta
        BY <1>6 DEF Exhausted, Count
      <3>2. CASE f.next >= e.count
        <4>1. f.next = e.count
          BY <1>1, <1>4, <3>2
        <4> QED
          BY <2>1, <4>1
      <3>3. CASE f.alpha >= f.beta
        BY <1>1, <1>2, <2>1, <2>2, <3>3, CutStays
      <3> QED
        BY <3>1, <3>2, <3>3
    <2>4. negamax[c].score = l.best /\ negamax[c].nodes = l.nodes
      BY <1>3, <2>1, <2>2, <2>3 DEF NegamaxBody
    <2>5. Worth(f) = f.best
      BY <1>6 DEF Worth, Count
    <2> QED
      BY <1>1, <1>2, <1>3, <2>4, <2>5
  <1> QED
    BY <1>5, <1>6

(* A frame that is not exhausted hands its next child to a new one.          *)
LEMMA FrameOpens ==
  ASSUME IsTree(tree), NEW f \in Frame, NEW floor \in Int, Simulates(tree, f, floor, f.next),
         ~Exhausted(f), NEW g, g = Child(f), NEW h, h = Advance(f)
  PROVE  /\ g \in Frame /\ h \in Frame
         /\ h.index = f.index /\ h.next - 1 = f.next /\ h.beta = f.beta
         /\ Simulates(tree, h, floor, f.next)
         /\ g.next = 0 /\ Simulates(tree, g, -f.beta, 0)
         /\ LoopAt(CallAt(tree, g.index, -f.beta, g.beta), 0).nodes = 1
         /\ Links(tree, h, g)
         /\ tree[g.index + 1].at.depth = tree[f.index + 1].at.depth - 1
  <1> DEFINE e == tree[f.index + 1]
  <1>1. /\ f.index \in Int /\ f.next \in Int /\ f.best \in Int /\ f.alpha \in Int
        /\ f.beta \in Int
    BY DEF Frame
  <1>2. /\ f.index \in Node(tree) /\ f.next \in 0 .. e.count
        /\ -INF <= floor /\ floor < f.beta /\ f.beta <= INF /\ f.next \in Nat
    BY DEF Simulates
  <1>3. /\ e.count \in Nat /\ e.first \in Int
    BY <1>2, NodeTyped
  <1>4. e.count # 0 /\ f.next < e.count /\ f.alpha < f.beta
    BY <1>1, <1>2, <1>3 DEF Exhausted, Count
  <1>5. /\ h = [index |-> f.index, next |-> f.next + 1, best |-> f.best,
                alpha |-> f.alpha, beta |-> f.beta]
        /\ g = [index |-> e.first + f.next, next |-> 0, best |-> -INF,
                alpha |-> -f.beta, beta |-> -f.alpha]
    BY DEF Child, Advance, NewFrame, FrameOf
  <1>6. g \in Frame /\ h \in Frame
    BY <1>1, <1>2, <1>3, <1>5, Bounds DEF Frame
  <1>7. Simulates(tree, h, floor, f.next)
    <2>1. f.next + 1 \in 0 .. e.count /\ f.next <= f.next + 1
      BY <1>2, <1>3, <1>4
    <2> QED
      BY <1>5, <2>1 DEF Simulates
  <1>8. /\ g.index \in Node(tree)
        /\ tree[g.index + 1].at.depth = e.at.depth - 1
    <2>1. f.next + 1 \in 1 .. e.count
      BY <1>2, <1>3, <1>4
    <2>2. /\ e.first + (f.next + 1) - 1 \in Node(tree)
          /\ tree[e.first + (f.next + 1)].at
                = At(e.at.board.next[f.next + 1], e.at.depth - 1, e.at.ply + 1)
      BY <1>2, <1>4, <2>1, ChildrenAre
    <2>3. g.index = e.first + (f.next + 1) - 1 /\ g.index + 1 = e.first + (f.next + 1)
      BY <1>1, <1>3, <1>5
    <2> QED
      BY <2>2, <2>3 DEF At
  <1>9. -INF <= f.alpha
    BY <1>1, <1>2, Bounds DEF Simulates
  <1>10. LoopAt(CallAt(tree, g.index, -f.beta, g.beta), 0)
            = [best |-> -INF, alpha |-> -f.beta, nodes |-> 1, cut |-> FALSE]
    <2>1. -f.beta \in Int /\ g.beta \in Int
      BY <1>1, <1>5
    <2>2. PICK c : c = CallAt(tree, g.index, -f.beta, g.beta)
      OBVIOUS
    <2>3. c \in Calls /\ c.alpha = -f.beta
      BY <1>8, <2>1, <2>2, CallAtIs
    <2> QED
      BY <2>2, <2>3, LoopBegins
  <1>11. Simulates(tree, g, -f.beta, 0)
    <2>1. /\ -INF <= -f.beta /\ -f.beta < -f.alpha /\ -f.alpha <= INF
          /\ -f.beta <= -f.beta /\ ~(-f.beta >= -f.alpha)
      BY <1>1, <1>2, <1>4, <1>9, Bounds
    <2>2. tree[g.index + 1].count \in Nat
      BY <1>8, NodeTyped
    <2>3. 0 \in 0 .. tree[g.index + 1].count /\ 0 \in Nat /\ 0 <= 0
      BY <2>2
    <2> QED
      BY <1>5, <1>8, <1>10, <2>1, <2>3 DEF Simulates
  <1>12. Links(tree, h, g)
    <2>1. e.first + f.next = e.first + (f.next + 1) - 1 /\ f.next + 1 > 0
      BY <1>1, <1>2, <1>3
    <2> QED
      BY <1>4, <1>5, <2>1 DEF Links
  <1>13. h.next - 1 = f.next
    BY <1>1, <1>5
  <1> QED
    BY <1>5, <1>6, <1>7, <1>8, <1>10, <1>11, <1>12, <1>13

(* A value that comes back is one turn of the loop of the frame below.       *)
LEMMA FrameTakes ==
  ASSUME IsTree(tree), NEW p \in Frame, NEW floor \in Int, NEW g \in Frame,
         Simulates(tree, p, floor, p.next - 1), g.index \in Node(tree), Links(tree, p, g),
         NEW r \in Results, r = negamax[CallAt(tree, g.index, -p.beta, g.beta)],
         NEW q, q = Raise(p, -r.score)
  PROVE  /\ q \in Frame /\ q.index = p.index /\ q.next = p.next /\ q.beta = p.beta
         /\ Simulates(tree, q, floor, q.next)
         /\ LoopAt(CallAt(tree, q.index, floor, q.beta), q.next).nodes
               = LoopAt(CallAt(tree, p.index, floor, p.beta), p.next - 1).nodes + r.nodes
  <1> DEFINE e == tree[p.index + 1]
             c == CallAt(tree, p.index, floor, p.beta)
             i == p.next
             l == LoopAt(c, i - 1)
             s == -r.score
  <1>1. /\ p.index \in Int /\ i \in Int /\ p.best \in Int /\ p.alpha \in Int
        /\ p.beta \in Int /\ g.beta \in Int /\ g.index \in Int
        /\ s \in Int /\ r.nodes \in Nat /\ r.score \in Int
    BY DEF Frame, Results
  <1>2. /\ p.index \in Node(tree) /\ i \in 0 .. e.count
        /\ -INF <= floor /\ floor <= p.alpha /\ floor < p.beta /\ p.beta <= INF
        /\ p.best = l.best /\ p.alpha = l.alpha /\ (l.cut <=> p.alpha >= p.beta)
    BY DEF Simulates
  <1>3. /\ e.count \in Nat /\ e.first \in Int
    BY <1>2, NodeTyped
  <1>4. i > 0 /\ p.alpha < p.beta /\ g.index = e.first + i - 1 /\ g.beta = -p.alpha
    BY DEF Links
  <1>5. i \in 1 .. e.count /\ e.count # 0 /\ g.index + 1 = e.first + i
    BY <1>1, <1>2, <1>3, <1>4
  <1>6. /\ c \in Calls /\ c.board = e.at.board /\ c.depth = e.at.depth /\ c.ply = e.at.ply
        /\ c.alpha = floor /\ c.beta = p.beta /\ c.prune
    BY <1>1, <1>2, CallAtIs
  <1>7. /\ c.depth # 0 /\ e.count = Len(c.board.next)
        /\ tree[g.index + 1].at = At(c.board.next[i], c.depth - 1, c.ply + 1)
    <2>1. /\ e.at.depth # 0 /\ e.count = Len(e.at.board.next)
          /\ tree[e.first + i].at = At(e.at.board.next[i], e.at.depth - 1, e.at.ply + 1)
      BY <1>2, <1>5, ChildrenAre
    <2> HIDE DEF c, e
    <2> QED
      BY <1>5, <1>6, <2>1
  <1>8. Below(c, i, l) = CallAt(tree, g.index, -p.beta, g.beta)
    <2>1. c.prune = TRUE
      BY Zenon, <1>6 DEF Calls
    <2>2. /\ ChildWindow(l.alpha, c.beta).alpha = -p.beta
          /\ ChildWindow(l.alpha, c.beta).beta = g.beta
      BY <1>2, <1>4, <1>6 DEF ChildWindow
    <2>3. /\ tree[g.index + 1].at.board = c.board.next[i]
          /\ tree[g.index + 1].at.depth = c.depth - 1 /\ tree[g.index + 1].at.ply = c.ply + 1
      BY <1>7 DEF At
    <2> HIDE DEF c, l
    <2> QED
      BY Zenon, <2>1, <2>2, <2>3 DEF Below, CallAt
  <1>9. LoopAt(c, i) = After(l, r, p.beta, TRUE) /\ l \in Loops
    <2>1. LoopAt(c, i) = Turn(negamax, c, i, l)
      BY <1>5, <1>6, <1>7, LoopAtIs
    <2>2. i - 1 \in 0 .. Len(c.board.next)
      BY <1>3, <1>5, <1>7
    <2>3. l \in Loops
      BY <1>6, <1>7, <2>2, LoopAtIs
    <2>4. ~l.cut
      BY <1>1, <1>2, <1>4
    <2> QED
      BY <1>6, <1>8, <2>1, <2>3, <2>4 DEF Turn
  <1>10. q = [index |-> p.index, next |-> i,
              best  |-> Larger(s, p.best), alpha |-> Larger(s, p.alpha), beta |-> p.beta]
    BY DEF Raise, FrameOf
  <1>11. Larger(s, p.best) = Max({p.best, s}) /\ Larger(s, p.alpha) = Max({p.alpha, s})
    <2>1. ASSUME NEW a \in Int, NEW b \in Int PROVE Larger(a, b) = Max({b, a})
      <3>1. PICK m : m = Max({b, a})
        OBVIOUS
      <3>2. m \in Int /\ m >= a /\ m >= b /\ (m = a \/ m = b)
        BY <3>1, MaxOfTwo
      <3> QED
        BY <3>1, <3>2 DEF Larger
    <2> QED
      BY <1>1, <2>1
  <1>12. /\ LoopAt(c, i).best = q.best /\ LoopAt(c, i).alpha = q.alpha
         /\ LoopAt(c, i).nodes = l.nodes + r.nodes
         /\ (LoopAt(c, i).cut <=> q.alpha >= q.beta)
    <2>1. PICK m : m = After(l, r, p.beta, TRUE)
      OBVIOUS
    <2>2. /\ m.best = Max({l.best, s}) /\ m.alpha = Max({l.alpha, s})
          /\ m.nodes = l.nodes + r.nodes /\ (m.cut <=> Max({l.alpha, s}) >= p.beta)
      BY <2>1 DEF After
    <2>3. q.best = Max({p.best, s}) /\ q.alpha = Max({p.alpha, s}) /\ q.beta = p.beta
      BY <1>10, <1>11
    <2> HIDE DEF l, s
    <2> QED
      BY Zenon, <1>2, <1>9, <2>1, <2>2, <2>3
  <1>13. q \in Frame
    BY <1>1, <1>10 DEF Frame, Larger
  <1>14. i \in Nat /\ i <= i
    BY <1>5
  <1>15. /\ q.index = p.index /\ q.next = i /\ q.beta = p.beta
    BY <1>10
  <1>16. CallAt(tree, q.index, floor, q.beta) = c
    BY <1>15
  <1>17. floor <= q.alpha
    BY <1>1, <1>2, <1>10 DEF Larger
  <1> HIDE DEF c, l, i
  <1>18. Simulates(tree, q, floor, i)
    BY <1>2, <1>12, <1>14, <1>15, <1>16, <1>17 DEF Simulates
  <1> QED
    BY <1>12, <1>13, <1>15, <1>16, <1>18 DEF c, l, i

-----------------------------------------------------------------------------
LEMMA SlotsAre ==
  ASSUME NEW n \in Slots
  PROVE  /\ n \in Nat /\ \A k \in 0 .. n : k \in Slots /\ k \in Int
         /\ \A k \in 1 .. n : k - 1 \in 0 .. n /\ k - 1 \in Slots
  BY Bounds DEF Slots

LEMMA FloorTyped ==
  ASSUME NEW n \in Slots, NEW s \in [Slots -> Frame], NEW k \in 0 .. n
  PROVE  Floor(s, k) \in Int
  <1>1. CASE k = 0
    BY <1>1, Bounds DEF Floor
  <1>2. CASE k # 0
    <2>1. k - 1 \in Slots
      BY <1>2, SlotsAre
    <2>2. s[k - 1].beta \in Int
      BY <2>1 DEF Frame
    <2> QED
      BY <1>2, <2>2 DEF Floor
  <1> QED
    BY <1>1, <1>2

(* A frame whose own slot and window stay.                                   *)
LEMMA FrameStays ==
  ASSUME NEW t, NEW s, NEW n, NEW w, NEW m, NEW k, w[k] = s[k], Floor(w, k) = Floor(s, k),
         Done(w, m, k) = Done(s, n, k)
  PROVE  /\ NodesOf(t, w, m, k) = NodesOf(t, s, n, k)
         /\ InFrame(t, s, n, k) => InFrame(t, w, m, k)
  BY DEF NodesOf, InFrame

LEMMA NodesTyped ==
  ASSUME NEW t, IsTree(t), NEW n \in Slots, NEW s \in [Slots -> Frame], NEW k \in 0 .. n,
         InFrame(t, s, n, k)
  PROVE  NodesOf(t, s, n, k) \in Nat
  <1> DEFINE f == s[k]
             i == Done(s, n, k)
  <1>1. f \in Frame /\ Floor(s, k) \in Int /\ f.beta \in Int
    <2>1. s[k] \in Frame
      BY SlotsAre
    <2> QED
      BY <2>1, FloorTyped DEF Frame
  <1>2. f.index \in Node(t) /\ f.next \in 0 .. t[f.index + 1].count /\ i \in Nat /\ i <= f.next
    BY DEF InFrame, Simulates
  <1>3. t[f.index + 1].count \in Nat
    BY <1>2, NodeTyped
  <1>4. PICK c : c = CallAt(t, f.index, Floor(s, k), f.beta)
    OBVIOUS
  <1>5. /\ c \in Calls /\ c.depth = t[f.index + 1].at.depth
        /\ c.board = t[f.index + 1].at.board
    BY <1>1, <1>2, <1>4, CallAtIs
  <1>6. LoopAt(c, i).nodes \in Nat
    <2>1. CASE i = 0
      BY <1>5, <2>1, LoopBegins
    <2>2. CASE i # 0
      <3>1. t[f.index + 1].count # 0
        BY <1>2, <1>3, <2>2
      <3>2. c.depth # 0 /\ t[f.index + 1].count = Len(c.board.next)
        BY <1>2, <1>5, <3>1, ChildrenAre
      <3>3. i \in 0 .. Len(c.board.next)
        BY <1>2, <1>3, <3>2
      <3>4. LoopAt(c, i) \in Loops
        BY <1>5, <3>2, <3>3, LoopAtIs
      <3> QED
        BY <3>4 DEF Loops
    <2> QED
      BY <2>1, <2>2
  <1> QED
    BY <1>4, <1>6 DEF NodesOf

(* One more child: there is a slot for it.                                   *)
LEMMA StackHasRoom ==
  ASSUME IsTree(tree), NEW r, NEW n \in Slots, NEW s \in [Slots -> Frame], NEW v,
         Stacked(tree, r, s, n, v), ~Exhausted(s[n])
  PROVE  n + 1 \in Slots /\ Advance(s[n]) \in Frame /\ Child(s[n]) \in Frame
  <1>1. n \in Nat /\ n \in 0 .. n /\ s[n] \in Frame
    BY SlotsAre
  <1>2. PICK floor \in Int : floor = Floor(s, n)
    BY <1>1, FloorTyped
  <1>3. InFrame(tree, s, n, n)
    BY <1>1 DEF Stacked
  <1>4. /\ Simulates(tree, s[n], floor, s[n].next)
        /\ tree[s[n].index + 1].at.depth + n <= MaxDepth
    BY <1>2, <1>3 DEF InFrame, Done
  <1>5. PICK g : g = Child(s[n])
    OBVIOUS
  <1>6. /\ g \in Frame /\ Advance(s[n]) \in Frame /\ Simulates(tree, g, -s[n].beta, 0)
        /\ tree[g.index + 1].at.depth = tree[s[n].index + 1].at.depth - 1
    BY <1>1, <1>4, <1>5, FrameOpens
  <1>7. s[n].index \in Node(tree) /\ g.index \in Node(tree)
    BY <1>4, <1>6 DEF Simulates
  <1>8. tree[g.index + 1].at.depth \in Nat /\ tree[s[n].index + 1].at.depth \in Nat
    BY <1>7, NodeTyped
  <1>9. n + 1 \in Slots
    <2>1. PICK a \in Nat, d \in Nat :
             a = tree[g.index + 1].at.depth /\ d = tree[s[n].index + 1].at.depth
      BY <1>8
    <2>2. a = d - 1 /\ d + n <= MaxDepth
      BY <1>4, <1>6, <2>1
    <2>3. n + 1 \in 0 .. (MaxDepth + 1)
      BY <1>1, <2>1, <2>2, Bounds
    <2> QED
      BY <2>3 DEF Slots
  <1> QED
    BY <1>5, <1>6, <1>9

LEMMA StackOpens ==
  ASSUME IsTree(tree), NEW r, NEW n \in Slots, NEW s \in [Slots -> Frame], NEW v,
         Stacked(tree, r, s, n, v), ~Exhausted(s[n]),
         NEW w \in [Slots -> Frame], w[n] = Advance(s[n]), w[n + 1] = Child(s[n]),
         \A k \in 0 .. n : k # n => w[k] = s[k]
  PROVE  Stacked(tree, r, w, n + 1, v + 1)
  <1> DEFINE f == s[n]
  <1>1. /\ n \in Nat /\ n \in 0 .. n /\ f \in Frame
        /\ \A k \in 0 .. n : k \in Slots /\ k \in Int
        /\ \A k \in 1 .. n : k - 1 \in 0 .. n
    BY SlotsAre
  <1>2. PICK floor \in Int : floor = Floor(s, n)
    BY <1>1, FloorTyped
  <1>3. InFrame(tree, s, n, n)
    BY <1>1 DEF Stacked
  <1>4. /\ Simulates(tree, f, floor, f.next)
        /\ tree[f.index + 1].at.depth + n <= MaxDepth
    BY <1>2, <1>3 DEF InFrame, Done
  <1>5. PICK g : g = Child(f)
    OBVIOUS
  <1>6. PICK h : h = Advance(f)
    OBVIOUS
  <1>7. /\ g \in Frame /\ h \in Frame
        /\ h.index = f.index /\ h.next - 1 = f.next /\ h.beta = f.beta
        /\ Simulates(tree, h, floor, f.next)
        /\ g.next = 0 /\ Simulates(tree, g, -f.beta, 0)
        /\ LoopAt(CallAt(tree, g.index, -f.beta, g.beta), 0).nodes = 1
        /\ Links(tree, h, g)
        /\ tree[g.index + 1].at.depth = tree[f.index + 1].at.depth - 1
    BY <1>1, <1>4, <1>5, <1>6, FrameOpens
  <1>8. n + 1 \in Slots /\ tree[g.index + 1].at.depth + (n + 1) <= MaxDepth
    <2>0. n + 1 \in Slots
      BY StackHasRoom
    <2>1. f.index \in Node(tree) /\ g.index \in Node(tree)
      BY <1>4, <1>7 DEF Simulates
    <2>2. tree[g.index + 1].at.depth \in Nat /\ tree[f.index + 1].at.depth \in Nat
      BY <2>1, NodeTyped
    <2> QED
      BY <1>1, <1>4, <1>7, <2>0, <2>2, Bounds
  <1>9. /\ w[n] = h /\ w[n + 1] = g
        /\ \A k \in 0 .. n : k # n => w[k] = s[k]
    BY <1>5, <1>6
  <1> HIDE DEF f
  <1>10. ASSUME NEW k \in 0 .. n
         PROVE  w[k].beta = s[k].beta /\ w[k].index = s[k].index
    BY <1>7, <1>9 DEF f
  <1>11. ASSUME NEW k \in 0 .. n
         PROVE  Floor(w, k) = Floor(s, k)
    <2>1. k = 0 \/ k - 1 \in 0 .. n
      BY <1>1
    <2> QED
      BY <1>10, <2>1 DEF Floor
  <1>12. ASSUME NEW k \in 0 .. n
         PROVE  Done(w, n + 1, k) = Done(s, n, k)
    <2>1. k # n + 1
      BY <1>1
    <2>2. CASE k = n
      BY <1>7, <1>9, <2>1, <2>2 DEF Done, f
    <2>3. CASE k # n
      BY <1>9, <2>1, <2>3 DEF Done
    <2> QED
      BY <2>2, <2>3
  <1>13. ASSUME NEW k \in 0 .. n
         PROVE  InFrame(tree, w, n + 1, k) /\ NodesOf(tree, w, n + 1, k) = NodesOf(tree, s, n, k)
    <2>1. InFrame(tree, s, n, k)
      BY DEF Stacked
    <2>2. CASE k = n
      <3>1. /\ w[k] = h /\ Floor(w, k) = floor /\ Done(w, n + 1, k) = f.next
        BY <1>2, <1>9, <1>11, <1>12, <2>2 DEF Done, f
      <3>2. InFrame(tree, w, n + 1, k)
        BY <1>4, <1>7, <2>2, <3>1 DEF InFrame
      <3>3. NodesOf(tree, w, n + 1, k) = NodesOf(tree, s, n, k)
        BY <1>10, <1>11, <1>12 DEF NodesOf
      <3> QED
        BY <3>2, <3>3
    <2>3. CASE k # n
      BY <1>9, <1>11, <1>12, <2>1, <2>3, FrameStays
    <2> QED
      BY <2>2, <2>3
  <1>14. /\ InFrame(tree, w, n + 1, n + 1) /\ NodesOf(tree, w, n + 1, n + 1) = 1
    <2>1. Floor(w, n + 1) = -f.beta
      <3>1. n + 1 # 0 /\ (n + 1) - 1 = n
        BY <1>1
      <3> QED
        BY <1>7, <1>9, <3>1 DEF Floor
    <2>2. Done(w, n + 1, n + 1) = 0
      BY <1>7, <1>9 DEF Done
    <2> QED
      BY <1>7, <1>8, <1>9, <2>1, <2>2 DEF InFrame, NodesOf
  <1>15. \A k \in 0 .. n + 1 : k \in 0 .. n \/ k = n + 1
    BY <1>1
  <1>16. \A k \in 0 .. (n + 1) : InFrame(tree, w, n + 1, k)
    BY <1>13, <1>14, <1>15
  <1>17. ASSUME NEW k \in 0 .. ((n + 1) - 1)
         PROVE  Links(tree, w[k], w[k + 1])
    <2>1. k \in 0 .. n
      BY <1>1
    <2>2. CASE k = n
      BY <1>7, <1>9, <2>2
    <2>3. CASE k # n
      <3>1. k \in 0 .. (n - 1) /\ k + 1 \in 0 .. n
        BY <1>1, <2>1, <2>3
      <3>2. Links(tree, s[k], s[k + 1])
        BY <3>1 DEF Stacked
      <3>3. w[k] = s[k] /\ w[k + 1].index = s[k + 1].index /\ w[k + 1].beta = s[k + 1].beta
        BY <1>9, <1>10, <2>1, <2>3, <3>1
      <3> QED
        BY <3>2, <3>3 DEF Links
    <2> QED
      BY <2>2, <2>3
  <1>18. Counted(tree, w, n + 1, v + 1)
    <2>1. PICK u \in [Slots -> Nat] :
             /\ u[0] = NodesOf(tree, s, n, 0)
             /\ \A k \in 1 .. n : u[k] = u[k - 1] + NodesOf(tree, s, n, k)
             /\ v = u[n]
      BY DEF Stacked, Counted
    <2>2. PICK x : x = [u EXCEPT ![n + 1] = u[n] + 1]
      OBVIOUS
    <2>3. /\ x \in [Slots -> Nat] /\ x[n + 1] = u[n] + 1
          /\ \A k \in 0 .. n : x[k] = u[k]
      <3>1. u[n] + 1 \in Nat
        BY <1>1
      <3>2. \A k \in 0 .. n : k # n + 1
        BY <1>1
      <3> QED
        BY <1>1, <1>8, <2>2, <3>1, <3>2
    <2>4. x[0] = NodesOf(tree, w, n + 1, 0)
      <3>1. 0 \in 0 .. n
        BY <1>1
      <3> QED
        BY <1>13, <2>1, <2>3, <3>1
    <2>5. ASSUME NEW k \in 1 .. (n + 1)
          PROVE  x[k] = x[k - 1] + NodesOf(tree, w, n + 1, k)
      <3>1. CASE k = n + 1
        <4>1. k - 1 = n
          BY <1>1, <3>1
        <4> QED
          BY <1>1, <1>14, <2>3, <3>1, <4>1
      <3>2. CASE k # n + 1
        <4>1. k \in 1 .. n /\ k \in 0 .. n /\ k - 1 \in 0 .. n
          BY <1>1, <3>2
        <4> QED
          BY <1>13, <2>1, <2>3, <4>1
      <3> QED
        BY <3>1, <3>2
    <2>6. v + 1 = x[n + 1]
      BY <2>1, <2>3
    <2> QED
      BY <2>3, <2>4, <2>5, <2>6 DEF Counted
  <1>19. w[0].index = r /\ w[0].beta = INF
    <2>1. 0 \in 0 .. n /\ s[0].index = r /\ s[0].beta = INF
      BY <1>1 DEF Stacked
    <2> QED
      BY <1>10, <2>1
  <1> QED
    BY <1>16, <1>17, <1>18, <1>19 DEF Stacked

(* What the frame at the top returns when it is exhausted.                   *)
LEMMA TopEnds ==
  ASSUME IsTree(tree), NEW r, NEW n \in Slots, NEW s \in [Slots -> Frame], NEW v,
         Stacked(tree, r, s, n, v), Exhausted(s[n])
  PROVE  LET c == CallAt(tree, s[n].index, Floor(s, n), s[n].beta)
         IN  /\ c \in Calls /\ negamax[c] \in Results /\ Worth(s[n]) \in Int
             /\ Worth(s[n]) = negamax[c].score /\ NodesOf(tree, s, n, n) = negamax[c].nodes
  <1>1. n \in 0 .. n /\ s[n] \in Frame
    BY SlotsAre
  <1>2. PICK floor \in Int : floor = Floor(s, n)
    BY <1>1, FloorTyped
  <1>3. PICK c : c = CallAt(tree, s[n].index, floor, s[n].beta)
    OBVIOUS
  <1>4. InFrame(tree, s, n, n)
    BY <1>1 DEF Stacked
  <1>5. Simulates(tree, s[n], floor, s[n].next)
    BY <1>2, <1>4 DEF InFrame, Done
  <1>6. /\ c \in Calls /\ negamax[c] \in Results /\ Worth(s[n]) = negamax[c].score
        /\ LoopAt(c, s[n].next).nodes = negamax[c].nodes
    BY <1>1, <1>3, <1>5, FrameEnds
  <1>7. negamax[c].score \in Int
    BY <1>6 DEF Results
  <1> QED
    BY <1>2, <1>3, <1>6, <1>7 DEF NodesOf, Done

LEMMA TopGivesBack ==
  ASSUME IsTree(tree), NEW r, NEW n \in Slots, n # 0, NEW s \in [Slots -> Frame], NEW v,
         Stacked(tree, r, s, n, v), Exhausted(s[n])
  PROVE  n - 1 \in Slots /\ Raise(s[n - 1], -Worth(s[n])) \in Frame
  <1>1. n - 1 \in Slots
    BY SlotsAre
  <1>2. s[n - 1] \in Frame /\ Worth(s[n]) \in Int
    BY <1>1, TopEnds
  <1> QED
    BY <1>1, <1>2 DEF Raise, FrameOf, Larger, Frame

LEMMA StackTakes ==
  ASSUME IsTree(tree), NEW r, NEW n \in Slots, n # 0, NEW s \in [Slots -> Frame], NEW v,
         Stacked(tree, r, s, n, v), Exhausted(s[n]),
         NEW w \in [Slots -> Frame], w[n - 1] = Raise(s[n - 1], -Worth(s[n])),
         \A k \in 0 .. n : k # n - 1 => w[k] = s[k]
  PROVE  Stacked(tree, r, w, n - 1, v)
  <1>1. PICK m \in Nat : m = n - 1
    BY SlotsAre
  <1>2. /\ n \in Nat /\ m \in Slots /\ m \in 0 .. n /\ m # n /\ m + 1 = n /\ n \in 0 .. n
        /\ m \in 0 .. (n - 1) /\ \A k \in 0 .. m : k \in 0 .. n /\ k # n
    BY <1>1, SlotsAre
  <1>3. PICK p \in Frame : p = s[m]
    BY <1>2
  <1>4. PICK g \in Frame : g = s[n]
    OBVIOUS
  <1>5. PICK q : q = w[m]
    OBVIOUS
  <1>6. PICK floor \in Int : floor = Floor(s, m)
    BY <1>2, FloorTyped
  <1>7. /\ Simulates(tree, p, floor, p.next - 1) /\ tree[p.index + 1].at.depth + m <= MaxDepth
    BY <1>2, <1>3, <1>6 DEF Stacked, InFrame, Done
  <1>8. Links(tree, p, g)
    BY <1>2, <1>3, <1>4 DEF Stacked
  <1>9. g.index \in Node(tree)
    BY <1>2, <1>4 DEF Stacked, InFrame, Simulates
  <1>10. Floor(s, n) = -p.beta
    BY <1>1, <1>3 DEF Floor
  <1>11. PICK c : c = CallAt(tree, g.index, -p.beta, g.beta)
    OBVIOUS
  <1>12. PICK e \in Results : /\ e = negamax[c] /\ Worth(g) = e.score
                              /\ NodesOf(tree, s, n, n) = e.nodes
    BY <1>4, <1>10, <1>11, TopEnds
  <1>13. q = Raise(p, -e.score)
    BY <1>1, <1>3, <1>4, <1>5, <1>12
  <1>14. /\ q \in Frame /\ q.index = p.index /\ q.next = p.next /\ q.beta = p.beta
         /\ Simulates(tree, q, floor, q.next)
         /\ LoopAt(CallAt(tree, q.index, floor, q.beta), q.next).nodes
               = LoopAt(CallAt(tree, p.index, floor, p.beta), p.next - 1).nodes + e.nodes
    BY <1>7, <1>8, <1>9, <1>11, <1>12, <1>13, FrameTakes
  <1>15. ASSUME NEW k \in 0 .. m
         PROVE  /\ w[k].beta = s[k].beta /\ w[k].index = s[k].index
                /\ k # m => w[k] = s[k]
    <2>1. k = m => w[k].beta = s[k].beta /\ w[k].index = s[k].index
      BY <1>3, <1>5, <1>14
    <2>2. k # m => w[k] = s[k]
      BY <1>1, <1>2
    <2> QED
      BY <2>1, <2>2
  <1>16. ASSUME NEW k \in 0 .. m
         PROVE  Floor(w, k) = Floor(s, k)
    <2>1. CASE k = 0
      BY <2>1 DEF Floor
    <2>2. CASE k # 0
      <3>1. k - 1 \in 0 .. m
        BY <1>2, <2>2
      <3>2. w[k - 1].beta = s[k - 1].beta
        BY <1>15, <3>1
      <3> QED
        BY <2>2, <3>2 DEF Floor
    <2> QED
      BY <2>1, <2>2
  <1>17. ASSUME NEW k \in 0 .. m, k # m
         PROVE  InFrame(tree, w, m, k) /\ NodesOf(tree, w, m, k) = NodesOf(tree, s, n, k)
    <2>1. InFrame(tree, s, n, k)
      BY <1>2 DEF Stacked
    <2>2. w[k] = s[k] /\ Floor(w, k) = Floor(s, k)
      BY <1>15, <1>16, <1>17
    <2>3. Done(w, m, k) = Done(s, n, k)
      BY <1>2, <1>17, <2>2 DEF Done
    <2> QED
      BY <2>1, <2>2, <2>3, FrameStays
  <1>18. /\ InFrame(tree, w, m, m)
         /\ NodesOf(tree, w, m, m) = NodesOf(tree, s, n, m) + NodesOf(tree, s, n, n)
    <2>1. Floor(w, m) = floor /\ Done(w, m, m) = q.next /\ Done(s, n, m) = p.next - 1
      BY <1>2, <1>3, <1>5, <1>6, <1>16 DEF Done
    <2>2. InFrame(tree, w, m, m)
      BY <1>5, <1>7, <1>14, <2>1 DEF InFrame
    <2>3. NodesOf(tree, w, m, m) = LoopAt(CallAt(tree, q.index, floor, q.beta), q.next).nodes
      BY <1>5, <2>1 DEF NodesOf
    <2>4. NodesOf(tree, s, n, m) = LoopAt(CallAt(tree, p.index, floor, p.beta), p.next - 1).nodes
      BY <1>3, <1>6, <2>1 DEF NodesOf
    <2> QED
      BY <1>12, <1>14, <2>2, <2>3, <2>4
  <1>19. \A k \in 0 .. m : InFrame(tree, w, m, k)
    BY <1>17, <1>18
  <1>20. ASSUME NEW k \in 0 .. (m - 1)
         PROVE  Links(tree, w[k], w[k + 1])
    <2>1. k \in 0 .. m /\ k # m /\ k + 1 \in 0 .. m /\ k \in 0 .. (n - 1)
      BY <1>1, <1>2
    <2>2. Links(tree, s[k], s[k + 1])
      BY <2>1 DEF Stacked
    <2>3. w[k] = s[k] /\ w[k + 1].index = s[k + 1].index /\ w[k + 1].beta = s[k + 1].beta
      BY <1>15, <2>1
    <2> QED
      BY <2>2, <2>3 DEF Links
  <1>21. Counted(tree, w, m, v)
    <2>1. PICK u \in [Slots -> Nat] :
             /\ u[0] = NodesOf(tree, s, n, 0)
             /\ \A k \in 1 .. n : u[k] = u[k - 1] + NodesOf(tree, s, n, k)
             /\ v = u[n]
      BY DEF Stacked, Counted
    <2>2. PICK x : x = [u EXCEPT ![m] = u[n]]
      OBVIOUS
    <2>3. x \in [Slots -> Nat] /\ x[m] = u[n] /\ \A k \in 0 .. m : k # m => x[k] = u[k]
      BY <1>2, <2>2, SlotsAre
    <2>4. u[n] = u[m] + NodesOf(tree, s, n, n)
      <3>1. n \in 1 .. n
        BY <1>2
      <3> QED
        BY <1>1, <2>1, <3>1
    <2>5. \A k \in 0 .. n : u[k] \in Int /\ NodesOf(tree, s, n, k) \in Int
      <3>1. ASSUME NEW k \in 0 .. n PROVE NodesOf(tree, s, n, k) \in Nat
        <4>1. InFrame(tree, s, n, k)
          BY DEF Stacked
        <4> QED
          BY <4>1, NodesTyped
      <3> QED
        BY <3>1, SlotsAre
    <2>6. x[0] = NodesOf(tree, w, m, 0)
      <3>1. 0 \in 0 .. m
        BY <1>2
      <3>2. CASE m = 0
        BY <1>2, <1>18, <2>1, <2>3, <2>4, <3>2
      <3>3. CASE m # 0
        BY <1>17, <2>1, <2>3, <3>1, <3>3
      <3> QED
        BY <3>2, <3>3
    <2>7. ASSUME NEW k \in 1 .. m
          PROVE  x[k] = x[k - 1] + NodesOf(tree, w, m, k)
      <3>1. k \in 0 .. m /\ k \in 1 .. n /\ k - 1 \in 0 .. m /\ k - 1 # m /\ k - 1 \in 0 .. n
        BY <1>2
      <3>2. x[k - 1] = u[k - 1] /\ u[k] = u[k - 1] + NodesOf(tree, s, n, k)
        BY <2>1, <2>3, <3>1
      <3>3. CASE k = m
        BY <1>2, <1>18, <2>3, <2>4, <2>5, <3>1, <3>2, <3>3
      <3>4. CASE k # m
        BY <1>17, <2>3, <3>1, <3>2, <3>4
      <3> QED
        BY <3>3, <3>4
    <2> QED
      BY <2>1, <2>3, <2>6, <2>7 DEF Counted
  <1>22. w[0].index = r /\ w[0].beta = INF
    <2>1. 0 \in 0 .. m /\ s[0].index = r /\ s[0].beta = INF
      BY <1>2 DEF Stacked
    <2> QED
      BY <1>15, <2>1
  <1>23. Stacked(tree, r, w, m, v)
    BY <1>19, <1>20, <1>21, <1>22 DEF Stacked
  <1> QED
    BY <1>1, <1>23

(* The end: the frame of the root is the search of the root.                 *)
LEMMA RootEnds ==
  ASSUME IsTree(tree), NEW r \in Node(tree), NEW s \in [Slots -> Frame], NEW v,
         Stacked(tree, r, s, 0, v), Exhausted(s[0])
  PROVE  LET a == tree[r + 1].at
         IN  /\ Worth(s[0]) \in Int
             /\ [score |-> Worth(s[0]), nodes |-> v] = Negamax(a.board, a.depth, a.ply, -INF, INF, TRUE)
  <1>1. 0 \in Slots
    BY Bounds DEF Slots
  <1>2. s[0].index = r /\ s[0].beta = INF /\ Floor(s, 0) = -INF
    BY DEF Stacked, Floor
  <1>3. PICK c : c = CallAt(tree, r, -INF, INF)
    OBVIOUS
  <1>4. /\ negamax[c] \in Results /\ Worth(s[0]) \in Int
        /\ Worth(s[0]) = negamax[c].score /\ NodesOf(tree, s, 0, 0) = negamax[c].nodes
    BY <1>1, <1>2, <1>3, TopEnds
  <1>5. v = NodesOf(tree, s, 0, 0)
    BY DEF Stacked, Counted
  <1>6. negamax[c] = [score |-> Worth(s[0]), nodes |-> v]
    BY <1>4, <1>5 DEF Results
  <1> QED
    BY <1>3, <1>4, <1>6 DEF Negamax, CallAt

-----------------------------------------------------------------------------
LEMMA DeviceBegins == DeviceInit => DeviceInv
  <1> SUFFICES ASSUME DeviceInit
               PROVE  DeviceInv
    OBVIOUS
  <1>1. IsTree(tree) /\ root \in Node(tree)
    BY DeviceSearchAssumption DEF DeviceInit
  <1>2. /\ root \in Int /\ tree[root + 1].count \in Nat /\ tree[root + 1].at.depth \in Nat
        /\ tree[root + 1].at.depth <= MaxDepth
    BY <1>1, NodeTyped
  <1>3. PICK f \in Frame : f = NewFrame(root, -INF, INF)
    <2>1. -INF \in Int /\ INF \in Int /\ 0 \in Int
      BY Bounds
    <2>2. NewFrame(root, -INF, INF) \in Frame
      BY <1>2, <2>1 DEF NewFrame, FrameOf, Frame
    <2> QED
      BY <2>2
  <1>4. /\ f.index = root /\ f.next = 0 /\ f.best = -INF /\ f.alpha = -INF /\ f.beta = INF
    BY <1>3 DEF NewFrame, FrameOf
  <1>5. stack = [k \in Slots |-> f] /\ top = 0 /\ 0 \in Slots /\ visited = 1
    BY <1>3, Bounds DEF DeviceInit, Slots
  <1>6. TypeOK
    BY <1>1, <1>5 DEF DeviceInit, TypeOK
  <1>7. Stacked(tree, root, stack, 0, 1)
    <2>1. stack[0] = f /\ Floor(stack, 0) = -INF /\ Done(stack, 0, 0) = 0
      BY <1>4, <1>5 DEF Floor, Done
    <2>2. PICK c : c = CallAt(tree, root, -INF, INF)
      OBVIOUS
    <2>3. LoopAt(c, 0) = [best |-> -INF, alpha |-> -INF, nodes |-> 1, cut |-> FALSE]
      <3>1. c \in Calls /\ c.alpha = -INF
        BY <1>1, <2>2, CallAtIs, Bounds
      <3> QED
        BY <3>1, LoopBegins
    <2>4. Simulates(tree, f, -INF, 0)
      <3>1. /\ -INF <= -INF /\ INF <= INF /\ ~(-INF >= INF) /\ 0 \in 0 .. tree[root + 1].count
        BY <1>2, Bounds
      <3> QED
        BY <1>1, <1>4, <2>2, <2>3, <3>1, Bounds DEF Simulates
    <2>5. InFrame(tree, stack, 0, 0)
      BY <1>2, <1>4, <2>1, <2>4 DEF InFrame
    <2>6. NodesOf(tree, stack, 0, 0) = 1
      BY <1>4, <2>1, <2>2, <2>3 DEF NodesOf
    <2>7. Counted(tree, stack, 0, 1)
      <3>1. PICK u : u = [k \in Slots |-> 1]
        OBVIOUS
      <3>2. u \in [Slots -> Nat] /\ u[0] = 1
        BY <1>5, <3>1
      <3> QED
        BY <2>6, <3>2 DEF Counted
    <2>8. \A k \in 0 .. 0 : k = 0
      OBVIOUS
    <2>9. \A k \in 0 .. (0 - 1) : FALSE
      OBVIOUS
    <2> QED
      BY <1>4, <2>1, <2>5, <2>7, <2>8, <2>9 DEF Stacked
  <1> QED
    BY <1>5, <1>6, <1>7 DEF DeviceInv, StackFits, Running, TraversesLikeNegamax

LEMMA ReturnKeeps ==
  ASSUME DeviceInv, Return
  PROVE  DeviceInv'
  <1>1. top = 0 /\ Exhausted(stack[0]) /\ value' = Worth(stack[0]) /\ top' = -1
    BY DEF Return, Current
  <1>2. /\ IsTree(tree) /\ root \in Node(tree) /\ stack \in [Slots -> Frame]
        /\ Stacked(tree, root, stack, 0, visited)
    BY <1>1 DEF DeviceInv, TypeOK, Running
  <1>3. /\ value' \in Int
        /\ [score |-> value', nodes |-> visited]
              = Negamax(tree[root + 1].at.board, tree[root + 1].at.depth, tree[root + 1].at.ply,
                        -INF, INF, TRUE)
    BY <1>1, <1>2, RootEnds
  <1>4. TypeOK'
    <2>1. leafVisits' \in Nat
      BY DEF Return, CountLeaf, DeviceInv, TypeOK
    <2> QED
      BY <1>3, <2>1 DEF Return, DeviceInv, TypeOK
  <1>5. StackFits' /\ Running'
    BY <1>1 DEF StackFits, Running
  <1>6. TraversesLikeNegamax'
    BY <1>3 DEF Return, TraversesLikeNegamax
  <1> QED
    BY <1>4, <1>5, <1>6 DEF DeviceInv

LEMMA PopKeeps ==
  ASSUME DeviceInv, Pop
  PROVE  DeviceInv'
  <1>1. PICK n \in Slots : n = top /\ n # 0
    BY DEF Pop, DeviceInv, TypeOK, StackFits
  <1>2. /\ IsTree(tree) /\ stack \in [Slots -> Frame] /\ top >= 0
        /\ Stacked(tree, root, stack, n, visited) /\ Exhausted(stack[n])
    BY <1>1 DEF Pop, Current, DeviceInv, TypeOK, Running
  <1>3. n - 1 \in Slots /\ Raise(stack[n - 1], -Worth(stack[n])) \in Frame
    BY <1>1, <1>2, TopGivesBack
  <1>4. PICK w : w = [stack EXCEPT ![n - 1] = Raise(stack[n - 1], -Worth(stack[n]))]
    OBVIOUS
  <1>5. /\ w \in [Slots -> Frame] /\ w[n - 1] = Raise(stack[n - 1], -Worth(stack[n]))
        /\ \A k \in 0 .. n : k # n - 1 => w[k] = stack[k]
    BY <1>2, <1>3, <1>4, SlotsAre
  <1>6. Stacked(tree, root, w, n - 1, visited)
    BY <1>1, <1>2, <1>5, StackTakes
  <1>7. /\ stack' = w /\ top' = n - 1 /\ UNCHANGED <<tree, root, value, visited>>
    BY <1>1, <1>4 DEF Pop, Parent, Current
  <1>8. TypeOK'
    <2>1. leafVisits' \in Nat
      BY DEF Pop, CountLeaf, DeviceInv, TypeOK
    <2>2. cutoffs' \in Nat
      <3>1. \E i \in {0, 1} : cutoffs' = cutoffs + i
        BY DEF Pop
      <3> QED
        BY <3>1 DEF DeviceInv, TypeOK
    <2>3. n - 1 \in Int
      BY SlotsAre
    <2> QED
      BY <1>5, <1>7, <2>1, <2>2, <2>3 DEF DeviceInv, TypeOK
  <1>9. top' # -1
    BY <1>3, <1>7, SlotsAre
  <1> QED
    BY <1>3, <1>6, <1>7, <1>8, <1>9 DEF DeviceInv, StackFits, Running, TraversesLikeNegamax

LEMMA PushKeeps ==
  ASSUME DeviceInv, Push
  PROVE  DeviceInv'
  <1>1. PICK n \in Slots : n = top
    BY DEF Push, DeviceInv, StackFits
  <1>2. /\ IsTree(tree) /\ stack \in [Slots -> Frame] /\ n \in Nat
        /\ Stacked(tree, root, stack, n, visited) /\ ~Exhausted(stack[n])
    BY <1>1, SlotsAre DEF Push, Current, DeviceInv, TypeOK, Running
  <1>3. n + 1 \in Slots /\ Advance(stack[n]) \in Frame /\ Child(stack[n]) \in Frame
    BY <1>2, StackHasRoom
  <1>4. PICK w : w = [stack EXCEPT ![n] = Advance(stack[n]), ![n + 1] = Child(stack[n])]
    OBVIOUS
  <1>5. /\ w \in [Slots -> Frame] /\ w[n] = Advance(stack[n]) /\ w[n + 1] = Child(stack[n])
        /\ \A k \in 0 .. n : k # n => w[k] = stack[k]
    BY <1>2, <1>3, <1>4, SlotsAre
  <1>6. Stacked(tree, root, w, n + 1, visited + 1)
    BY <1>2, <1>5, StackOpens
  <1>7. /\ stack' = w /\ top' = n + 1 /\ visited' = visited + 1
        /\ UNCHANGED <<tree, root, value, leafVisits, cutoffs>>
    BY <1>1, <1>4 DEF Push, Current
  <1>8. TypeOK'
    BY <1>2, <1>5, <1>7 DEF DeviceInv, TypeOK
  <1>9. top' # -1
    BY <1>2, <1>7
  <1> QED
    BY <1>3, <1>6, <1>7, <1>8, <1>9 DEF DeviceInv, StackFits, Running, TraversesLikeNegamax

(* The invariant holds in every state of every search.                       *)
THEOREM DeviceInvariant == DeviceSpec => []DeviceInv
  <1>1. DeviceInv /\ [DeviceNext]_deviceVars => DeviceInv'
    <2> SUFFICES ASSUME DeviceInv, [DeviceNext]_deviceVars
                 PROVE  DeviceInv'
      OBVIOUS
    <2>1. CASE Return
      BY <2>1, ReturnKeeps
    <2>2. CASE Pop
      BY <2>2, PopKeeps
    <2>3. CASE Push
      BY <2>3, PushKeeps
    <2>4. CASE UNCHANGED deviceVars
      BY <2>4 DEF deviceVars, DeviceInv, TypeOK, StackFits, Running, TraversesLikeNegamax
    <2> QED
      BY <2>1, <2>2, <2>3, <2>4 DEF DeviceNext
  <1> QED
    BY <1>1, DeviceBegins, PTL DEF DeviceSpec

(* Frame stack[MAX_GPU_DEPTH + 2] is never written outside its bounds,       *)
(* whatever tree build_node made.                                            *)
THEOREM StackIsLongEnough == DeviceSpec => []StackFits
  <1>1. DeviceInv => StackFits
    BY DEF DeviceInv
  <1> QED
    BY <1>1, DeviceInvariant, PTL

(* The search of a tree with an explicit stack returns and counts what the   *)
(* recursive negamax returns and counts for the position of its root.        *)
THEOREM DeviceIsNegamax == DeviceSpec => []TraversesLikeNegamax
  <1>1. DeviceInv => TraversesLikeNegamax
    BY DEF DeviceInv
  <1> QED
    BY <1>1, DeviceInvariant, PTL

(* The positions of a tree have the moves that its depth asks for.           *)
LEMMA TreeKnown ==
  ASSUME NEW t, IsTree(t)
  PROVE  \A n \in Node(t) : t[n + 1].at.board \in Known[t[n + 1].at.depth]
  <1> DEFINE Bad == {d \in Nat : \E n \in Node(t) : /\ t[n + 1].at.depth = d
                                                  /\ t[n + 1].at.board \notin Known[d]}
  <1>1. SUFFICES ASSUME Bad # {} PROVE FALSE
    BY NodeTyped
  <1>2. PICK d \in Bad : \A e \in Bad : d <= e
    <2>1. Bad \in SUBSET Nat
      OBVIOUS
    <2> HIDE DEF Bad
    <2> QED
      BY <1>1, <2>1, Least
  <1>3. PICK n \in Node(t) : t[n + 1].at.depth = d /\ t[n + 1].at.board \notin Known[d]
    BY <1>2
  <1> DEFINE p == t[n + 1].at.board
  <1>4. p \in Position /\ d \in Nat /\ IsNode(t, n)
    BY <1>2, NodeTyped
  <1>5. Known[d] = KnownBody(Known, d)
    BY <1>4, KnownIs
  <1>6. d # 0 /\ ~Terminal(p)
    BY <1>3, <1>4, <1>5 DEF KnownBody
  <1>7. /\ p.next # <<>>
        /\ \A i \in 1 .. Len(p.next) :
              /\ t[n + 1].first + i - 1 \in Node(t)
              /\ t[t[n + 1].first + i].at = At(p.next[i], d - 1, t[n + 1].at.ply + 1)
    BY <1>3, <1>4, <1>6 DEF IsNode
  <1>8. ASSUME NEW i \in 1 .. Len(p.next) PROVE p.next[i] \in Known[d - 1]
    <2>1. PICK c : c = t[n + 1].first + i - 1
      OBVIOUS
    <2>2. c \in Node(t)
      BY <1>7, <2>1
    <2>3. t[n + 1].first \in Int /\ Len(p.next) \in Nat
      BY <1>4, NodeTyped, Moves
    <2>4. c + 1 = t[n + 1].first + i
      BY <2>1, <2>3
    <2>5. t[c + 1].at.board = p.next[i] /\ t[c + 1].at.depth = d - 1
      <3>1. t[t[n + 1].first + i].at = At(p.next[i], d - 1, t[n + 1].at.ply + 1)
        BY <1>7
      <3>2. t[c + 1].at = At(p.next[i], d - 1, t[n + 1].at.ply + 1)
        BY <2>4, <3>1
      <3> QED
        BY <3>2 DEF At
    <2>6. d - 1 \in Nat /\ d - 1 \notin Bad
      BY <1>2, <1>4, <1>6
    <2> QED
      BY <2>2, <2>5, <2>6
  <1>9. p.next \in Seq(Known[d - 1])
    <2>1. p.next \in Seq(Position)
      BY <1>4, Moves
    <2> QED
      BY <1>8, <2>1
  <1> QED
    BY <1>3, <1>4, <1>5, <1>7, <1>9 DEF KnownBody

(* What device_search returns is the minimax value of its root: cutting      *)
(* children off with the explicit stack loses nothing.                       *)
THEOREM DeviceReturnsMinimax == DeviceSpec => []ReturnsMinimax
  <1>1. DeviceInv => ReturnsMinimax
    <2> SUFFICES ASSUME DeviceInv, top = -1
                 PROVE  value = minimax[tree[root + 1].at]
      BY DEF ReturnsMinimax
    <2> DEFINE a == tree[root + 1].at
    <2>1. IsTree(tree) /\ root \in Node(tree) /\ value \in Int
      BY DEF DeviceInv, TypeOK
    <2>2. /\ a \in Searched /\ a.board \in Known[a.depth] /\ a.ply + a.depth < INF
          /\ a.depth \in Nat /\ a.ply \in Nat
      BY <2>1, NodeTyped, TreeKnown
    <2>3. minimax[a] \in Int /\ -INF < minimax[a] /\ minimax[a] < INF
      BY <2>2, ValuesBounded, MinimaxIs DEF Bounded
    <2>4. PICK c : c = CallAt(tree, root, -INF, INF)
      OBVIOUS
    <2>5. /\ c \in Calls /\ c.board = a.board /\ c.depth = a.depth /\ c.ply = a.ply
          /\ c.alpha = -INF /\ c.beta = INF /\ c.prune
      BY <2>1, <2>4, CallAtIs, Bounds
    <2>6. negamax[c].score = value
      <3>1. [score |-> value, nodes |-> visited]
               = Negamax(a.board, a.depth, a.ply, -INF, INF, TRUE)
        BY DEF DeviceInv, TraversesLikeNegamax
      <3>2. negamax[c] = [score |-> value, nodes |-> visited]
        BY Zenon, <2>4, <3>1 DEF Negamax, CallAt
      <3> QED
        BY <3>2
    <2>7. WorthOf(c) = minimax[a]
      <3>1. a = At(a.board, a.depth, a.ply)
        BY <2>2 DEF Searched, At
      <3> QED
        BY <2>5, <3>1 DEF WorthOf
    <2>8. Says(value, minimax[a], -INF, INF)
      <3>1. Sound(c) /\ Window(c)
        BY <2>5, AlphaBeta, Bounds DEF Window
      <3> QED
        BY <2>5, <2>6, <2>7, <3>1 DEF Sound
    <2> QED
      BY <2>1, <2>3, <2>8, Bounds DEF Says
  <1> QED
    BY <1>1, DeviceInvariant, PTL

-----------------------------------------------------------------------------
(* build_node.                                                               *)
BuildOf(b, i, u) ==
    Build(u, Len(b.tree.nodes) + i - 1, b.board.next[i], b.depth - 1, b.ply + 1, b.limit)

BuildOnce(g, b, i, t) == With(t, LAMBDA u : g[BuildOf(b, i, u)])

BuildTurns(g, b) ==
    CHOOSE f : f = [i \in 0 .. Len(b.board.next) |->
                      IF i = 0 THEN Expanded(b) ELSE BuildOnce(g, b, i, f[i - 1])]

BuildBody(g, b) ==
    CASE b.tree.overflow -> b.tree
      [] ~b.tree.overflow /\ (Terminal(b.board) \/ b.depth = 0) -> Childless(b)
      [] OTHER -> IF Len(b.tree.nodes) + Len(b.board.next) > b.limit
                    THEN [b.tree EXCEPT !.overflow = TRUE]
                    ELSE BuildTurns(g, b)[Len(b.board.next)]

(* Called for a node that has been made and has no children yet, of a        *)
(* position whose moves are there.                                           *)
Ready(b) ==
    /\ b.index \in Node(b.tree.nodes) /\ b.tree.nodes[b.index + 1].count = 0
    /\ b.tree.nodes[b.index + 1].at = At(b.board, b.depth, b.ply)
    /\ b.board \in Known[b.depth] /\ b.depth <= MaxDepth /\ b.depth + b.ply < INF

GoodNode(s, n) ==
    IsNode(s, n) /\ s[n + 1].at.depth <= MaxDepth /\ s[n + 1].at.depth + s[n + 1].at.ply < INF

(* From the nodes s to the nodes w: what each is made of stays.              *)
Extends(s, w) == Len(s) <= Len(w) /\ \A j \in 1 .. Len(s) : w[j].at = s[j].at

(* What the call adds are good nodes; nothing else changes.                  *)
Grows(s, n, w) ==
    /\ Extends(s, w)
    /\ \A j \in 1 .. Len(s) : j # n + 1 => w[j] = s[j]
    /\ GoodNode(w, n)
    /\ \A j \in Len(s) .. (Len(w) - 1) : GoodNode(w, j)

Builder(g, b) == Ready(b) => g[b].overflow \/ Grows(b.tree.nodes, b.index, g[b].nodes)

LEMMA TreeTyped ==
  ASSUME NEW t \in TreeMade
  PROVE  /\ t.nodes \in Seq(TreeNode) /\ t.overflow \in BOOLEAN /\ Len(t.nodes) \in Nat
         /\ \A j \in 1 .. Len(t.nodes) : t.nodes[j] \in TreeNode
         /\ t = [nodes |-> t.nodes, overflow |-> t.overflow]
  <1>1. t.nodes \in Seq(TreeNode) /\ t.overflow \in BOOLEAN
    BY DEF TreeMade
  <1>2. Len(t.nodes) \in Nat /\ \A j \in 1 .. Len(t.nodes) : t.nodes[j] \in TreeNode
    BY <1>1
  <1>3. t = [nodes |-> t.nodes, overflow |-> t.overflow]
    BY DEF TreeMade
  <1> QED
    BY <1>1, <1>2, <1>3

LEMMA BuildsAre ==
  ASSUME NEW b \in Builds
  PROVE  /\ b.tree \in TreeMade /\ b.index \in Nat /\ b.board \in Position /\ b.depth \in Nat
         /\ b.ply \in Nat /\ b.limit \in Nat
         /\ b.board.next \in Seq(Position) /\ Len(b.board.next) \in Nat
         /\ DOMAIN b.board.next = 1 .. Len(b.board.next)
         /\ \A i \in 1 .. Len(b.board.next) : b.board.next[i] \in Position
  BY Moves DEF Builds

LEMMA BuildTyped ==
  ASSUME NEW u \in TreeMade, NEW n \in Nat, NEW p \in Position, NEW depth \in Nat, NEW ply \in Nat,
         NEW limit \in Nat, NEW b, b = Build(u, n, p, depth, ply, limit)
  PROVE  /\ b \in Builds /\ b.tree = u /\ b.index = n /\ b.board = p /\ b.depth = depth
         /\ b.ply = ply /\ b.limit = limit
  BY DEF Build, Builds

LEMMA NewNodesAre ==
  ASSUME NEW ps \in Seq(Position), NEW depth \in Nat, NEW ply \in Nat, NEW s,
         s = NewNodes(ps, depth, ply)
  PROVE  /\ s \in Seq(TreeNode) /\ Len(s) = Len(ps)
         /\ \A i \in 1 .. Len(ps) : s[i].at = At(ps[i], depth, ply) /\ s[i].count = 0
  <1>1. Len(ps) \in Nat /\ \A i \in 1 .. Len(ps) : ps[i] \in Position
    OBVIOUS
  <1>2. ASSUME NEW i \in 1 .. Len(ps)
        PROVE  [first |-> -1, count |-> 0, leaf |-> 0, at |-> At(ps[i], depth, ply)] \in TreeNode
    <2>1. At(ps[i], depth, ply) \in Searched
      BY <1>1 DEF At, Searched
    <2> QED
      BY <2>1 DEF TreeNode
  <1>3. s \in [1 .. Len(ps) -> TreeNode]
    BY <1>2 DEF NewNodes
  <1>4. s \in Seq(TreeNode) /\ Len(s) = Len(ps)
    BY <1>1, <1>3
  <1>5. ASSUME NEW i \in 1 .. Len(ps)
        PROVE  s[i].at = At(ps[i], depth, ply) /\ s[i].count = 0
    BY DEF NewNodes
  <1> QED
    BY <1>4, <1>5

LEMMA EmptyTreeIs ==
  ASSUME NEW ps \in Seq(Position), NEW depth \in Nat, NEW ply \in Nat, NEW t,
         t = EmptyTree(ps, depth, ply)
  PROVE  /\ t \in TreeMade /\ ~t.overflow /\ Len(t.nodes) = Len(ps)
         /\ \A i \in 1 .. Len(ps) : t.nodes[i].at = At(ps[i], depth, ply) /\ t.nodes[i].count = 0
  <1>1. PICK s : s = NewNodes(ps, depth, ply)
    OBVIOUS
  <1>2. /\ s \in Seq(TreeNode) /\ Len(s) = Len(ps)
        /\ \A i \in 1 .. Len(ps) : s[i].at = At(ps[i], depth, ply) /\ s[i].count = 0
    BY ZenonT(30), <1>1, NewNodesAre
  <1>3. t = [nodes |-> s, overflow |-> FALSE]
    BY <1>1 DEF EmptyTree
  <1> QED
    BY <1>2, <1>3 DEF TreeMade

(* nodes.resize, and the link to the new nodes.                              *)
LEMMA ExpandedIs ==
  ASSUME NEW b \in Builds, b.depth # 0, NEW t, t = Expanded(b)
  PROVE  /\ t \in TreeMade /\ ~t.overflow
         /\ Len(t.nodes) = Len(b.tree.nodes) + Len(b.board.next)
         /\ \A j \in 1 .. Len(b.tree.nodes) : t.nodes[j].at = b.tree.nodes[j].at
         /\ \A j \in 1 .. Len(b.tree.nodes) : j # b.index + 1 => t.nodes[j] = b.tree.nodes[j]
         /\ b.index + 1 \in 1 .. Len(b.tree.nodes) =>
               /\ t.nodes[b.index + 1].first = Len(b.tree.nodes)
               /\ t.nodes[b.index + 1].count = Len(b.board.next)
         /\ \A i \in 1 .. Len(b.board.next) :
               /\ t.nodes[Len(b.tree.nodes) + i].at = At(b.board.next[i], b.depth - 1, b.ply + 1)
               /\ t.nodes[Len(b.tree.nodes) + i].count = 0
  <1> DEFINE s == b.tree.nodes
             n == b.index + 1
             m == Len(b.board.next)
  <1>1. /\ s \in Seq(TreeNode) /\ Len(s) \in Nat /\ n \in Nat /\ m \in Nat
        /\ b.board.next \in Seq(Position) /\ b.depth - 1 \in Nat /\ b.ply + 1 \in Nat
        /\ \A j \in 1 .. Len(s) : s[j] \in TreeNode
    BY BuildsAre, TreeTyped
  <1>2. PICK x : x = NewNodes(b.board.next, b.depth - 1, b.ply + 1)
    OBVIOUS
  <1>3. /\ x \in Seq(TreeNode) /\ Len(x) = m
        /\ \A i \in 1 .. m : /\ x[i].at = At(b.board.next[i], b.depth - 1, b.ply + 1)
                             /\ x[i].count = 0
    BY <1>1, <1>2, NewNodesAre
  <1>4. PICK r : r = [s EXCEPT ![n].first = Len(s), ![n].count = m]
    OBVIOUS
  <1>5. t = [nodes |-> r \o x, overflow |-> FALSE]
    BY <1>2, <1>4 DEF Expanded
  <1> HIDE DEF s, n, m
  <1>6. /\ r \in Seq(TreeNode) /\ Len(r) = Len(s)
        /\ \A j \in 1 .. Len(s) : r[j].at = s[j].at
        /\ \A j \in 1 .. Len(s) : j # n => r[j] = s[j]
        /\ n \in 1 .. Len(s) => r[n].first = Len(s) /\ r[n].count = m
    <2>1. CASE n \in 1 .. Len(s)
      <3>1. s[n] \in TreeNode
        BY <1>1, <2>1
      <3>2. PICK e : e = [s[n] EXCEPT !.first = Len(s), !.count = m]
        OBVIOUS
      <3>3. /\ s[n].first \in Int /\ s[n].count \in Nat /\ s[n].leaf \in Int /\ s[n].at \in Searched
            /\ s[n] = [first |-> s[n].first, count |-> s[n].count, leaf |-> s[n].leaf, at |-> s[n].at]
        BY <3>1 DEF TreeNode
      <3>5. e = [first |-> Len(s), count |-> m, leaf |-> s[n].leaf, at |-> s[n].at]
        BY <3>2, <3>3
      <3>6. /\ e \in TreeNode /\ e.at = s[n].at /\ e.first = Len(s) /\ e.count = m
        BY <1>1, <3>3, <3>5 DEF TreeNode
      <3>4. r = [s EXCEPT ![n] = e]
        BY <1>1, <1>4, <2>1, <3>1, <3>2
      <3> QED
        BY <1>1, <2>1, <3>6, <3>4
    <2>2. CASE n \notin 1 .. Len(s)
      <3>1. r = s
        BY <1>1, <1>4, <2>2
      <3> QED
        BY <1>1, <2>2, <3>1
    <2> QED
      BY <2>1, <2>2
  <1>7. PICK w : w = r \o x
    OBVIOUS
  <1>8. /\ w \in Seq(TreeNode) /\ Len(w) = Len(s) + m
        /\ \A j \in 1 .. Len(s) : w[j] = r[j]
        /\ \A i \in 1 .. m : w[Len(s) + i] = x[i]
    <2>1. r \in Seq(TreeNode) /\ x \in Seq(TreeNode) /\ Len(r) = Len(s) /\ Len(x) = m
      BY <1>3, <1>6
    <2>2. r \o x \in Seq(TreeNode) /\ Len(r \o x) = Len(r) + Len(x)
      BY <2>1
    <2>3. ASSUME NEW j \in 1 .. Len(s) PROVE (r \o x)[j] = r[j]
      BY <2>1
    <2>4. ASSUME NEW i \in 1 .. m PROVE (r \o x)[Len(s) + i] = x[i]
      BY <1>1, <2>1
    <2> QED
      BY <1>7, <2>1, <2>2, <2>3, <2>4
  <1>9. t \in TreeMade /\ ~t.overflow /\ t.nodes = w
    BY <1>5, <1>7, <1>8 DEF TreeMade
  <1>10. \A j \in 1 .. Len(s) : w[j].at = s[j].at /\ (j # n => w[j] = s[j])
    BY <1>6, <1>8
  <1>11. n \in 1 .. Len(s) => w[n].first = Len(s) /\ w[n].count = m
    BY <1>6, <1>8
  <1>12. \A i \in 1 .. m : /\ w[Len(s) + i].at = At(b.board.next[i], b.depth - 1, b.ply + 1)
                           /\ w[Len(s) + i].count = 0
    BY <1>3, <1>8
  <1> QED
    BY <1>8, <1>9, <1>10, <1>11, <1>12 DEF s, n, m

(* A node without children gets its score.                                   *)
LEMMA ScoredIs ==
  ASSUME NEW b \in Builds, NEW t, t = Childless(b)
  PROVE  /\ t \in TreeMade /\ (t.overflow <=> b.tree.overflow)
         /\ Len(t.nodes) = Len(b.tree.nodes)
         /\ \A j \in 1 .. Len(b.tree.nodes) : t.nodes[j].at = b.tree.nodes[j].at
         /\ \A j \in 1 .. Len(b.tree.nodes) : j # b.index + 1 => t.nodes[j] = b.tree.nodes[j]
         /\ b.index + 1 \in 1 .. Len(b.tree.nodes) =>
               /\ t.nodes[b.index + 1].count = b.tree.nodes[b.index + 1].count
               /\ t.nodes[b.index + 1].leaf = StaticScore(b.board, b.ply)
  <1> DEFINE s == b.tree.nodes
             n == b.index + 1
             v == StaticScore(b.board, b.ply)
  <1>1. /\ b.tree \in TreeMade /\ s \in Seq(TreeNode) /\ Len(s) \in Nat /\ n \in Nat /\ v \in Int
        /\ b.tree.overflow \in BOOLEAN /\ b.tree = [nodes |-> s, overflow |-> b.tree.overflow]
        /\ \A j \in 1 .. Len(s) : s[j] \in TreeNode
    BY BuildsAre, TreeTyped, StaticTyped
  <1>2. PICK r : r = [s EXCEPT ![n].leaf = v]
    OBVIOUS
  <1>3. t = [b.tree EXCEPT !.nodes = r]
    BY <1>2 DEF Childless
  <1>4. t = [nodes |-> r, overflow |-> b.tree.overflow]
    BY <1>1, <1>3 DEF TreeMade
  <1> HIDE DEF s, n, v
  <1>5. /\ r \in Seq(TreeNode) /\ Len(r) = Len(s)
        /\ \A j \in 1 .. Len(s) : r[j].at = s[j].at
        /\ \A j \in 1 .. Len(s) : j # n => r[j] = s[j]
        /\ n \in 1 .. Len(s) => r[n].count = s[n].count /\ r[n].leaf = v
    <2>1. CASE n \in 1 .. Len(s)
      <3>1. s[n] \in TreeNode
        BY <1>1, <2>1
      <3>2. PICK e : e = [s[n] EXCEPT !.leaf = v]
        OBVIOUS
      <3>3. /\ s[n].first \in Int /\ s[n].count \in Nat /\ s[n].leaf \in Int /\ s[n].at \in Searched
            /\ s[n] = [first |-> s[n].first, count |-> s[n].count, leaf |-> s[n].leaf, at |-> s[n].at]
        BY <3>1 DEF TreeNode
      <3>4. r = [s EXCEPT ![n] = e]
        BY <1>1, <1>2, <2>1, <3>1, <3>2
      <3>5. e = [first |-> s[n].first, count |-> s[n].count, leaf |-> v, at |-> s[n].at]
        BY <3>2, <3>3
      <3>6. /\ e \in TreeNode /\ e.at = s[n].at /\ e.count = s[n].count /\ e.leaf = v
        BY <1>1, <3>3, <3>5 DEF TreeNode
      <3> QED
        BY <1>1, <2>1, <3>4, <3>6
    <2>2. CASE n \notin 1 .. Len(s)
      <3>1. r = s
        BY <1>1, <1>2, <2>2
      <3> QED
        BY <1>1, <2>2, <3>1
    <2> QED
      BY <2>1, <2>2
  <1>6. t \in TreeMade /\ (t.overflow <=> b.tree.overflow) /\ t.nodes = r
    BY <1>1, <1>4, <1>5 DEF TreeMade
  <1> QED
    BY <1>5, <1>6 DEF s, n, v

LEMMA BuildOnceIs ==
  ASSUME NEW g, NEW b, NEW i, NEW t
  PROVE  BuildOnce(g, b, i, t) = g[BuildOf(b, i, t)]
  BY DEF BuildOnce, With

LEMMA BuildOfIs ==
  ASSUME NEW b \in Builds, b.depth # 0, NEW i \in 1 .. Len(b.board.next), NEW t \in TreeMade,
         NEW c, c = BuildOf(b, i, t)
  PROVE  /\ c \in Builds /\ c.depth = b.depth - 1 /\ c.depth < b.depth
         /\ c.tree = t /\ c.index = Len(b.tree.nodes) + i - 1
         /\ c.board = b.board.next[i] /\ c.ply = b.ply + 1
  <1>1. /\ Len(b.tree.nodes) \in Nat /\ b.board.next[i] \in Position /\ b.depth \in Nat
        /\ b.ply \in Nat /\ b.limit \in Nat /\ Len(b.board.next) \in Nat
    BY BuildsAre, TreeTyped
  <1>2. PICK l \in Nat, d \in Nat, y \in Nat :
           l = Len(b.tree.nodes) + i - 1 /\ d = b.depth - 1 /\ y = b.ply + 1
    <2>1. \A a \in Nat, m \in Nat : \A j \in 1 .. m : a + j - 1 \in Nat
      OBVIOUS
    <2>2. Len(b.tree.nodes) + i - 1 \in Nat
      BY <1>1, <2>1
    <2>3. b.depth - 1 \in Nat /\ b.ply + 1 \in Nat
      BY <1>1
    <2> QED
      BY <2>2, <2>3
  <1>3. PICK p \in Position, k \in Nat : p = b.board.next[i] /\ k = b.limit
    BY <1>1
  <1>4. /\ c \in Builds /\ c.tree = t /\ c.index = l /\ c.board = p /\ c.depth = d /\ c.ply = y
    <2>1. c = Build(t, l, p, d, y, k)
      BY <1>2, <1>3 DEF BuildOf
    <2> QED
      BY <2>1 DEF Build, Builds
  <1>5. d < b.depth
    BY <1>1, <1>2
  <1> QED
    BY <1>2, <1>3, <1>4, <1>5

MadeBelow(g, b) == b.depth # 0 => \A m \in Builds : m.depth < b.depth => g[m] \in TreeMade

LEMMA BuildStepTyped ==
  ASSUME NEW g, NEW b \in Builds, b.depth # 0, MadeBelow(g, b),
         NEW i \in 1 .. Len(b.board.next), NEW t \in TreeMade
  PROVE  g[BuildOf(b, i, t)] \in TreeMade
  BY BuildOfIs DEF MadeBelow

LEMMA BuildTurnsAre ==
  ASSUME NEW g, NEW b \in Builds, b.depth # 0, MadeBelow(g, b)
  PROVE  /\ Len(b.board.next) \in Nat
         /\ BuildTurns(g, b) \in [0 .. Len(b.board.next) -> TreeMade]
         /\ BuildTurns(g, b)[0] = Expanded(b)
         /\ \A i \in 1 .. Len(b.board.next) :
               BuildTurns(g, b)[i] = g[BuildOf(b, i, BuildTurns(g, b)[i - 1])]
  <1> DEFINE n == Len(b.board.next)
             step == [i \in 1 .. n |-> [t \in TreeMade |-> g[BuildOf(b, i, t)]]]
  <1>1. n \in Nat
    BY BuildsAre
  <1>2. Expanded(b) \in TreeMade
    BY ExpandedIs
  <1>3. step \in [1 .. n -> [TreeMade -> TreeMade]]
    BY BuildStepTyped
  <1>4. PICK f \in [0 .. n -> TreeMade] :
           f[0] = Expanded(b) /\ \A i \in 1 .. n : f[i] = step[i][f[i - 1]]
    <2> HIDE DEF step, n
    <2>1. CanBeMade(n, TreeMade, Expanded(b), step)
      BY <1>1, <1>2, <1>3, Steps
    <2> QED
      BY <2>1 DEF CanBeMade
  <1>5. ASSUME NEW i \in 1 .. n PROVE f[i] = BuildOnce(g, b, i, f[i - 1])
    <2>1. f[i - 1] \in TreeMade
      BY <1>1
    <2> QED
      BY <1>4, <2>1, BuildOnceIs
  <1>6. f = [i \in 0 .. n |-> IF i = 0 THEN Expanded(b) ELSE BuildOnce(g, b, i, f[i - 1])]
    <2>1. \A i \in 0 .. n : i = 0 \/ i \in 1 .. n
      BY <1>1
    <2> HIDE DEF step, n
    <2> QED
      BY <1>4, <1>5, <2>1
  <1> DEFINE w == BuildTurns(g, b)
  <1>7. w = [i \in 0 .. n |-> IF i = 0 THEN Expanded(b) ELSE BuildOnce(g, b, i, w[i - 1])]
    BY <1>6 DEF BuildTurns
  <1> HIDE DEF w, step, n
  <1>8. w[0] = Expanded(b) /\ \A i \in 1 .. n : w[i] = g[BuildOf(b, i, w[i - 1])]
    <2>1. 0 \in 0 .. n /\ \A i \in 1 .. n : i \in 0 .. n /\ i # 0
      BY <1>1
    <2>2. w[0] = Expanded(b)
      BY <1>7, <2>1
    <2>3. \A i \in 1 .. n : w[i] = BuildOnce(g, b, i, w[i - 1])
      BY <1>7, <2>1
    <2> QED
      BY <2>2, <2>3, BuildOnceIs
  <1>9. \A i \in 0 .. n : w[i] \in TreeMade
    <2> DEFINE Bad == {i \in 0 .. n : w[i] \notin TreeMade}
    <2>1. SUFFICES ASSUME Bad # {} PROVE FALSE
      OBVIOUS
    <2>2. PICK i \in Bad : \A e \in Bad : i <= e
      <3>1. Bad \in SUBSET Nat
        BY <1>1
      <3> HIDE DEF Bad
      <3> QED
        BY <2>1, <3>1, Least
    <2>3. i \in 1 .. n
      BY <1>1, <1>2, <1>8, <2>2
    <2>4. i - 1 \in 0 .. n /\ ~(i <= i - 1)
      BY <1>1, <2>3
    <2>5. w[i - 1] \in TreeMade
      BY <2>2, <2>4
    <2>6. w[i] = g[BuildOf(b, i, w[i - 1])]
      BY <1>8, <2>3
    <2> QED
      BY <2>2, <2>3, <2>5, <2>6, BuildStepTyped DEF n
  <1>10. w \in [0 .. n -> TreeMade]
    BY <1>7, <1>9
  <1> QED
    BY <1>1, <1>8, <1>10 DEF w, n

(* Which of the cases of build_node is taken.                                *)
LEMMA BuildBodyIs ==
  ASSUME NEW g, NEW b \in Builds
  PROVE  /\ b.tree.overflow => BuildBody(g, b) = b.tree
         /\ ~b.tree.overflow /\ (Terminal(b.board) \/ b.depth = 0) => BuildBody(g, b) = Childless(b)
         /\ ~b.tree.overflow /\ ~(Terminal(b.board) \/ b.depth = 0) =>
               \/ BuildBody(g, b) = [b.tree EXCEPT !.overflow = TRUE]
               \/ BuildBody(g, b) = BuildTurns(g, b)[Len(b.board.next)]
  <1>1. CASE b.tree.overflow
    BY <1>1 DEF BuildBody
  <1>2. CASE ~b.tree.overflow /\ (Terminal(b.board) \/ b.depth = 0)
    BY <1>2 DEF BuildBody
  <1>3. CASE ~b.tree.overflow /\ ~(Terminal(b.board) \/ b.depth = 0)
    BY <1>3 DEF BuildBody
  <1> QED
    BY <1>1, <1>2, <1>3

LEMMA Overflown ==
  ASSUME NEW t \in TreeMade, NEW u, u = [t EXCEPT !.overflow = TRUE]
  PROVE  u \in TreeMade /\ u.overflow
  BY DEF TreeMade

LEMMA BuildBodyTyped ==
  ASSUME NEW g, NEW b \in Builds, MadeBelow(g, b)
  PROVE  BuildBody(g, b) \in TreeMade
  <1>1. b.tree \in TreeMade /\ Childless(b) \in TreeMade
    BY BuildsAre, ScoredIs
  <1>2. [b.tree EXCEPT !.overflow = TRUE] \in TreeMade
    BY <1>1, Overflown
  <1>3. CASE Terminal(b.board) \/ b.depth = 0
    BY <1>1, <1>3, BuildBodyIs
  <1>4. CASE ~(Terminal(b.board) \/ b.depth = 0)
    <2>1. BuildTurns(g, b)[Len(b.board.next)] \in TreeMade
      BY <1>4, BuildTurnsAre
    <2> QED
      BY <1>1, <1>2, <1>4, <2>1, BuildBodyIs
  <1> QED
    BY <1>3, <1>4

LEMMA BuildBodyLocal ==
  ASSUME NEW g, NEW h, NEW b \in Builds, MadeBelow(g, b), MadeBelow(h, b),
         \A m \in Builds : m.depth < b.depth => g[m] = h[m]
  PROVE  BuildBody(g, b) = BuildBody(h, b)
  <1>1. CASE Terminal(b.board) \/ b.depth = 0
    BY <1>1 DEF BuildBody
  <1>2. CASE ~(Terminal(b.board) \/ b.depth = 0)
    <2> DEFINE n == Len(b.board.next)
               s == BuildTurns(g, b)
               t == BuildTurns(h, b)
               Bad == {i \in 0 .. n : s[i] # t[i]}
    <2>1. /\ n \in Nat /\ s[0] = Expanded(b) /\ t[0] = Expanded(b)
          /\ s \in [0 .. n -> TreeMade] /\ t \in [0 .. n -> TreeMade]
          /\ \A i \in 1 .. n : s[i] = g[BuildOf(b, i, s[i - 1])]
          /\ \A i \in 1 .. n : t[i] = h[BuildOf(b, i, t[i - 1])]
      BY <1>2, BuildTurnsAre
    <2>2. Bad = {}
      <3> HIDE DEF s, t
      <3>1. SUFFICES ASSUME Bad # {} PROVE FALSE
        OBVIOUS
      <3>2. PICK i \in Bad : \A e \in Bad : i <= e
        <4>1. Bad \in SUBSET Nat
          BY <2>1
        <4> HIDE DEF Bad
        <4> QED
          BY <3>1, <4>1, Least
      <3>3. i \in 1 .. n
        BY <2>1, <3>2
      <3>4. i - 1 \in 0 .. n /\ ~(i <= i - 1)
        BY <2>1, <3>3
      <3>5. s[i - 1] = t[i - 1] /\ s[i - 1] \in TreeMade
        BY <2>1, <3>2, <3>4
      <3>6. g[BuildOf(b, i, s[i - 1])] = h[BuildOf(b, i, s[i - 1])]
        BY <1>2, <3>3, <3>5, BuildOfIs
      <3>7. s[i] = g[BuildOf(b, i, s[i - 1])] /\ t[i] = h[BuildOf(b, i, s[i - 1])]
        BY <2>1, <3>3, <3>5
      <3>8. s[i] = t[i]
        BY <3>6, <3>7
      <3> QED
        BY <3>2, <3>8
    <2>3. s[n] = t[n]
      <3> HIDE DEF s, t, n
      <3> QED
        BY <2>1, <2>2
    <2> QED
      BY <1>2, <2>3 DEF BuildBody
  <1> QED
    BY <1>1, <1>2

(* build_node is what its definition says.                                   *)
LEMMA BuildNodeIs ==
  /\ build_node = [b \in Builds |-> BuildBody(build_node, b)]
  /\ \A b \in Builds : build_node[b] \in TreeMade
  <1> DEFINE rank == [b \in Builds |-> b.depth]
             T == [g \in [Builds -> TreeMade] |-> [b \in Builds |-> BuildBody(g, b)]]
  <1>1. rank \in [Builds -> Nat]
    BY DEF Builds
  <1>2. \A g \in [Builds -> TreeMade], b \in Builds : MadeBelow(g, b)
    BY DEF MadeBelow
  <1>3. T \in [[Builds -> TreeMade] -> [Builds -> TreeMade]]
    <2>1. ASSUME NEW g \in [Builds -> TreeMade], NEW b \in Builds PROVE BuildBody(g, b) \in TreeMade
      BY <1>2, BuildBodyTyped
    <2> QED
      BY <2>1
  <1>4. \E g \in [Builds -> TreeMade] : g = T[g]
    <2>1. ASSUME NEW g \in [Builds -> TreeMade], NEW h \in [Builds -> TreeMade], NEW b \in Builds,
                 \A m \in Builds : rank[m] < rank[b] => g[m] = h[m]
          PROVE  T[g][b] = T[h][b]
      <3>1. BuildBody(g, b) = BuildBody(h, b)
        BY <1>2, <2>1, BuildBodyLocal
      <3> QED
        BY <3>1
    <2> HIDE DEF T, rank
    <2>2. Contracts(Builds, TreeMade, rank, T)
      BY <1>1, <1>3, <2>1 DEF Contracts
    <2>3. [nodes |-> <<>>, overflow |-> FALSE] \in TreeMade
      BY DEF TreeMade
    <2> QED
      BY <2>2, <2>3, FixedPoint
  <1>5. \E g : g = [b \in Builds |-> BuildBody(g, b)]
    BY <1>4
  <1>6. build_node = CHOOSE g : g = [b \in Builds |-> BuildBody(g, b)]
    BY DEF build_node, BuildBody, BuildTurns, BuildOnce, BuildOf
  <1>7. build_node = [b \in Builds |-> BuildBody(build_node, b)]
    BY <1>5, <1>6
  <1>8. \A b \in Builds : build_node[b] \in TreeMade
    <2> DEFINE Bad == {d \in Nat : \E b \in Builds : b.depth = d /\ build_node[b] \notin TreeMade}
    <2>1. SUFFICES ASSUME Bad # {} PROVE FALSE
      BY DEF Builds
    <2>2. PICK d \in Bad : \A e \in Bad : d <= e
      <3>1. Bad \in SUBSET Nat
        OBVIOUS
      <3> HIDE DEF Bad
      <3> QED
        BY <2>1, <3>1, Least
    <2>3. PICK b \in Builds : b.depth = d /\ build_node[b] \notin TreeMade
      BY <2>2
    <2>4. MadeBelow(build_node, b)
      BY <2>2, <2>3 DEF MadeBelow, Builds
    <2>5. build_node[b] = BuildBody(build_node, b)
      BY <1>7
    <2> QED
      BY <2>3, <2>4, <2>5, BuildBodyTyped
  <1> QED
    BY <1>7, <1>8

-----------------------------------------------------------------------------
(* What build_node makes is a tree.                                          *)
LEMMA NodesAre ==
  ASSUME NEW s \in Seq(TreeNode), NEW n \in Node(s)
  PROVE  /\ n \in Nat /\ n + 1 \in 1 .. Len(s) /\ s[n + 1] \in TreeNode
         /\ s[n + 1].at \in Searched /\ s[n + 1].first \in Int /\ s[n + 1].count \in Nat
         /\ s[n + 1].at.board \in Position /\ s[n + 1].at.board.next \in Seq(Position)
         /\ Len(s[n + 1].at.board.next) \in Nat
  <1>1. n \in Nat /\ n + 1 \in 1 .. Len(s) /\ s[n + 1] \in TreeNode
    BY DEF Node
  <1>2. s[n + 1].at \in Searched /\ s[n + 1].first \in Int /\ s[n + 1].count \in Nat
    BY <1>1 DEF TreeNode
  <1>3. s[n + 1].at.board \in Position
    BY <1>2 DEF Searched
  <1> QED
    BY <1>1, <1>2, <1>3, Moves

LEMMA GoodStays ==
  ASSUME NEW s \in Seq(TreeNode), NEW w \in Seq(TreeNode), Extends(s, w),
         NEW n \in Node(s), w[n + 1] = s[n + 1], GoodNode(s, n)
  PROVE  GoodNode(w, n)
  <1>1. PICK e \in TreeNode, p \in Position : e = s[n + 1] /\ p = e.at.board
    BY NodesAre
  <1>2. /\ e.first \in Int /\ Len(p.next) \in Nat
        /\ Len(s) \in Nat /\ Len(w) \in Nat /\ Len(s) <= Len(w)
    <2>1. e.first \in Int
      BY DEF TreeNode
    <2>2. Len(p.next) \in Nat
      BY Moves
    <2>3. Len(s) \in Nat /\ Len(w) \in Nat
      OBVIOUS
    <2>4. Len(s) <= Len(w)
      BY DEF Extends
    <2> QED
      BY <2>1, <2>2, <2>3, <2>4
  <1>3. CASE Terminal(p) \/ e.at.depth = 0
    BY <1>1, <1>3 DEF GoodNode, IsNode
  <1>4. CASE ~(Terminal(p) \/ e.at.depth = 0)
    <2>1. /\ p.next # <<>> /\ e.count = Len(p.next)
          /\ e.at.depth <= MaxDepth /\ e.at.depth + e.at.ply < INF
      BY <1>1, <1>4 DEF GoodNode, IsNode
    <2>2. ASSUME NEW i \in 1 .. Len(p.next)
          PROVE  /\ e.first + i - 1 \in Node(w)
                 /\ w[e.first + i].at = At(p.next[i], e.at.depth - 1, e.at.ply + 1)
      <3>1. /\ e.first + i - 1 \in Node(s)
            /\ s[e.first + i].at = At(p.next[i], e.at.depth - 1, e.at.ply + 1)
        BY <1>1, <1>4 DEF GoodNode, IsNode
      <3>2. e.first + i \in 1 .. Len(s) /\ e.first + i - 1 \in Node(w)
        BY <1>2, <3>1 DEF Node
      <3>3. w[e.first + i].at = s[e.first + i].at
        BY <3>2 DEF Extends
      <3> QED
        BY <3>1, <3>2, <3>3
    <2>3. w[n + 1] = e /\ e.at.board = p
      BY <1>1
    <2> QED
      BY <1>4, <2>1, <2>2, <2>3 DEF GoodNode, IsNode
  <1> QED
    BY <1>3, <1>4

(* The m nodes from number o on are made, and empty.                         *)
Blanks(s, o, ps, depth, ply) ==
    /\ Len(s) = o + Len(ps)
    /\ \A i \in 1 .. Len(ps) : s[o + i].count = 0 /\ s[o + i].at = At(ps[i], depth, ply)

(* After i turns of the loop over them: the first i are filled in, and all   *)
(* that was added is good.                                                   *)
Filled(s, o, i, w) ==
    /\ Extends(s, w)
    /\ \A j \in 1 .. Len(s) : j \in (o + 1) .. (o + i) \/ w[j] = s[j]
    /\ \A j \in o .. (o + i - 1) : GoodNode(w, j)
    /\ \A j \in Len(s) .. (Len(w) - 1) : GoodNode(w, j)

LEMMA FilledNone ==
  ASSUME NEW s \in Seq(TreeNode), NEW o \in Nat
  PROVE  Filled(s, o, 0, s)
  BY DEF Filled, Extends

LEMMA FilledOneMore ==
  ASSUME NEW s \in Seq(TreeNode), NEW u \in Seq(TreeNode), NEW w \in Seq(TreeNode),
         NEW o \in Nat, NEW m \in Nat, NEW i \in 1 .. m, Len(s) = o + m,
         Filled(s, o, i - 1, u), Grows(u, o + i - 1, w)
  PROVE  Filled(s, o, i, w)
  <1>1. Len(s) \in Nat /\ Len(u) \in Nat /\ Len(w) \in Nat /\ Len(s) <= Len(u) /\ Len(u) <= Len(w)
    BY DEF Filled, Grows, Extends
  <1>2. Extends(u, w) /\ GoodNode(w, o + i - 1)
    BY DEF Grows
  <1>3. Extends(s, w)
    BY <1>1 DEF Filled, Grows, Extends
  <1>4. ASSUME NEW j \in 1 .. Len(s), j \notin (o + 1) .. (o + i)
        PROVE  w[j] = s[j]
    <2>1. j \in 1 .. Len(u) /\ j # o + i - 1 + 1 /\ j \notin (o + 1) .. (o + (i - 1))
      BY <1>1, <1>4
    <2>2. w[j] = u[j]
      BY <2>1 DEF Grows
    <2>3. u[j] = s[j]
      BY <2>1 DEF Filled
    <2> QED
      BY <2>2, <2>3
  <1>5. ASSUME NEW j \in Node(u), j # o + i - 1, GoodNode(u, j)
        PROVE  GoodNode(w, j)
    <2>1. j \in Nat /\ j + 1 \in 1 .. Len(u) /\ j + 1 # o + i - 1 + 1
      BY <1>5 DEF Node
    <2>2. w[j + 1] = u[j + 1]
      BY <2>1 DEF Grows
    <2> QED
      BY <1>2, <1>5, <2>2, GoodStays
  <1>6. ASSUME NEW j \in o .. (o + i - 1)
        PROVE  GoodNode(w, j)
    <2>1. CASE j = o + i - 1
      BY <1>2, <2>1
    <2>2. CASE j # o + i - 1
      <3>1. j \in o .. (o + (i - 1) - 1) /\ j \in Node(u)
        BY <1>1, <2>2 DEF Node
      <3>2. GoodNode(u, j)
        BY <3>1 DEF Filled
      <3> QED
        BY <1>5, <2>2, <3>1, <3>2
    <2> QED
      BY <2>1, <2>2
  <1>7. ASSUME NEW j \in Len(s) .. (Len(w) - 1)
        PROVE  GoodNode(w, j)
    <2>1. CASE j <= Len(u) - 1
      <3>1. j \in Len(s) .. (Len(u) - 1) /\ j \in Node(u) /\ j # o + i - 1
        BY <1>1, <2>1 DEF Node
      <3>2. GoodNode(u, j)
        BY <3>1 DEF Filled
      <3> QED
        BY <1>5, <3>1, <3>2
    <2>2. CASE ~(j <= Len(u) - 1)
      <3>1. j \in Len(u) .. (Len(w) - 1)
        BY <1>1, <2>2
      <3> QED
        BY <3>1 DEF Grows
    <2> QED
      BY <2>1, <2>2
  <1> QED
    BY <1>3, <1>4, <1>6, <1>7 DEF Filled

Buildable(ps, depth, ply) ==
    depth <= MaxDepth /\ depth + ply < INF /\ \A i \in 1 .. Len(ps) : ps[i] \in Known[depth]

BuildsWell(depth) == \A c \in Builds : c.depth = depth => Builder(build_node, c)

(* The loop that calls build_node for the nodes from number o on.            *)
FillsIn(f, o, ps, depth, ply, limit) ==
    /\ f \in [0 .. Len(ps) -> TreeMade]
    /\ \A i \in 1 .. Len(ps) :
          f[i] = build_node[Build(f[i - 1], o + i - 1, ps[i], depth, ply, limit)]

(* An exception goes through all calls.                                      *)
LEMMA OverflowStays ==
  ASSUME NEW c \in Builds, c.tree.overflow
  PROVE  build_node[c].overflow
  <1>1. build_node[c] = BuildBody(build_node, c)
    BY BuildNodeIs
  <1> QED
    BY <1>1, BuildBodyIs

LEMMA FillOne ==
  ASSUME NEW s \in Seq(TreeNode), NEW o \in Nat, NEW ps \in Seq(Position), NEW depth \in Nat,
         NEW ply \in Nat, NEW limit \in Nat, Blanks(s, o, ps, depth, ply),
         Buildable(ps, depth, ply), BuildsWell(depth),
         NEW i \in 1 .. Len(ps), NEW u \in TreeMade, u.overflow \/ Filled(s, o, i - 1, u.nodes),
         NEW t, t = build_node[Build(u, o + i - 1, ps[i], depth, ply, limit)]
  PROVE  t.overflow \/ Filled(s, o, i, t.nodes)
  <1>1. /\ Len(ps) \in Nat /\ o + i - 1 \in Nat /\ ps[i] \in Position
        /\ u.nodes \in Seq(TreeNode) /\ Len(s) = o + Len(ps)
    BY TreeTyped DEF Blanks
  <1>2. PICK n \in Nat, p \in Position : n = o + i - 1 /\ p = ps[i]
    BY <1>1
  <1>3. PICK c \in Builds : c = Build(u, n, p, depth, ply, limit)
    BY BuildTyped
  <1>4. c.tree = u /\ c.index = n /\ c.board = p /\ c.depth = depth /\ c.ply = ply
    BY <1>3 DEF Build
  <1>5. t = build_node[c] /\ t \in TreeMade
    BY <1>2, <1>3, BuildNodeIs
  <1>6. t.nodes \in Seq(TreeNode)
    BY <1>5, TreeTyped
  <1>7. CASE u.overflow
    BY <1>4, <1>5, <1>7, OverflowStays
  <1>8. CASE ~u.overflow
    <2>1. Filled(s, o, i - 1, u.nodes)
      BY <1>8
    <2>2. n + 1 \in 1 .. Len(s) /\ n + 1 = o + i /\ n + 1 \notin (o + 1) .. (o + (i - 1))
      BY <1>1, <1>2
    <2>3. u.nodes[n + 1] = s[o + i]
      BY <2>1, <2>2 DEF Filled
    <2>4. n \in Node(u.nodes)
      <3>1. Len(u.nodes) \in Nat /\ Len(s) <= Len(u.nodes) /\ Len(s) \in Nat
        BY <1>1, <2>1 DEF Filled, Extends
      <3> QED
        BY <2>2, <3>1 DEF Node
    <2>5. s[o + i].count = 0 /\ s[o + i].at = At(p, depth, ply)
      BY <1>2 DEF Blanks
    <2>6. p \in Known[depth] /\ depth <= MaxDepth /\ depth + ply < INF
      BY <1>2 DEF Buildable
    <2>7. Ready(c)
      BY <1>4, <2>3, <2>4, <2>5, <2>6 DEF Ready
    <2>8. t.overflow \/ Grows(u.nodes, n, t.nodes)
      BY <1>4, <1>5, <2>7 DEF BuildsWell, Builder
    <2>9. Grows(u.nodes, n, t.nodes) => Filled(s, o, i, t.nodes)
      <3>1. SUFFICES ASSUME Grows(u.nodes, o + i - 1, t.nodes) PROVE Filled(s, o, i, t.nodes)
        BY <1>2
      <3> QED
        BY <1>1, <1>6, <2>1, <3>1, FilledOneMore
    <2> QED
      BY <2>8, <2>9
  <1> QED
    BY <1>7, <1>8

LEMMA AllFilled ==
  ASSUME NEW s \in Seq(TreeNode), NEW o \in Nat, NEW ps \in Seq(Position), NEW depth \in Nat,
         NEW ply \in Nat, NEW limit \in Nat, Blanks(s, o, ps, depth, ply),
         Buildable(ps, depth, ply), BuildsWell(depth),
         NEW f, FillsIn(f, o, ps, depth, ply, limit), f[0].nodes = s
  PROVE  f[Len(ps)].overflow \/ Filled(s, o, Len(ps), f[Len(ps)].nodes)
  <1> DEFINE m == Len(ps)
             Bad == {i \in 0 .. m : ~(f[i].overflow \/ Filled(s, o, i, f[i].nodes))}
  <1>1. /\ m \in Nat /\ f \in [0 .. m -> TreeMade]
        /\ \A i \in 1 .. m : f[i] = build_node[Build(f[i - 1], o + i - 1, ps[i], depth, ply, limit)]
    BY DEF FillsIn
  <1>2. SUFFICES ASSUME Bad # {} PROVE FALSE
    <2>1. m \in 0 .. m
      BY <1>1
    <2> QED
      BY <2>1
  <1>3. PICK i \in Bad : \A e \in Bad : i <= e
    <2>1. Bad \in SUBSET Nat
      BY <1>1
    <2> HIDE DEF Bad
    <2> QED
      BY <1>2, <2>1, Least
  <1>4. i # 0
    BY <1>3, FilledNone
  <1>5. i \in 1 .. m
    BY <1>1, <1>3, <1>4
  <1>6. i - 1 \in 0 .. m /\ ~(i <= i - 1)
    BY <1>1, <1>5
  <1>7. f[i - 1] \in TreeMade /\ (f[i - 1].overflow \/ Filled(s, o, i - 1, f[i - 1].nodes))
    BY <1>1, <1>3, <1>6
  <1>8. f[i] = build_node[Build(f[i - 1], o + i - 1, ps[i], depth, ply, limit)]
    BY <1>1, <1>5
  <1>9. f[i].overflow \/ Filled(s, o, i, f[i].nodes)
    BY <1>5, <1>7, <1>8, FillOne
  <1> QED
    BY <1>3, <1>9

(* A node whose moves have all been made is good.                            *)
LEMMA ParentIsGood ==
  ASSUME NEW b \in Builds, Ready(b), ~(Terminal(b.board) \/ b.depth = 0),
         NEW s \in Seq(TreeNode), s = Expanded(b).nodes, NEW w \in Seq(TreeNode),
         Filled(s, Len(b.tree.nodes), Len(b.board.next), w)
  PROVE  Grows(b.tree.nodes, b.index, w)
  <1> DEFINE o == Len(b.tree.nodes)
             m == Len(b.board.next)
             n == b.index
             v == b.tree.nodes
  <1>1. /\ o \in Nat /\ m \in Nat /\ n \in Nat /\ b.depth \in Nat /\ v \in Seq(TreeNode)
    BY BuildsAre, TreeTyped
  <1>2. /\ n + 1 \in 1 .. o /\ v[n + 1].at = At(b.board, b.depth, b.ply)
        /\ b.board \in Known[b.depth] /\ b.depth <= MaxDepth /\ b.depth + b.ply < INF
    BY <1>1 DEF Ready, Node
  <1>3. /\ Len(s) = o + m
        /\ \A j \in 1 .. o : s[j].at = v[j].at /\ (j # n + 1 => s[j] = v[j])
        /\ s[n + 1].first = o /\ s[n + 1].count = m
        /\ \A i \in 1 .. m : s[o + i].at = At(b.board.next[i], b.depth - 1, b.ply + 1)
    BY <1>2, ExpandedIs
  <1>0. Filled(s, o, m, w) /\ Len(v) = o
    OBVIOUS
  <1> HIDE DEF o, m, n, v
  <1>4. Len(w) \in Nat /\ o + m <= Len(w) /\ \A j \in 1 .. (o + m) : w[j].at = s[j].at
    BY <1>0, <1>3 DEF Filled, Extends
  <1>5. ASSUME NEW j \in 1 .. o PROVE w[j] = s[j]
    <2>1. j \in 1 .. Len(s) /\ j \notin (o + 1) .. (o + m)
      BY <1>1, <1>3
    <2> QED
      BY <1>0, <2>1 DEF Filled
  <1>6. Extends(v, w)
    <2>1. Len(v) <= Len(w)
      BY <1>0, <1>1, <1>4
    <2>2. \A j \in 1 .. Len(v) : w[j].at = v[j].at
      BY <1>0, <1>3, <1>5
    <2> QED
      BY <2>1, <2>2 DEF Extends
  <1>7. \A j \in 1 .. Len(v) : j # n + 1 => w[j] = v[j]
    BY <1>0, <1>3, <1>5
  <1>8. \A j \in Len(v) .. (Len(w) - 1) : GoodNode(w, j)
    <2>1. SUFFICES ASSUME NEW j \in o .. (Len(w) - 1) PROVE GoodNode(w, j)
      BY <1>0
    <2>2. CASE j <= o + m - 1
      <3>1. j \in o .. (o + m - 1)
        BY <1>1, <2>2
      <3> QED
        BY <1>0, <3>1 DEF Filled
    <2>3. CASE ~(j <= o + m - 1)
      <3>1. j \in Len(s) .. (Len(w) - 1)
        BY <1>1, <1>3, <1>4, <2>3
      <3> QED
        BY <1>0, <3>1 DEF Filled
    <2> QED
      BY <2>2, <2>3
  <1>9. GoodNode(w, n)
    <2>1. w[n + 1] = s[n + 1] /\ s[n + 1].at = At(b.board, b.depth, b.ply)
      BY <1>2, <1>3, <1>5
    <2>2. /\ At(b.board, b.depth, b.ply).board = b.board /\ At(b.board, b.depth, b.ply).depth = b.depth
          /\ At(b.board, b.depth, b.ply).ply = b.ply
      BY DEF At
    <2>3. b.board.next # <<>>
      <3>1. b.board \in Known[b.depth] /\ b.depth # 0
        BY <1>2
      <3> QED
        BY <1>1, <3>1, KnownIs DEF KnownBody
    <2>4. ASSUME NEW i \in 1 .. m
          PROVE  /\ o + i - 1 \in Node(w)
                 /\ w[o + i].at = At(b.board.next[i], b.depth - 1, b.ply + 1)
      <3>1. o + i - 1 \in 0 .. (Len(w) - 1) /\ o + i \in 1 .. (o + m)
        BY <1>1, <1>4
      <3>2. w[o + i].at = s[o + i].at
        BY <1>4, <3>1
      <3> QED
        BY <1>3, <3>1, <3>2 DEF Node
    <2>5. IsNode(w, n)
      BY <1>2, <1>3, <2>1, <2>2, <2>3, <2>4 DEF IsNode, m
    <2> QED
      BY <1>2, <2>1, <2>2, <2>5 DEF GoodNode
  <1> QED
    BY <1>6, <1>7, <1>8, <1>9 DEF Grows, n, v

LEMMA LeafIsGood ==
  ASSUME NEW b \in Builds, Ready(b), Terminal(b.board) \/ b.depth = 0,
         NEW t, t = Childless(b)
  PROVE  Grows(b.tree.nodes, b.index, t.nodes)
  <1> DEFINE o == Len(b.tree.nodes)
             n == b.index
             v == b.tree.nodes
             w == t.nodes
  <1>1. o \in Nat /\ n \in Nat /\ Len(v) = o
    BY BuildsAre, TreeTyped
  <1>2. /\ n + 1 \in 1 .. o /\ v[n + 1].at = At(b.board, b.depth, b.ply) /\ v[n + 1].count = 0
        /\ b.depth <= MaxDepth /\ b.depth + b.ply < INF
    BY <1>1 DEF Ready, Node
  <1>3. /\ Len(w) = o /\ \A j \in 1 .. o : w[j].at = v[j].at /\ (j # n + 1 => w[j] = v[j])
        /\ w[n + 1].count = v[n + 1].count /\ w[n + 1].leaf = StaticScore(b.board, b.ply)
    BY <1>2, ScoredIs
  <1> HIDE DEF o, n, v, w
  <1>4. Extends(v, w) /\ (\A j \in 1 .. Len(v) : j # n + 1 => w[j] = v[j])
    BY <1>1, <1>3 DEF Extends
  <1>5. \A j \in Len(v) .. (Len(w) - 1) : FALSE
    BY <1>1, <1>3
  <1>6. GoodNode(w, n)
    <2>1. w[n + 1].at = At(b.board, b.depth, b.ply) /\ w[n + 1].count = 0
      BY <1>2, <1>3
    <2>2. /\ At(b.board, b.depth, b.ply).board = b.board /\ At(b.board, b.depth, b.ply).depth = b.depth
          /\ At(b.board, b.depth, b.ply).ply = b.ply
      BY DEF At
    <2>3. IsNode(w, n)
      BY <1>3, <2>1, <2>2 DEF IsNode
    <2> QED
      BY <1>2, <2>1, <2>2, <2>3 DEF GoodNode
  <1> QED
    BY <1>4, <1>5, <1>6 DEF Grows, n, v, w

(* The loop of build_node fills in the nodes of the moves.                   *)
LEMMA LoopFills ==
  ASSUME NEW b \in Builds, Ready(b), ~(Terminal(b.board) \/ b.depth = 0),
         BuildsWell(b.depth - 1), NEW t, t = BuildTurns(build_node, b)[Len(b.board.next)]
  PROVE  t.overflow \/ Grows(b.tree.nodes, b.index, t.nodes)
  <1>1. PICK f : f = BuildTurns(build_node, b)
    OBVIOUS
  <1>2. PICK ps \in Seq(Position), o \in Nat, d \in Nat, y \in Nat, limit \in Nat :
           /\ ps = b.board.next /\ o = Len(b.tree.nodes) /\ d = b.depth - 1 /\ y = b.ply + 1
           /\ limit = b.limit
    <2>1. b.board.next \in Seq(Position) /\ Len(b.tree.nodes) \in Nat /\ b.limit \in Nat
      BY BuildsAre, TreeTyped
    <2>2. b.depth - 1 \in Nat /\ b.ply + 1 \in Nat
      BY BuildsAre
    <2> QED
      BY <2>1, <2>2
  <1>3. /\ f \in [0 .. Len(ps) -> TreeMade] /\ f[0] = Expanded(b) /\ Len(ps) \in Nat
        /\ \A i \in 1 .. Len(ps) : f[i] = build_node[BuildOf(b, i, f[i - 1])]
    <2>1. MadeBelow(build_node, b)
      BY BuildNodeIs DEF MadeBelow
    <2> QED
      BY <1>1, <1>2, <2>1, BuildTurnsAre
  <1>4. FillsIn(f, o, ps, d, y, limit)
    BY <1>2, <1>3 DEF FillsIn, BuildOf
  <1>5. PICK s \in Seq(TreeNode) : s = f[0].nodes /\ s = Expanded(b).nodes
    BY <1>3, ExpandedIs, TreeTyped
  <1>6. Blanks(s, o, ps, d, y)
    <2>1. /\ Len(s) = Len(b.tree.nodes) + Len(b.board.next)
          /\ \A i \in 1 .. Len(b.board.next) :
                /\ s[Len(b.tree.nodes) + i].at = At(b.board.next[i], b.depth - 1, b.ply + 1)
                /\ s[Len(b.tree.nodes) + i].count = 0
      <3>1. PICK e : e = Expanded(b)
        OBVIOUS
      <3>2. s = e.nodes /\ b.depth # 0
        BY <1>5, <3>1
      <3> QED
        BY <3>1, <3>2, ExpandedIs
    <2>2. Len(s) = o + Len(ps) /\ \A i \in 1 .. Len(ps) : s[o + i].at = At(ps[i], d, y) /\ s[o + i].count = 0
      BY <1>2, <2>1
    <2> QED
      BY <2>2 DEF Blanks
  <1>7. Buildable(ps, d, y)
    <2>1. b.depth \in Nat /\ b.ply \in Nat /\ b.board \in Known[b.depth]
          /\ b.depth <= MaxDepth /\ b.depth + b.ply < INF
      BY BuildsAre DEF Ready
    <2>2. d <= MaxDepth /\ d + y < INF
      BY <1>2, <2>1, DeviceSearchAssumption, GameTreeAssumption
    <2>3. \A i \in 1 .. Len(ps) : ps[i] \in Known[d]
      BY <1>2, <2>1, KnownMoves
    <2> QED
      BY <2>2, <2>3 DEF Buildable
  <1>8. BuildsWell(d)
    BY <1>2
  <1>9. f[Len(ps)].overflow \/ Filled(s, o, Len(ps), f[Len(ps)].nodes)
    BY <1>4, <1>5, <1>6, <1>7, <1>8, AllFilled
  <1>10. f[Len(ps)] \in TreeMade /\ t = f[Len(ps)]
    BY <1>1, <1>2, <1>3
  <1>11. t.nodes \in Seq(TreeNode)
    BY <1>10, TreeTyped
  <1>12. t.overflow \/ Filled(s, Len(b.tree.nodes), Len(b.board.next), t.nodes)
    BY <1>2, <1>9, <1>10
  <1> QED
    BY <1>5, <1>11, <1>12, ParentIsGood

LEMMA BuilderHolds ==
  \A depth \in Nat : BuildsWell(depth)
  <1> DEFINE Bad == {d \in Nat : ~BuildsWell(d)}
  <1>1. SUFFICES ASSUME Bad # {} PROVE FALSE
    OBVIOUS
  <1>2. PICK d \in Bad : \A e \in Bad : d <= e
    <2>1. Bad \in SUBSET Nat
      OBVIOUS
    <2> HIDE DEF Bad
    <2> QED
      BY <1>1, <2>1, Least
  <1>3. PICK b \in Builds : b.depth = d /\ ~Builder(build_node, b)
    BY <1>2 DEF BuildsWell
  <1>4. Ready(b)
    BY <1>3 DEF Builder
  <1>5. PICK t : t = build_node[b]
    OBVIOUS
  <1>6. t = BuildBody(build_node, b) /\ t \in TreeMade /\ b.tree \in TreeMade
    BY <1>5, BuildNodeIs, BuildsAre
  <1>7. ~t.overflow /\ ~Grows(b.tree.nodes, b.index, t.nodes)
    BY <1>3, <1>4, <1>5 DEF Builder
  <1>8. ~b.tree.overflow
    BY <1>5, <1>7, OverflowStays
  <1>9. CASE Terminal(b.board) \/ b.depth = 0
    <2>1. t = Childless(b)
      BY <1>6, <1>8, <1>9, BuildBodyIs
    <2> QED
      BY <1>4, <1>7, <1>9, <2>1, LeafIsGood
  <1>10. CASE ~(Terminal(b.board) \/ b.depth = 0)
    <2>1. t # [b.tree EXCEPT !.overflow = TRUE]
      BY <1>6, <1>7, Overflown
    <2>2. t = BuildTurns(build_node, b)[Len(b.board.next)]
      BY <1>6, <1>8, <1>10, <2>1, BuildBodyIs
    <2>3. BuildsWell(b.depth - 1)
      <3>1. d - 1 \in Nat /\ ~(d <= d - 1)
        BY <1>2, <1>3, <1>10
      <3> QED
        BY <1>2, <1>3, <3>1
    <2> QED
      BY <1>4, <1>7, <1>10, <2>2, <2>3, LoopFills
  <1> QED
    BY <1>9, <1>10

-----------------------------------------------------------------------------
(* chunked_negamax builds one tree from a position down: its first node is   *)
(* that position, and every node has the children or the score it has to     *)
(* have, unless --max-tree-nodes was reached.                                *)
THEOREM ChunkTreesAreTrees ==
  ASSUME NEW depth \in Nat, NEW ply \in Nat, NEW limit \in Nat, NEW p \in Known[depth],
         depth <= MaxDepth, depth + ply < INF,
         NEW t, t = ChunkTree(p, depth, ply, limit), ~t.overflow
  PROVE  IsTree(t.nodes) /\ 0 \in Node(t.nodes) /\ t.nodes[1].at = At(p, depth, ply)
  <1>1. p \in Position
    BY KnownIs
  <1>2. PICK u : u = EmptyTree(<<p>>, depth, ply)
    OBVIOUS
  <1>3. /\ u \in TreeMade /\ ~u.overflow /\ Len(u.nodes) = 1
        /\ u.nodes[1].at = At(p, depth, ply) /\ u.nodes[1].count = 0
    <2>1. <<p>> \in Seq(Position)
      BY <1>1
    <2>2. Len(<<p>>) = 1 /\ <<p>>[1] = p
      OBVIOUS
    <2>3. PICK ps \in Seq(Position) : ps = <<p>>
      BY <2>1
    <2>4. u = EmptyTree(ps, depth, ply) /\ Len(ps) = 1 /\ ps[1] = p
      BY <1>2, <2>2, <2>3
    <2>5. /\ u \in TreeMade /\ ~u.overflow /\ Len(u.nodes) = Len(ps)
          /\ \A i \in 1 .. Len(ps) : u.nodes[i].at = At(ps[i], depth, ply) /\ u.nodes[i].count = 0
      BY <2>4, EmptyTreeIs
    <2> QED
      BY <2>4, <2>5
  <1>4. PICK b \in Builds : b = Build(u, 0, p, depth, ply, limit)
    <2>1. Build(u, 0, p, depth, ply, limit) \in Builds
      BY <1>1, <1>3 DEF Build, Builds
    <2> QED
      BY <2>1
  <1>5. b.tree = u /\ b.index = 0 /\ b.board = p /\ b.depth = depth /\ b.ply = ply
    BY <1>4 DEF Build
  <1>6. Ready(b)
    BY <1>3, <1>5 DEF Ready, Node
  <1>7. t = build_node[b] /\ t \in TreeMade
    BY <1>2, <1>4, BuildNodeIs DEF ChunkTree
  <1>8. Grows(u.nodes, 0, t.nodes)
    <2>1. Builder(build_node, b)
      BY <1>5, BuilderHolds DEF BuildsWell
    <2> QED
      BY <1>5, <1>6, <1>7, <2>1 DEF Builder
  <1>9. t.nodes \in Seq(TreeNode) /\ Len(t.nodes) \in Nat
    BY <1>7, TreeTyped
  <1>10. Len(t.nodes) >= 1 /\ t.nodes[1].at = At(p, depth, ply)
    BY <1>3, <1>8 DEF Grows, Extends
  <1>11. \A n \in Node(t.nodes) : GoodNode(t.nodes, n)
    <2>1. SUFFICES ASSUME NEW n \in 0 .. (Len(t.nodes) - 1) PROVE GoodNode(t.nodes, n)
      BY DEF Node
    <2>2. CASE n = 0
      BY <1>8, <2>2 DEF Grows
    <2>3. CASE n # 0
      <3>1. n \in Len(u.nodes) .. (Len(t.nodes) - 1)
        BY <1>3, <1>9, <2>3
      <3> QED
        BY <1>8, <3>1 DEF Grows
    <2> QED
      BY <2>2, <2>3
  <1> QED
    BY <1>9, <1>10, <1>11 DEF IsTree, GoodNode, Node

(* The loop of gpu_search over the moves of the root.                        *)
MoveOf(p, depth, limit, i, u) == Build(u, i - 1, p.next[i], depth - 1, 1, limit)

MoveOnce(p, depth, limit, i, t) == With(t, LAMBDA u : build_node[MoveOf(p, depth, limit, i, u)])

MoveTurns(p, depth, limit) ==
    CHOOSE f : f = [i \in 0 .. Len(p.next) |->
                      IF i = 0 THEN EmptyTree(p.next, depth - 1, 1)
                      ELSE MoveOnce(p, depth, limit, i, f[i - 1])]

LEMMA MoveOnceIs ==
  ASSUME NEW p, NEW depth, NEW limit, NEW i, NEW t
  PROVE  MoveOnce(p, depth, limit, i, t) = build_node[MoveOf(p, depth, limit, i, t)]
  BY DEF MoveOnce, With

LEMMA MoveStepTyped ==
  ASSUME NEW p \in Position, NEW depth \in Nat \ {0}, NEW limit \in Nat,
         NEW i \in 1 .. Len(p.next), NEW t \in TreeMade
  PROVE  build_node[MoveOf(p, depth, limit, i, t)] \in TreeMade
  <1>1. PICK n \in Nat, q \in Position, d \in Nat : n = i - 1 /\ q = p.next[i] /\ d = depth - 1
    <2>1. i - 1 \in Nat /\ depth - 1 \in Nat /\ p.next[i] \in Position
      BY Moves
    <2> QED
      BY <2>1
  <1>2. Build(t, n, q, d, 1, limit) \in Builds
    BY DEF Build, Builds
  <1> QED
    BY <1>1, <1>2, BuildNodeIs DEF MoveOf

LEMMA MoveTurnsAre ==
  ASSUME NEW p \in Position, NEW depth \in Nat \ {0}, NEW limit \in Nat
  PROVE  /\ Len(p.next) \in Nat
         /\ MoveTurns(p, depth, limit) \in [0 .. Len(p.next) -> TreeMade]
         /\ MoveTurns(p, depth, limit)[0] = EmptyTree(p.next, depth - 1, 1)
         /\ \A i \in 1 .. Len(p.next) :
               MoveTurns(p, depth, limit)[i]
               = build_node[MoveOf(p, depth, limit, i, MoveTurns(p, depth, limit)[i - 1])]
  <1> DEFINE n == Len(p.next)
             first == EmptyTree(p.next, depth - 1, 1)
             step == [i \in 1 .. n |-> [t \in TreeMade |-> build_node[MoveOf(p, depth, limit, i, t)]]]
  <1>1. n \in Nat
    BY Moves
  <1>2. first \in TreeMade
    <2>1. p.next \in Seq(Position) /\ depth - 1 \in Nat
      BY Moves
    <2> QED
      BY <2>1, EmptyTreeIs
  <1>3. step \in [1 .. n -> [TreeMade -> TreeMade]]
    BY MoveStepTyped
  <1> HIDE DEF first
  <1>4. PICK f \in [0 .. n -> TreeMade] :
           f[0] = first /\ \A i \in 1 .. n : f[i] = step[i][f[i - 1]]
    <2> HIDE DEF step, n
    <2>1. CanBeMade(n, TreeMade, first, step)
      BY <1>1, <1>2, <1>3, Steps
    <2> QED
      BY <2>1 DEF CanBeMade
  <1>5. ASSUME NEW i \in 1 .. n PROVE f[i] = MoveOnce(p, depth, limit, i, f[i - 1])
    <2>1. f[i - 1] \in TreeMade
      BY <1>1
    <2> QED
      BY <1>4, <2>1, MoveOnceIs
  <1>6. f = [i \in 0 .. n |-> IF i = 0 THEN first ELSE MoveOnce(p, depth, limit, i, f[i - 1])]
    <2>1. \A i \in 0 .. n : i = 0 \/ i \in 1 .. n
      BY <1>1
    <2> HIDE DEF step, n
    <2> QED
      BY <1>4, <1>5, <2>1
  <1> DEFINE w == MoveTurns(p, depth, limit)
  <1>7. w = [i \in 0 .. n |-> IF i = 0 THEN first ELSE MoveOnce(p, depth, limit, i, w[i - 1])]
    BY <1>6 DEF MoveTurns, first
  <1> HIDE DEF w, step, n
  <1>8. w[0] = first /\ \A i \in 1 .. n : w[i] = build_node[MoveOf(p, depth, limit, i, w[i - 1])]
    <2>1. 0 \in 0 .. n /\ \A i \in 1 .. n : i \in 0 .. n /\ i # 0
      BY <1>1
    <2>2. w[0] = first
      BY <1>7, <2>1
    <2>3. \A i \in 1 .. n : w[i] = MoveOnce(p, depth, limit, i, w[i - 1])
      BY <1>7, <2>1
    <2> QED
      BY <2>2, <2>3, MoveOnceIs
  <1>9. \A i \in 0 .. n : w[i] \in TreeMade
    <2> DEFINE Bad == {i \in 0 .. n : w[i] \notin TreeMade}
    <2>1. SUFFICES ASSUME Bad # {} PROVE FALSE
      OBVIOUS
    <2>2. PICK i \in Bad : \A e \in Bad : i <= e
      <3>1. Bad \in SUBSET Nat
        BY <1>1
      <3> HIDE DEF Bad
      <3> QED
        BY <2>1, <3>1, Least
    <2>3. i \in 1 .. n
      BY <1>1, <1>2, <1>8, <2>2
    <2>4. i - 1 \in 0 .. n /\ ~(i <= i - 1)
      BY <1>1, <2>3
    <2>5. w[i - 1] \in TreeMade
      BY <2>2, <2>4
    <2>6. w[i] = build_node[MoveOf(p, depth, limit, i, w[i - 1])]
      BY <1>8, <2>3
    <2> QED
      BY <2>2, <2>3, <2>5, <2>6, MoveStepTyped DEF n
  <1>10. w \in [0 .. n -> TreeMade]
    BY <1>7, <1>9
  <1> QED
    BY <1>1, <1>8, <1>10 DEF w, n, first

LEMMA MoveTreesIs ==
  ASSUME NEW p, NEW depth, NEW limit
  PROVE  MoveTrees(p, depth, limit) = MoveTurns(p, depth, limit)[Len(p.next)]
  BY DEF MoveTrees, MoveTurns, MoveOnce, MoveOf

(* gpu_search makes the nodes of the root moves first, in the order of the   *)
(* moves, and fills them in: node i - 1 is the i-th move, the root of a tree.*)
THEOREM MoveTreesAreTrees ==
  ASSUME NEW depth \in Nat \ {0}, NEW limit \in Nat, NEW p \in Known[depth], ~Terminal(p),
         depth <= MaxDepth, depth < INF,
         NEW t, t = MoveTrees(p, depth, limit), ~t.overflow
  PROVE  /\ IsTree(t.nodes)
         /\ \A i \in 1 .. Len(p.next) : /\ i - 1 \in Node(t.nodes)
                                        /\ t.nodes[i].at = At(p.next[i], depth - 1, 1)
  <1>1. p \in Position
    BY KnownIs
  <1>2. PICK ps \in Seq(Position), o \in Nat, d \in Nat, y \in Nat :
           ps = p.next /\ o = 0 /\ d = depth - 1 /\ y = 1
    <2>1. p.next \in Seq(Position) /\ depth - 1 \in Nat
      BY <1>1, Moves
    <2> QED
      BY <2>1
  <1>3. PICK f : f = MoveTurns(p, depth, limit)
    OBVIOUS
  <1>4. /\ f \in [0 .. Len(ps) -> TreeMade] /\ f[0] = EmptyTree(ps, d, y) /\ Len(ps) \in Nat
        /\ \A i \in 1 .. Len(ps) : f[i] = build_node[MoveOf(p, depth, limit, i, f[i - 1])]
    BY <1>1, <1>2, <1>3, MoveTurnsAre
  <1>5. FillsIn(f, o, ps, d, y, limit)
    <2>1. ASSUME NEW i \in 1 .. Len(ps)
          PROVE  f[i] = build_node[Build(f[i - 1], o + i - 1, ps[i], d, y, limit)]
      <3>1. o + i - 1 = i - 1
        BY <1>2, <1>4
      <3> QED
        BY <1>2, <1>4, <3>1 DEF MoveOf
    <2> QED
      BY <1>4, <2>1 DEF FillsIn
  <1>6. /\ f[0] \in TreeMade /\ ~f[0].overflow /\ Len(f[0].nodes) = Len(ps)
        /\ \A i \in 1 .. Len(ps) : f[0].nodes[i].at = At(ps[i], d, y) /\ f[0].nodes[i].count = 0
    BY <1>4, EmptyTreeIs
  <1>7. PICK s \in Seq(TreeNode) : s = f[0].nodes
    BY <1>6, TreeTyped
  <1>8. Blanks(s, o, ps, d, y)
    <2>1. \A i \in 1 .. Len(ps) : o + i = i
      BY <1>2, <1>4
    <2>2. Len(s) = o + Len(ps)
      BY <1>2, <1>4, <1>6, <1>7
    <2> QED
      BY <1>6, <1>7, <2>1, <2>2 DEF Blanks
  <1>9. Buildable(ps, d, y)
    <2>1. d <= MaxDepth /\ d + y < INF
      BY <1>2, DeviceSearchAssumption, GameTreeAssumption
    <2>2. \A i \in 1 .. Len(ps) : ps[i] \in Known[d]
      BY <1>2, KnownMoves
    <2> QED
      BY <2>1, <2>2 DEF Buildable
  <1>10. BuildsWell(d)
    BY BuilderHolds
  <1>11. t = f[Len(ps)] /\ t \in TreeMade
    BY <1>2, <1>3, <1>4, MoveTreesIs
  <1>12. Filled(s, o, Len(ps), t.nodes)
    <2>1. f[Len(ps)].overflow \/ Filled(s, o, Len(ps), f[Len(ps)].nodes)
      BY <1>5, <1>7, <1>8, <1>9, <1>10, AllFilled
    <2> QED
      BY <1>11, <2>1
  <1>13. t.nodes \in Seq(TreeNode) /\ Len(t.nodes) \in Nat
    BY <1>11, TreeTyped
  <1>14. \A n \in Node(t.nodes) : GoodNode(t.nodes, n)
    <2>1. SUFFICES ASSUME NEW n \in 0 .. (Len(t.nodes) - 1) PROVE GoodNode(t.nodes, n)
      BY DEF Node
    <2>2. CASE n < Len(ps)
      <3>1. n \in o .. (o + Len(ps) - 1)
        BY <1>2, <1>4, <2>2
      <3> QED
        BY <1>12, <3>1 DEF Filled
    <2>3. CASE ~(n < Len(ps))
      <3>1. n \in Len(s) .. (Len(t.nodes) - 1)
        BY <1>4, <1>6, <1>7, <1>13, <2>3
      <3> QED
        BY <1>12, <3>1 DEF Filled
    <2> QED
      BY <2>2, <2>3
  <1>15. ASSUME NEW i \in 1 .. Len(ps)
         PROVE  i - 1 \in Node(t.nodes) /\ t.nodes[i].at = At(ps[i], d, y)
    <2>1. Len(s) = Len(ps) /\ Len(s) <= Len(t.nodes) /\ t.nodes[i].at = s[i].at
      BY <1>6, <1>7, <1>12 DEF Filled, Extends
    <2> QED
      BY <1>4, <1>6, <1>7, <1>13, <2>1 DEF Node
  <1> QED
    BY <1>2, <1>13, <1>14, <1>15 DEF IsTree, GoodNode

-----------------------------------------------------------------------------
(* The host of the offloaded backends.                                       *)
HostFrames == [position : Position, depth : Nat, ply : Nat, alpha : Int, beta : Int,
               tried : Nat, best : Int, move : Nat]

(* A frame is a call of negamax in its loop.  The lower end of its window is *)
(* in the frame below.                                                       *)
FloorOf(s, k) == IF k = 1 THEN -INF ELSE -s[k - 1].beta

CallOf(s, k) == Call(s[k].position, s[k].depth, s[k].ply, FloorOf(s, k), s[k].beta, TRUE)

LoopOf(f) == [best |-> f.best, alpha |-> f.alpha, nodes |-> 0, cut |-> f.alpha >= f.beta]

FrameKnows(s, k) ==
    /\ s[k] \in HostFrames
    /\ s[k].depth # 0 /\ s[k].depth + s[k].ply = Depth
    /\ s[k].position \in Known[s[k].depth] /\ ~Terminal(s[k].position)
    /\ s[k].tried <= Len(s[k].position.next)
    /\ Window(CallOf(s, k))
    /\ LoopKnows(CallOf(s, k), s[k].tried, LoopOf(s[k]))

(* The move a frame waits for.                                               *)
AskedBy(f) == At(f.position.next[f.tried + 1], f.depth - 1, f.ply + 1)

FrameLinked(f, g) ==
    /\ ~LoopOver(f)
    /\ At(g.position, g.depth, g.ply) = AskedBy(f)
    /\ g.beta = -f.alpha

SerialOf(f) == [score |-> f.best, move |-> f.move, nodes |-> 0]

RootKnows(f) ==
    /\ f.position = game /\ f.depth = Depth /\ f.ply = 0
    /\ f.beta = INF /\ f.alpha = f.best
    /\ SerialKnows(game, Depth, f.tried, SerialOf(f))

StackKnows(s) ==
    /\ s \in Seq(HostFrames) /\ Len(s) # 0
    /\ RootKnows(s[1])
    /\ \A k \in 1 .. Len(s) : FrameKnows(s, k)
    /\ \A k \in 1 .. (Len(s) - 1) : FrameLinked(s[k], s[k + 1])

(* What the search of the move that f waits for may return.                  *)
Answers(f, r) == /\ ~LoopOver(f) /\ r \in Int
                 /\ Says(r, minimax[AskedBy(f)], -f.beta, -f.alpha)

(* The batch of a chunk, and that of all the root moves.                     *)
ChunkSays == ~LoopOver(frame) /\ FirstBest(Computed).score = minimax[AskedBy(frame)]
WholeBatch == ~Terminal(game) /\ batch = Batch(game.next, Depth - 1, 1, TRUE)

Busy == {"allocate", "copy in", "copy out", "fold"}

Configured == game \in Games /\ backend \in Backends
Allowed == stage \notin {"start", "error"} => (backend.required => device)
Recursing == stage \in {"search", "returned"} => backend.chunked /\ StackKnows(frames)
Returning == stage = "returned" => Answers(frame, returned)
Batching == stage \in Busy => IF backend.chunked THEN StackKnows(frames) /\ ChunkSays ELSE WholeBatch
Folding == stage = "fold" => batchScores = Computed

HostInv == /\ Configured /\ Allowed /\ Recursing /\ Returning /\ Batching /\ Folding
           /\ OffloadIsExact

-----------------------------------------------------------------------------
LEMMA Deeper ==
  ASSUME NEW d \in Nat \ {0}, NEW e \in Nat
  PROVE  d - 1 \in Nat /\ e + 1 \in Nat /\ (d - 1) + (e + 1) = d + e
  OBVIOUS

LEMMA TurnedWindow ==
  ASSUME NEW a \in Int, NEW b \in Int, a < b, -INF <= a, b <= INF
  PROVE  -INF <= -b /\ -b < -a /\ -a <= INF /\ -a \in Int /\ -b \in Int
  BY GameTreeAssumption

LEMMA LoopOpen ==
  ASSUME NEW f, f.alpha \in Int, f.beta \in Int, f.alpha < f.beta
  PROVE  LoopOf(f).best = f.best /\ LoopOf(f).alpha = f.alpha /\ ~LoopOf(f).cut
  <1>1. ~(f.alpha >= f.beta)
    OBVIOUS
  <1> QED
    BY <1>1 DEF LoopOf

LEMMA FrameMade ==
  ASSUME NEW p \in Position, NEW d \in Nat, NEW e \in Nat, NEW a \in Int, NEW b \in Int,
         NEW g, g = HostFrame(p, d, e, a, b)
  PROVE  /\ g \in HostFrames /\ g.position = p /\ g.depth = d /\ g.ply = e
         /\ g.alpha = a /\ g.beta = b /\ g.tried = 0 /\ g.best = -INF /\ g.move = 0
  <1>1. -INF \in Int /\ 0 \in Nat
    BY GameTreeAssumption
  <1> QED
    BY <1>1 DEF HostFrame, HostFrames

LEMMA FrameTyped ==
  ASSUME NEW s, StackKnows(s), NEW k \in 1 .. Len(s)
  PROVE  /\ s[k] \in HostFrames /\ FrameKnows(s, k)
         /\ s[k].position \in Position /\ s[k].depth \in Nat \ {0} /\ s[k].ply \in Nat
         /\ s[k].alpha \in Int /\ s[k].beta \in Int /\ s[k].tried \in Nat
         /\ s[k].best \in Int /\ s[k].move \in Nat
         /\ FloorOf(s, k) \in Int /\ CallOf(s, k) \in Calls /\ LoopOf(s[k]) \in Loops
         /\ Len(s[k].position.next) \in Nat
  <1>1. /\ s[k] \in HostFrames /\ FrameKnows(s, k)
    BY DEF StackKnows
  <1>2. /\ s[k].position \in Position /\ s[k].depth \in Nat \ {0} /\ s[k].ply \in Nat
        /\ s[k].alpha \in Int /\ s[k].beta \in Int /\ s[k].tried \in Nat
        /\ s[k].best \in Int /\ s[k].move \in Nat
    BY <1>1 DEF FrameKnows, HostFrames
  <1>3. FloorOf(s, k) \in Int
    <2>1. CASE k = 1
      BY <2>1, GameTreeAssumption DEF FloorOf
    <2>2. CASE k # 1
      <3>1. k - 1 \in 1 .. Len(s)
        BY <2>2 DEF StackKnows
      <3>2. s[k - 1] \in HostFrames
        BY <3>1 DEF StackKnows
      <3>3. s[k - 1].beta \in Int
        BY <3>2 DEF HostFrames
      <3> QED
        BY <2>2, <3>3 DEF FloorOf
    <2> QED
      BY <2>1, <2>2
  <1>4. CallOf(s, k) \in Calls
    BY <1>2, <1>3 DEF CallOf, Call, Calls
  <1>5. LoopOf(s[k]) \in Loops
    BY <1>2 DEF LoopOf, Loops
  <1>6. Len(s[k].position.next) \in Nat
    BY <1>2, Moves
  <1> QED
    BY <1>1, <1>2, <1>3, <1>4, <1>5, <1>6

(* What a frame waits for is a position within the horizon.                  *)
LEMMA AskedTyped ==
  ASSUME NEW s, StackKnows(s), NEW k \in 1 .. Len(s), ~LoopOver(s[k])
  PROVE  LET f == s[k]
             p == f.position.next[f.tried + 1]
         IN  /\ f.tried + 1 \in 1 .. Len(f.position.next)
             /\ f.alpha < f.beta
             /\ p \in Known[f.depth - 1] /\ p \in Position
             /\ f.depth - 1 \in Nat /\ f.ply + 1 \in Nat /\ (f.depth - 1) + (f.ply + 1) = Depth
             /\ AskedBy(f) \in Searched /\ minimax[AskedBy(f)] \in Int
             /\ -INF < minimax[AskedBy(f)] /\ minimax[AskedBy(f)] < INF
  <1> DEFINE f == s[k]
             p == f.position.next[f.tried + 1]
  <1>1. /\ FrameKnows(s, k)
        /\ f.position \in Position /\ f.depth \in Nat \ {0} /\ f.ply \in Nat /\ f.tried \in Nat
        /\ f.alpha \in Int /\ f.beta \in Int /\ Len(f.position.next) \in Nat
    BY FrameTyped
  <1>2. /\ f.position \in Known[f.depth] /\ ~Terminal(f.position)
        /\ f.tried <= Len(f.position.next) /\ f.depth + f.ply = Depth
    BY <1>1 DEF FrameKnows
  <1>3. f.tried + 1 \in 1 .. Len(f.position.next) /\ f.alpha < f.beta
    BY <1>1, <1>2 DEF LoopOver
  <1>4. p \in Known[f.depth - 1] /\ p \in Position
    BY <1>1, <1>2, <1>3, KnownMoves, Moves
  <1>5. f.depth - 1 \in Nat /\ f.ply + 1 \in Nat /\ (f.depth - 1) + (f.ply + 1) = Depth
    BY <1>1, <1>2, Deeper
  <1>6. /\ AskedBy(f) \in Searched /\ AskedBy(f).board = p
        /\ AskedBy(f).depth = f.depth - 1 /\ AskedBy(f).ply = f.ply + 1
    BY <1>4, <1>5 DEF AskedBy, At, Searched
  <1>7. minimax[AskedBy(f)] \in Int
    BY <1>6, MinimaxIs
  <1>8. Bounded(AskedBy(f))
    BY <1>6, ValuesBounded
  <1>9. AskedBy(f).ply + AskedBy(f).depth < INF
    BY <1>1, <1>5, <1>6, OptionsAssumption
  <1>10. -INF < minimax[AskedBy(f)] /\ minimax[AskedBy(f)] < INF
    BY <1>4, <1>6, <1>8, <1>9 DEF Bounded
  <1> QED
    BY <1>3, <1>4, <1>5, <1>6, <1>7, <1>10

(* The stack when chunked_negamax calls itself.                              *)
LEMMA StackPush ==
  ASSUME NEW s, StackKnows(s), NEW f, f = s[Len(s)], ~LoopOver(f),
         NEW p, p = f.position.next[f.tried + 1], ~Terminal(p), f.depth - 1 # 0,
         NEW g, g = HostFrame(p, f.depth - 1, f.ply + 1, -f.beta, -f.alpha)
  PROVE  StackKnows(Append(s, g))
  <1> DEFINE n == Len(s)
             t == Append(s, g)
             c == Call(p, f.depth - 1, f.ply + 1, -f.beta, -f.alpha, TRUE)
  <1>1. /\ s \in Seq(HostFrames) /\ n \in Nat /\ n # 0 /\ n \in 1 .. n
        /\ RootKnows(s[1])
        /\ \A k \in 1 .. n : FrameKnows(s, k)
        /\ \A k \in 1 .. (n - 1) : FrameLinked(s[k], s[k + 1])
    BY DEF StackKnows
  <1>2. /\ f \in HostFrames /\ f.alpha \in Int /\ f.beta \in Int /\ FrameKnows(s, n)
        /\ f.depth \in Nat /\ f.ply \in Nat /\ FloorOf(s, n) \in Int
    BY <1>1, FrameTyped
  <1>3. /\ p \in Known[f.depth - 1] /\ p \in Position
        /\ f.depth - 1 \in Nat /\ f.ply + 1 \in Nat /\ (f.depth - 1) + (f.ply + 1) = Depth
        /\ f.alpha < f.beta
    BY <1>1, AskedTyped
  <1>4. INF \in Nat /\ Len(p.next) \in Nat
    BY <1>3, GameTreeAssumption, Moves
  <1>5. /\ g \in HostFrames /\ g.position = p /\ g.depth = f.depth - 1 /\ g.ply = f.ply + 1
        /\ g.alpha = -f.beta /\ g.beta = -f.alpha /\ g.tried = 0 /\ g.best = -INF
    <2>1. -f.beta \in Int /\ -f.alpha \in Int
      BY <1>2
    <2> QED
      BY <1>3, <2>1, FrameMade
  <1>6. /\ t \in Seq(HostFrames) /\ Len(t) = n + 1 /\ t[n + 1] = g
        /\ \A k \in 1 .. n : t[k] = s[k]
    BY <1>1, <1>5
  <1> HIDE DEF t
  <1>7. \A k \in 1 .. n : FloorOf(t, k) = FloorOf(s, k)
    BY <1>1, <1>6 DEF FloorOf
  <1>8. ASSUME NEW k \in 1 .. n PROVE FrameKnows(t, k)
    <2>1. t[k] = s[k] /\ CallOf(t, k) = CallOf(s, k)
      BY <1>6, <1>7 DEF CallOf
    <2> QED
      BY <1>1, <2>1 DEF FrameKnows
  <1>9. FrameKnows(t, n + 1)
    <2>1. FloorOf(t, n + 1) = -f.beta
      BY <1>1, <1>6 DEF FloorOf
    <2>2. CallOf(t, n + 1) = c
      BY <1>5, <1>6, <2>1 DEF CallOf
    <2>3. -INF <= f.alpha /\ f.beta <= INF
      <3>1. Window(CallOf(s, n)) /\ LoopKnows(CallOf(s, n), f.tried, LoopOf(f))
        BY <1>2 DEF FrameKnows
      <3>2. -INF <= FloorOf(s, n) /\ f.beta <= INF
        BY <3>1 DEF Window, CallOf, Call
      <3>3. ~LoopOf(f).cut /\ LoopOf(f).alpha = f.alpha
        BY <1>2, <1>3, LoopOpen
      <3>4. CallOf(s, n).alpha = FloorOf(s, n) /\ CallOf(s, n).prune
        BY DEF CallOf, Call
      <3>5. FloorOf(s, n) <= f.alpha
        BY <3>1, <3>3, <3>4 DEF LoopKnows
      <3> QED
        BY <1>2, <1>4, <3>2, <3>5
    <2>4. -INF <= -f.beta /\ -f.beta < -f.alpha /\ -f.alpha <= INF
      BY <1>2, <1>3, <2>3, TurnedWindow
    <2>5. c.alpha = -f.beta /\ c.beta = -f.alpha /\ c.prune
      BY DEF Call
    <2>6. Window(c)
      BY <2>4, <2>5 DEF Window
    <2>7. LoopKnows(c, 0, LoopOf(g))
      <3>1. LoopOf(g).best = -INF /\ LoopOf(g).alpha = -f.beta /\ ~LoopOf(g).cut
        <4>1. g.alpha \in Int /\ g.beta \in Int /\ g.alpha < g.beta
          BY <1>5, <2>4 DEF HostFrames
        <4>2. ~(g.alpha >= g.beta)
          BY <4>1
        <4>3. LoopOf(g).best = g.best /\ LoopOf(g).alpha = g.alpha /\ ~LoopOf(g).cut
          BY Zenon, <4>2 DEF LoopOf
        <4> QED
          BY Zenon, <1>5, <4>3
      <3>2. -INF <= -INF /\ -f.beta <= -f.beta
        BY <1>2, <1>4
      <3>3. \A j \in 1 .. 0 : FALSE
        OBVIOUS
      <3> HIDE DEF c
      <3> QED
        BY Zenon, <2>4, <2>5, <3>1, <3>2, <3>3 DEF LoopKnows
    <2>8. t[n + 1].tried = 0 /\ 0 <= Len(t[n + 1].position.next)
      <3>1. t[n + 1].tried = 0 /\ t[n + 1].position = p
        BY <1>5, <1>6
      <3>2. 0 <= Len(p.next)
        BY <1>4
      <3> QED
        BY <3>1, <3>2
    <2>9. /\ t[n + 1].depth # 0 /\ t[n + 1].depth + t[n + 1].ply = Depth
          /\ t[n + 1].position \in Known[t[n + 1].depth] /\ ~Terminal(t[n + 1].position)
          /\ t[n + 1] \in HostFrames
      BY <1>3, <1>5, <1>6
    <2> HIDE DEF c
    <2> QED
      BY <1>6, <2>2, <2>6, <2>7, <2>8, <2>9 DEF FrameKnows
  <1>10. ASSUME NEW k \in 1 .. n PROVE FrameLinked(t[k], t[k + 1])
    <2>1. CASE k = n
      <3>1. At(g.position, g.depth, g.ply) = AskedBy(f)
        BY <1>5 DEF AskedBy
      <3> QED
        BY <1>1, <1>5, <1>6, <2>1, <3>1 DEF FrameLinked
    <2>2. CASE k # n
      <3>1. k \in 1 .. (n - 1) /\ k + 1 \in 1 .. n
        BY <1>1, <2>2
      <3> QED
        BY <1>1, <1>6, <3>1
    <2> QED
      BY <2>1, <2>2
  <1>11. \A k \in 1 .. (n + 1) : k = n + 1 \/ k \in 1 .. n
    BY <1>1
  <1>12. RootKnows(t[1]) /\ (n + 1) - 1 = n /\ n + 1 # 0
    BY <1>1, <1>6
  <1> SUFFICES StackKnows(t)
    BY DEF t
  <1> QED
    BY <1>6, <1>8, <1>9, <1>10, <1>11, <1>12 DEF StackKnows

(* What Take makes of the innermost frame.                                   *)
Taken(f, r) == [f EXCEPT !.tried = f.tried + 1,
                         !.best  = Max({f.best, -r}),
                         !.alpha = Max({f.alpha, -r}),
                         !.move  = IF -r > f.best THEN f.tried + 1 ELSE f.move]

LEMMA TakenTyped ==
  ASSUME NEW f \in HostFrames, NEW r \in Int, NEW g, g = Taken(f, r)
  PROVE  /\ g \in HostFrames /\ g.position = f.position /\ g.depth = f.depth /\ g.ply = f.ply
         /\ g.beta = f.beta /\ g.tried = f.tried + 1
         /\ g.best = Max({f.best, -r}) /\ g.alpha = Max({f.alpha, -r})
         /\ -r > f.best => g.move = f.tried + 1
         /\ ~(-r > f.best) => g.move = f.move
  <1>1. f.best \in Int /\ f.alpha \in Int /\ f.tried \in Nat /\ f.move \in Nat /\ -r \in Int
    BY DEF HostFrames
  <1>2. PICK b \in Int, a \in Int : b = Max({f.best, -r}) /\ a = Max({f.alpha, -r})
    BY <1>1, MaxOfTwo
  <1>3. PICK m \in Nat : m = IF -r > f.best THEN f.tried + 1 ELSE f.move
    BY <1>1
  <1>4. g = [f EXCEPT !.tried = f.tried + 1, !.best = b, !.alpha = a, !.move = m]
    BY <1>2, <1>3 DEF Taken
  <1>5. PICK p \in Position, d \in Nat, e \in Nat, v \in Int, i \in Int :
          /\ p = f.position /\ d = f.depth /\ e = f.ply /\ v = f.beta /\ i = f.best
          /\ f = [position |-> p, depth |-> d, ply |-> e, alpha |-> f.alpha, beta |-> v,
                  tried |-> f.tried, best |-> i, move |-> f.move]
    BY DEF HostFrames
  <1>6. PICK k \in Nat : k = f.tried + 1
    BY <1>1
  <1>7. g = [position |-> p, depth |-> d, ply |-> e, alpha |-> a, beta |-> v,
             tried |-> k, best |-> b, move |-> m]
    BY Zenon, <1>4, <1>5, <1>6
  <1>8. g \in HostFrames
    BY <1>7 DEF HostFrames
  <1>9. /\ g.position = p /\ g.depth = d /\ g.ply = e /\ g.beta = v /\ g.tried = k
        /\ g.best = b /\ g.alpha = a /\ g.move = m
    BY <1>7
  <1> QED
    BY <1>1, <1>2, <1>3, <1>5, <1>6, <1>8, <1>9

(* A loop of a frame takes a move as the loop of negamax does.               *)
LEMMA LoopTakes ==
  ASSUME NEW f \in HostFrames, NEW r \in Int
  PROVE  LoopOf(Taken(f, r)) = After(LoopOf(f), [score |-> r, nodes |-> 0], f.beta, TRUE)
  <1>1. /\ Taken(f, r).best = Max({f.best, -r}) /\ Taken(f, r).alpha = Max({f.alpha, -r})
        /\ Taken(f, r).beta = f.beta
    BY TakenTyped
  <1>2. LoopOf(Taken(f, r)) = [best |-> Max({f.best, -r}), alpha |-> Max({f.alpha, -r}),
                               nodes |-> 0, cut |-> Max({f.alpha, -r}) >= f.beta]
    BY <1>1 DEF LoopOf
  <1>3. 0 + 0 = 0
    OBVIOUS
  <1> QED
    <2>1. LoopOf(f).best = f.best /\ LoopOf(f).alpha = f.alpha /\ LoopOf(f).nodes = 0
      BY DEF LoopOf
    <2>2. [score |-> r, nodes |-> 0].score = r /\ [score |-> r, nodes |-> 0].nodes = 0
      OBVIOUS
    <2>3. After(LoopOf(f), [score |-> r, nodes |-> 0], f.beta, TRUE)
          = [best |-> Max({f.best, -r}), alpha |-> Max({f.alpha, -r}),
             nodes |-> 0 + 0, cut |-> TRUE /\ Max({f.alpha, -r}) >= f.beta]
      BY Zenon, <2>1, <2>2 DEF After
    <2>4. (TRUE /\ Max({f.alpha, -r}) >= f.beta) = (Max({f.alpha, -r}) >= f.beta)
      OBVIOUS
    <2> QED
      BY Zenon, <1>2, <1>3, <2>3, <2>4

(* The stack when a value comes back to the innermost frame.                 *)
LEMMA StackTake ==
  ASSUME NEW s, StackKnows(s), NEW f, f = s[Len(s)], NEW r, Answers(f, r)
  PROVE  StackKnows([s EXCEPT ![Len(s)] = Taken(f, r)])
  <1> DEFINE n == Len(s)
             g == Taken(f, r)
             t == [s EXCEPT ![n] = g]
             c == CallOf(s, n)
             e == [score |-> r, nodes |-> 0]
  <1>1. /\ s \in Seq(HostFrames) /\ n \in Nat /\ n # 0 /\ n \in 1 .. n
        /\ RootKnows(s[1])
        /\ \A k \in 1 .. n : FrameKnows(s, k)
        /\ \A k \in 1 .. (n - 1) : FrameLinked(s[k], s[k + 1])
    BY DEF StackKnows
  <1>2. r \in Int /\ ~LoopOver(f) /\ Says(r, minimax[AskedBy(f)], -f.beta, -f.alpha)
    BY DEF Answers
  <1>3. /\ f \in HostFrames /\ f.alpha \in Int /\ f.beta \in Int /\ FrameKnows(s, n)
        /\ f.depth \in Nat /\ f.ply \in Nat /\ f.tried \in Nat /\ f.best \in Int /\ f.move \in Nat
        /\ FloorOf(s, n) \in Int /\ c \in Calls /\ LoopOf(f) \in Loops
    BY <1>1, FrameTyped
  <1>4. /\ f.tried + 1 \in 1 .. Len(f.position.next) /\ f.alpha < f.beta
        /\ minimax[AskedBy(f)] \in Int
        /\ -INF < minimax[AskedBy(f)] /\ minimax[AskedBy(f)] < INF
    BY <1>1, <1>2, AskedTyped
  <1>5. /\ g \in HostFrames /\ g.position = f.position /\ g.depth = f.depth /\ g.ply = f.ply
        /\ g.beta = f.beta /\ g.tried = f.tried + 1
        /\ g.best = Max({f.best, -r}) /\ g.alpha = Max({f.alpha, -r})
        /\ -r > f.best => g.move = f.tried + 1
        /\ ~(-r > f.best) => g.move = f.move
    <2>1. g = Taken(f, r)
      OBVIOUS
    <2>2. PICK h \in HostFrames, q \in Int : h = f /\ q = r
      BY <1>2, <1>3
    <2>3. PICK u : u = Taken(h, q)
      OBVIOUS
    <2>4. /\ u \in HostFrames /\ u.position = h.position /\ u.depth = h.depth /\ u.ply = h.ply
          /\ u.beta = h.beta /\ u.tried = h.tried + 1
          /\ u.best = Max({h.best, -q}) /\ u.alpha = Max({h.alpha, -q})
          /\ -q > h.best => u.move = h.tried + 1
          /\ ~(-q > h.best) => u.move = h.move
      BY <2>3, TakenTyped
    <2> QED
      BY <2>1, <2>2, <2>3, <2>4
  <1>6. LoopOf(g) = After(LoopOf(f), e, f.beta, TRUE)
    BY <1>2, <1>3, LoopTakes
  <1> HIDE DEF g
  <1>7. /\ t \in Seq(HostFrames) /\ Len(t) = n /\ t[n] = g
        /\ \A k \in 1 .. n : k # n => t[k] = s[k]
        /\ \A k \in 1 .. n : /\ t[k].position = s[k].position /\ t[k].depth = s[k].depth
                             /\ t[k].ply = s[k].ply /\ t[k].beta = s[k].beta
    <2>1. t \in Seq(HostFrames) /\ Len(t) = n /\ t[n] = g /\ \A k \in 1 .. n : k # n => t[k] = s[k]
      BY <1>1, <1>5
    <2> HIDE DEF t
    <2> QED
      BY <1>5, <2>1
  <1> HIDE DEF t
  <1>8. ASSUME NEW k \in 1 .. n PROVE CallOf(t, k) = CallOf(s, k)
    <2>1. k # 1 => k - 1 \in 1 .. n
      BY <1>1
    <2>2. FloorOf(t, k) = FloorOf(s, k)
      BY <1>7, <2>1 DEF FloorOf
    <2> QED
      BY <1>7, <2>2 DEF CallOf
  <1>9. LoopKnows(c, f.tried + 1, LoopOf(g))
    <2>1. Window(c) /\ LoopKnows(c, f.tried, LoopOf(f)) /\ f.depth # 0
      BY <1>3 DEF FrameKnows
    <2>2. /\ c.board = f.position /\ c.depth = f.depth /\ c.ply = f.ply /\ c.beta = f.beta /\ c.prune
      BY DEF CallOf, Call
    <2>3. ~LoopOf(f).cut /\ LoopOf(f).alpha = f.alpha
      BY <1>3, <1>4, LoopOpen
    <2>4. -Gain(c, f.tried + 1) = minimax[AskedBy(f)]
      <3>1. Gain(c, f.tried + 1) = -minimax[AskedBy(f)]
        BY <2>2 DEF Gain, AskedBy
      <3> QED
        BY <1>4, <3>1
    <2>5. e \in Results /\ e.score = r
      BY <1>2 DEF Results
    <2>6. PICK i \in 1 .. Len(c.board.next) : i = f.tried + 1
      BY <1>4, <2>2
    <2>7. i - 1 = f.tried
      BY <1>3, <2>6
    <2>8. Says(e.score, -Gain(c, i), -c.beta, -LoopOf(f).alpha)
      BY <1>2, <2>2, <2>3, <2>4, <2>5, <2>6
    <2> HIDE DEF c, e
    <2>9. LoopKnows(c, i, After(LoopOf(f), e, c.beta, TRUE))
      BY <1>3, <2>1, <2>2, <2>3, <2>5, <2>7, <2>8, AfterKnows
    <2> QED
      BY <1>6, <2>2, <2>6, <2>9
  <1>10. FrameKnows(t, n)
    <2>1. /\ f.depth # 0 /\ f.depth + f.ply = Depth
          /\ f.position \in Known[f.depth] /\ ~Terminal(f.position) /\ Window(c)
      BY <1>3 DEF FrameKnows
    <2>2. f.tried + 1 <= Len(f.position.next)
      BY <1>4
    <2>3. CallOf(t, n) = c
      BY <1>1, <1>8
    <2> HIDE DEF c
    <2> QED
      BY <1>5, <1>7, <1>9, <2>1, <2>2, <2>3 DEF FrameKnows
  <1>11. ASSUME NEW k \in 1 .. n PROVE FrameKnows(t, k)
    <2>1. CASE k = n
      BY <1>10, <2>1
    <2>2. CASE k # n
      <3>1. t[k] = s[k] /\ CallOf(t, k) = CallOf(s, k)
        BY <1>7, <1>8, <2>2
      <3> QED
        BY <1>1, <3>1 DEF FrameKnows
    <2> QED
      BY <2>1, <2>2
  <1>12. ASSUME NEW k \in 1 .. (n - 1) PROVE FrameLinked(t[k], t[k + 1])
    <2>1. k \in 1 .. n /\ k + 1 \in 1 .. n /\ k # n
      BY <1>1
    <2>2. FrameLinked(s[k], s[k + 1])
      BY <1>1
    <2> QED
      BY <1>7, <2>1, <2>2 DEF FrameLinked
  <1>13. RootKnows(t[1])
    <2>1. CASE n # 1
      BY <1>1, <1>7, <2>1
    <2>2. CASE n = 1
      <3>1. /\ f.position = game /\ f.depth = Depth /\ f.ply = 0 /\ f.beta = INF /\ f.alpha = f.best
            /\ SerialKnows(game, Depth, f.tried, SerialOf(f))
        BY <1>1, <2>2 DEF RootKnows
      <3>2. game \in Known[Depth] /\ ~Terminal(game)
        BY <1>3, <3>1 DEF FrameKnows
      <3>3. Value(game, Depth, f.tried + 1) = -minimax[AskedBy(f)]
        BY <3>1 DEF Value, AskedBy
      <3>4. g.alpha = g.best /\ g.best = (IF -r > f.best THEN -r ELSE f.best)
        <4>1. -r \in Int
          BY <1>2
        <4>2. /\ Max({f.best, -r}) \in Int /\ Max({f.best, -r}) >= f.best /\ Max({f.best, -r}) >= -r
              /\ Max({f.best, -r}) = f.best \/ Max({f.best, -r}) = -r
          BY <1>3, <4>1, MaxOfTwo
        <4>3. Max({f.best, -r}) = (IF -r > f.best THEN -r ELSE f.best)
          BY <1>3, <4>1, <4>2
        <4> QED
          BY <1>5, <3>1, <4>3
      <3>5. IF Value(game, Depth, f.tried + 1) <= f.best THEN -r <= f.best
            ELSE -r = Value(game, Depth, f.tried + 1)
        <4>1. PICK v \in Int : v = minimax[AskedBy(f)] /\ -INF < v /\ v < INF
          BY <1>4
        <4>2. /\ r <= -INF => v <= r
              /\ r >= -f.best => r <= v
              /\ -INF < r /\ r < -f.best => r = v
          BY <1>2, <3>1, <4>1 DEF Says
        <4>3. IF -v <= f.best THEN -r <= f.best ELSE -r = -v
          <5>1. PICK b \in Int, i \in Nat : b = f.best /\ i = INF
            BY <1>3, GameTreeAssumption
          <5>2. /\ r <= -i => v <= r
                /\ r >= -b => r <= v
                /\ -i < r /\ r < -b => r = v
            BY <4>2, <5>1
          <5>3. IF -v <= b THEN -r <= b ELSE -r = -v
            BY <1>2, <4>1, <5>1, <5>2
          <5> QED
            BY <5>1, <5>3
        <4> QED
          BY <3>3, <4>1, <4>3
      <3>6. SerialOf(f) \in Bests
        BY <1>3 DEF SerialOf, Bests
      <3>7. SerialOf(f).score = f.best /\ SerialOf(f).move = f.move
        BY DEF SerialOf
      <3>8. PICK i \in 1 .. Len(game.next) : i = f.tried + 1 /\ i - 1 = f.tried
        BY <1>3, <1>4, <3>1
      <3>9. SerialOf(g).score = (IF -r > f.best THEN -r ELSE f.best)
        BY <3>4 DEF SerialOf
      <3>10. SerialOf(g).move = (IF -r > f.best THEN i ELSE f.move)
        BY <1>5, <3>8 DEF SerialOf
      <3>11. -r \in Int /\ f.best <= f.best
        BY <1>2, <1>3
      <3>12. SerialKnows(game, Depth, i, SerialOf(g))
        <4>1. PICK q \in Bests : q = SerialOf(f)
          BY <3>6
        <4>2. PICK k : k = SerialOf(g)
          OBVIOUS
        <4>3. SerialKnows(game, Depth, i - 1, q) /\ q.score = f.best /\ q.move = f.move
          BY <3>1, <3>7, <3>8, <4>1
        <4>4. PICK u \in Int, low \in Int : u = -r /\ low = f.best /\ low <= q.score
          BY <1>3, <3>11, <4>3
        <4>5. /\ k.score = (IF u > q.score THEN u ELSE q.score)
              /\ k.move = (IF u > q.score THEN i ELSE q.move)
          BY <3>9, <3>10, <4>2, <4>3, <4>4
        <4>6. IF Value(game, Depth, i) <= low THEN u <= low ELSE u = Value(game, Depth, i)
          BY <3>5, <3>8, <4>4
        <4>7. Depth \in Nat \ {0} /\ Depth < INF
          BY OptionsAssumption
        <4>8. SerialKnows(game, Depth, i, k)
          BY <3>2, <4>3, <4>4, <4>5, <4>6, <4>7, SerialAfter
        <4> QED
          BY <4>2, <4>8
      <3> QED
        BY <1>5, <1>7, <2>2, <3>1, <3>4, <3>8, <3>12 DEF RootKnows
    <2> QED
      BY <2>1, <2>2
  <1> SUFFICES StackKnows(t)
    BY DEF t, g
  <1> QED
    BY <1>1, <1>7, <1>11, <1>12, <1>13 DEF StackKnows

(* The stack when a call of chunked_negamax returns to another.              *)
LEMMA StackPop ==
  ASSUME NEW s, StackKnows(s), NEW g, g = s[Len(s)], LoopOver(g), Len(s) # 1,
         NEW f, f = s[Len(s) - 1]
  PROVE  /\ StackKnows(Front(s)) /\ Len(Front(s)) = Len(s) - 1 /\ Front(s)[Len(s) - 1] = f
         /\ Answers(f, g.best)
  <1> DEFINE n == Len(s)
             t == Front(s)
             c == CallOf(s, n)
  <1>1. /\ s \in Seq(HostFrames) /\ n \in Nat /\ n # 0 /\ n \in 1 .. n
        /\ n - 1 \in 1 .. n /\ n - 1 \in 1 .. (n - 1) /\ (n - 1) + 1 = n /\ n - 1 # 0
        /\ RootKnows(s[1])
        /\ \A k \in 1 .. n : FrameKnows(s, k)
        /\ \A k \in 1 .. (n - 1) : FrameLinked(s[k], s[k + 1])
    <2>1. /\ s \in Seq(HostFrames) /\ n # 0 /\ n # 1
          /\ RootKnows(s[1])
          /\ \A k \in 1 .. n : FrameKnows(s, k)
          /\ \A k \in 1 .. (n - 1) : FrameLinked(s[k], s[k + 1])
      BY DEF StackKnows
    <2>2. n \in Nat
      BY <2>1
    <2> HIDE DEF n
    <2>3. /\ n \in 1 .. n /\ n - 1 \in 1 .. n /\ n - 1 \in 1 .. (n - 1)
          /\ (n - 1) + 1 = n /\ n - 1 # 0
      BY <2>1, <2>2
    <2> QED
      BY <2>1, <2>2, <2>3
  <1>2. /\ t \in Seq(HostFrames) /\ Len(t) = n - 1
        /\ \A k \in 1 .. (n - 1) : t[k] = s[k] /\ k \in 1 .. n
    BY <1>1 DEF Front
  <1> HIDE DEF t
  <1>3. StackKnows(t)
    <2>1. ASSUME NEW k \in 1 .. (n - 1) PROVE FrameKnows(t, k)
      <3>1. k # 1 => k - 1 \in 1 .. (n - 1)
        BY <1>1
      <3>2. FloorOf(t, k) = FloorOf(s, k) /\ t[k] = s[k]
        BY <1>2, <3>1 DEF FloorOf
      <3>3. CallOf(t, k) = CallOf(s, k)
        BY <3>2 DEF CallOf
      <3> QED
        BY <1>1, <1>2, <3>2, <3>3 DEF FrameKnows
    <2>2. ASSUME NEW k \in 1 .. ((n - 1) - 1) PROVE FrameLinked(t[k], t[k + 1])
      <3>1. k \in 1 .. (n - 1) /\ k + 1 \in 1 .. (n - 1)
        BY <1>1
      <3> QED
        BY <1>1, <1>2, <3>1
    <2>3. t[1] = s[1]
      BY <1>1, <1>2
    <2> QED
      BY <1>1, <1>2, <2>1, <2>2, <2>3 DEF StackKnows
  <1>4. Answers(f, g.best)
    <2>1. /\ g \in HostFrames /\ g.alpha \in Int /\ g.beta \in Int /\ FrameKnows(s, n)
          /\ g.depth \in Nat \ {0} /\ g.tried \in Nat /\ g.best \in Int
          /\ c \in Calls /\ LoopOf(g) \in Loops /\ Len(g.position.next) \in Nat
      BY <1>1, FrameTyped
    <2>2. FrameLinked(f, g)
      BY <1>1
    <2>3. ~LoopOver(f) /\ At(g.position, g.depth, g.ply) = AskedBy(f) /\ g.beta = -f.alpha
      BY <2>2 DEF FrameLinked
    <2>4. /\ ~Terminal(g.position) /\ g.tried <= Len(g.position.next) /\ Window(c)
          /\ LoopKnows(c, g.tried, LoopOf(g))
      BY <2>1 DEF FrameKnows
    <2>5. /\ c.board = g.position /\ c.depth = g.depth /\ c.ply = g.ply /\ c.prune
          /\ c.alpha = -f.beta /\ c.beta = -f.alpha
      BY <1>1, <2>3 DEF CallOf, Call, FloorOf
    <2>6. g.tried = Len(g.position.next) \/ LoopOf(g).cut
      BY DEF LoopOver, LoopOf
    <2>7. g.tried \in 0 .. Len(c.board.next)
      BY <2>1, <2>4, <2>5
    <2>8. LoopOf(g).best = g.best
      BY DEF LoopOf
    <2>9. WorthOf(c) = minimax[AskedBy(f)]
      BY <2>3, <2>5 DEF WorthOf
    <2> HIDE DEF c
    <2>10. Says(LoopOf(g).best, WorthOf(c), c.alpha, c.beta)
      <3>1. c.depth # 0 /\ ~Terminal(c.board)
        BY <2>1, <2>4, <2>5
      <3>2. PICK e \in 0 .. Len(c.board.next), l \in Loops : e = g.tried /\ l = LoopOf(g)
        BY <2>1, <2>7
      <3>3. LoopKnows(c, e, l) /\ (e = Len(c.board.next) \/ l.cut)
        BY <2>4, <2>5, <2>6, <3>2
      <3>4. IF c.prune THEN Says(l.best, WorthOf(c), c.alpha, c.beta) ELSE l.best = WorthOf(c)
        BY <2>1, <2>4, <3>1, <3>3, LoopSays
      <3> QED
        BY <2>5, <3>2, <3>4
    <2> QED
      BY <2>1, <2>3, <2>5, <2>8, <2>9, <2>10 DEF Answers
  <1> QED
    BY <1>1, <1>2, <1>3, <1>4 DEF t

-----------------------------------------------------------------------------
(* The stack of the next state.                                              *)
LEMMA StackNext ==
  ASSUME NEW s, StackKnows(s), s = frames', game' = game
  PROVE  StackKnows(frames)'
  <1>1. RootKnows(s[1])
    BY DEF StackKnows
  <1>2. RootKnows(frames[1])'
    BY <1>1 DEF RootKnows, SerialOf, SerialKnows, Value
  <1>3. ASSUME NEW k \in 1 .. Len(frames') PROVE FrameKnows(frames, k)'
    <2>1. FrameKnows(frames', k)
      BY DEF StackKnows
    <2> QED
      BY <2>1 DEF FrameKnows, CallOf, FloorOf, LoopKnows, LoopOf, Window, Gain, Call, At, HostFrames
  <1>4. \A k \in 1 .. (Len(frames') - 1) : FrameLinked(frames[k], frames[k + 1])'
    BY DEF StackKnows, FrameLinked, AskedBy, LoopOver, At
  <1> QED
    BY <1>2, <1>3, <1>4 DEF StackKnows, HostFrames

LEMMA StackSame ==
  ASSUME StackKnows(frames), UNCHANGED <<frames, game>>
  PROVE  StackKnows(frames)'
  BY StackNext

(* The scores of a batch.                                                    *)
ComputedOf(b) == [i \in DOMAIN b.positions |->
                    IF b.negate THEN -Minimax(b.positions[i], b.depth, b.ply)
                    ELSE Minimax(b.positions[i], b.depth, b.ply)]

(* The batch of a chunk is worth what the frame asks for.                    *)
ChunkBatch(p, d, e) == IF Terminal(p) \/ d = 0 THEN Batch(<<p>>, d, e, FALSE)
                                                 ELSE Batch(p.next, d - 1, e + 1, TRUE)

LEMMA ChunkScore ==
  ASSUME NEW s, StackKnows(s), NEW f, f = s[Len(s)], ~LoopOver(f),
         NEW b, b = ChunkBatch(f.position.next[f.tried + 1], f.depth - 1, f.ply + 1)
  PROVE  FirstBest(ComputedOf(b)).score = minimax[AskedBy(f)]
  <1> DEFINE n == Len(s)
  <1>1. n \in 1 .. n
    BY DEF StackKnows
  <1>2. PICK p \in Position, d \in Nat, e \in Nat :
          /\ p = f.position.next[f.tried + 1] /\ d = f.depth - 1 /\ e = f.ply + 1
          /\ At(p, d, e) \in Searched /\ AskedBy(f) = At(p, d, e) /\ minimax[At(p, d, e)] \in Int
          /\ -INF < minimax[At(p, d, e)]
    BY <1>1, AskedTyped DEF AskedBy
  <1> DEFINE v == minimax[At(p, d, e)]
  <1>3. v = MinimaxBody(minimax, At(p, d, e))
    BY <1>2, MinimaxIs
  <1>4. b = ChunkBatch(p, d, e)
    BY <1>2
  <1>5. FirstBest(ComputedOf(b)).score = Max({-INF} \cup ToSet(ComputedOf(b)))
    BY DEF FirstBest
  <1>6. CASE Terminal(p) \/ d = 0
    <2>1. ComputedOf(b) = [i \in 1 .. 1 |-> v]
      <3>1. b = Batch(<<p>>, d, e, FALSE)
        BY Zenon, <1>4, <1>6 DEF ChunkBatch
      <3>2. DOMAIN <<p>> = 1 .. 1 /\ <<p>>[1] = p /\ \A i \in 1 .. 1 : i = 1
        OBVIOUS
      <3>3. b.positions = <<p>> /\ b.depth = d /\ b.ply = e /\ ~b.negate
        <4>1. b = [positions |-> <<p>>, depth |-> d, ply |-> e, negate |-> FALSE]
          BY Zenon, <3>1 DEF Batch
        <4>2. PICK ps : ps = <<p>>
          OBVIOUS
        <4>3. b = [positions |-> ps, depth |-> d, ply |-> e, negate |-> FALSE]
          BY Zenon, <4>1, <4>2
        <4>4. b.positions = ps /\ b.depth = d /\ b.ply = e /\ ~b.negate
          BY <4>3
        <4> QED
          BY Zenon, <4>2, <4>4
      <3>4. DOMAIN b.positions = 1 .. 1 /\ \A i \in 1 .. 1 : b.positions[i] = p
        BY Zenon, <3>2, <3>3
      <3> QED
        BY Zenon, <3>3, <3>4 DEF ComputedOf, Minimax
    <2>2. ToSet(ComputedOf(b)) = {v}
      BY <2>1 DEF ToSet
    <2>3. {-INF} \cup {v} = {-INF, v}
      OBVIOUS
    <2> HIDE DEF v
    <2>4. Max({-INF, v}) = v
      <3>1. v \in Int /\ -INF < v /\ -INF \in Int
        BY <1>2, GameTreeAssumption DEF v
      <3>2. {-INF, v} \in SUBSET Int /\ v \in {-INF, v} /\ \A y \in {-INF, v} : y <= v
        BY <3>1
      <3> QED
        BY <3>2, MaxIs
    <2> QED
      BY <1>2, <1>5, <2>2, <2>3, <2>4 DEF v
  <1>7. CASE ~(Terminal(p) \/ d = 0)
    <2>1. /\ b.positions = p.next /\ b.depth = d - 1 /\ b.ply = e + 1 /\ b.negate
      BY <1>4, <1>7 DEF ChunkBatch, Batch
    <2>2. ComputedOf(b) = [i \in DOMAIN p.next |-> -minimax[At(p.next[i], d - 1, e + 1)]]
      BY Zenon, <2>1 DEF ComputedOf, Minimax
    <2>3. ToSet(ComputedOf(b)) = {-minimax[At(p.next[i], d - 1, e + 1)] : i \in DOMAIN p.next}
      BY <2>2 DEF ToSet
    <2>4. v = Max({-INF} \cup {-minimax[At(p.next[i], d - 1, e + 1)] : i \in DOMAIN p.next})
      BY Zenon, <1>3, <1>7 DEF MinimaxBody, At
    <2> QED
      BY <1>2, <1>5, <2>3, <2>4
  <1> QED
    BY <1>6, <1>7

(* All root moves in one batch are worth what the serial search returns.     *)
LEMMA WholeScore ==
  ASSUME NEW p \in Known[Depth], ~Terminal(p),
         NEW b, b = Batch(p.next, Depth - 1, 1, TRUE)
  PROVE  FirstBest(ComputedOf(b)) = [score |-> SerialSearch(p, Depth, TRUE).score,
                                     move  |-> SerialSearch(p, Depth, TRUE).move]
  <1>1. Depth \in Nat \ {0} /\ Depth < INF
    BY OptionsAssumption
  <1>2. [score |-> SerialSearch(p, Depth, TRUE).score, move |-> SerialSearch(p, Depth, TRUE).move]
        = FirstBest([i \in DOMAIN p.next |-> -Minimax(p.next[i], Depth - 1, 1)])
    BY <1>1, SerialFindsBest
  <1>3. b.positions = p.next /\ b.depth = Depth - 1 /\ b.ply = 1 /\ b.negate
    BY DEF Batch
  <1>4. ComputedOf(b) = [i \in DOMAIN p.next |-> -Minimax(p.next[i], Depth - 1, 1)]
    BY Zenon, <1>3 DEF ComputedOf
  <1> QED
    BY <1>2, <1>4

LEMMA ComputedIs ==
  Computed = ComputedOf(batch)
  BY DEF Computed, DeviceScore, ComputedOf

LEMMA ComputedNext ==
  ASSUME NEW b, b = batch'
  PROVE  Computed' = ComputedOf(b)
  BY DEF Computed, DeviceScore, ComputedOf

LEMMA InnermostIs ==
  ASSUME StackKnows(frames)
  PROVE  frame = frames[Len(frames)] /\ Len(frames) \in 1 .. Len(frames)
  BY DEF frame, Last, StackKnows

LEMMA InnermostNext ==
  ASSUME NEW s, s = frames'
  PROVE  frame' = s[Len(s)]
  BY DEF frame, Last

-----------------------------------------------------------------------------
(* The host starts with nothing allocated and no answer.                     *)
LEMMA HostStarts ==
  HostInit => HostInv
  BY DEF HostInit, HostInv, Configured, Allowed, Recursing, Returning, Batching, Folding, Busy,
         OffloadIsExact, AnswerIsExact, BuffersReleased

LEMMA NoMovesKeeps ==
  ASSUME HostInv, NoMoves
  PROVE  HostInv'
  <1>1. buffers = {} /\ Configured /\ Terminal(game)
    BY DEF NoMoves, HostInv, OffloadIsExact, BuffersReleased
  <1>2. CASE backend.required
    BY <1>1, <1>2 DEF NoMoves, Throw, Keep, HostInv, Configured, Allowed, Recursing, Returning, Batching,
         Folding, Busy, OffloadIsExact, AnswerIsExact, BuffersReleased
  <1>3. CASE ~backend.required
    <2>1. /\ stage' = "answered" /\ game' = game /\ backend' = backend /\ buffers' = buffers
          /\ answer' = [score |-> SerialSearch(game, Depth, TRUE).score, move |-> 0]
      BY <1>3 DEF NoMoves, Keep
    <2>2. SerialSearch(game, Depth, TRUE).move = 0
      <3>1. game \in Position
        BY <1>1, OptionsAssumption, KnownIs DEF Configured
      <3> QED
        <4>1. Depth \in Nat \ {0} /\ TRUE \in BOOLEAN
          BY OptionsAssumption
        <4>2. SerialSearch(game, Depth, TRUE) = [score |-> StaticScore(game, 0), move |-> 0, nodes |-> 1]
          BY Zenon, <1>1, <3>1, <4>1, SerialIs
        <4>3. [score |-> StaticScore(game, 0), move |-> 0, nodes |-> 1].move = 0
          OBVIOUS
        <4> QED
          BY Zenon, <4>2, <4>3
    <2> QED
      BY <1>1, <1>3, <2>1, <2>2 DEF HostInv, Configured, Allowed, Recursing, Returning, Batching,
         Folding, Busy, OffloadIsExact, AnswerIsExact, BuffersReleased
  <1> QED
    BY <1>2, <1>3

(* An exception leaves the host with nothing to keep.                        *)
LEMMA ThrowKeeps ==
  ASSUME HostInv, stage' = "error", Keep, buffers' = {}
  PROVE  HostInv'
  BY DEF Keep, HostInv, Configured, Allowed, Recursing, Returning, Batching,
         Folding, Busy, OffloadIsExact, AnswerIsExact, BuffersReleased

LEMMA BuildMovesKeeps ==
  ASSUME HostInv, BuildMoves
  PROVE  HostInv'
  <1>1. /\ buffers = {} /\ buffers' = buffers /\ Configured /\ ~Terminal(game) /\ ~backend.chunked
    BY DEF BuildMoves, HostInv, OffloadIsExact, BuffersReleased
  <1>2. CASE Throw
    BY <1>1, <1>2, ThrowKeeps DEF Throw
  <1>3. CASE ~Throw
    <2>1. /\ ~NoDevice /\ stage' = "allocate" /\ Keep
          /\ batch' = Batch(game.next, Depth - 1, 1, TRUE)
      BY <1>3 DEF BuildMoves, Prepare
    <2>2. backend.required => device
      BY <1>1, <2>1 DEF NoDevice
    <2> QED
      BY <1>1, <2>1, <2>2 DEF Keep, HostInv, Configured, Allowed, Recursing, Returning, Batching,
         Folding, Busy, WholeBatch, Batch, OffloadIsExact, AnswerIsExact, BuffersReleased
  <1> QED
    BY <1>2, <1>3

(* The frame of the root.                                                    *)
LEMMA RootStack ==
  ASSUME Configured, ~Terminal(game)
  PROVE  StackKnows(<< HostFrame(game, Depth, 0, -INF, INF) >>)
  <1>1. /\ game \in Known[Depth] /\ game \in Position /\ Depth \in Nat /\ Depth # 0 /\ INF \in Nat
        /\ -INF \in Int /\ INF \in Int /\ -INF < INF /\ 0 \in Nat
    BY OptionsAssumption, GameTreeAssumption, KnownIs DEF Configured
  <1>2. PICK g : g = HostFrame(game, Depth, 0, -INF, INF)
    OBVIOUS
  <1>3. /\ g \in HostFrames /\ g.position = game /\ g.depth = Depth /\ g.ply = 0
        /\ g.alpha = -INF /\ g.beta = INF /\ g.tried = 0 /\ g.best = -INF /\ g.move = 0
    BY <1>1, <1>2, FrameMade
  <1>4. PICK s : s = <<g>>
    OBVIOUS
  <1>5. s \in Seq(HostFrames) /\ Len(s) = 1 /\ s[1] = g
    BY <1>3, <1>4
  <1>6. RootKnows(g)
    <2>1. SerialOf(g).score = -INF /\ SerialOf(g).move = 0
      BY <1>3 DEF SerialOf
    <2>2. \A j \in 1 .. 0 : FALSE
      OBVIOUS
    <2> QED
      BY <1>3, <2>1, <2>2 DEF RootKnows, SerialKnows
  <1>7. FrameKnows(s, 1)
    <2> DEFINE c == Call(game, Depth, 0, -INF, INF, TRUE)
    <2>1. CallOf(s, 1) = c
      BY <1>3, <1>5 DEF CallOf, FloorOf
    <2>2. c.alpha = -INF /\ c.beta = INF /\ c.prune
      BY DEF Call
    <2> HIDE DEF c
    <2>3. -INF <= -INF /\ INF <= INF
      BY <1>1
    <2>4. Window(c)
      BY <1>1, <2>2, <2>3 DEF Window
    <2>5. LoopOf(g).best = -INF /\ LoopOf(g).alpha = -INF /\ ~LoopOf(g).cut
      <3>1. g.alpha \in Int /\ g.beta \in Int /\ g.alpha < g.beta
        BY <1>1, <1>3
      <3> QED
        BY <1>3, <3>1, LoopOpen
    <2>6. \A j \in 1 .. 0 : FALSE
      OBVIOUS
    <2>7. LoopKnows(c, 0, LoopOf(g))
      BY Zenon, <1>1, <2>2, <2>3, <2>5, <2>6 DEF LoopKnows
    <2>8. 0 <= Len(game.next) /\ Depth + 0 = Depth
      BY <1>1, Moves
    <2> QED
      BY Zenon, <1>1, <1>3, <1>5, <2>1, <2>4, <2>7, <2>8 DEF FrameKnows
  <1>8. (\A k \in 1 .. 1 : k = 1) /\ (\A k \in 1 .. (1 - 1) : FALSE)
    OBVIOUS
  <1>9. StackKnows(s)
    BY <1>5, <1>6, <1>7, <1>8 DEF StackKnows
  <1> QED
    BY <1>2, <1>4, <1>9

LEMMA StartChunkedKeeps ==
  ASSUME HostInv, StartChunked
  PROVE  HostInv'
  <1>1. /\ buffers = {} /\ buffers' = buffers /\ Configured /\ ~Terminal(game) /\ backend.chunked
    BY DEF StartChunked, HostInv, OffloadIsExact, BuffersReleased
  <1>2. CASE NoDevice
    BY <1>1, <1>2, ThrowKeeps DEF StartChunked, Throw
  <1>3. CASE ~NoDevice
    <2>1. /\ stage' = "search" /\ Keep
          /\ frames' = << HostFrame(game, Depth, 0, -INF, INF) >>
      BY <1>3 DEF StartChunked
    <2>2. backend.required => device
      BY <1>3 DEF NoDevice
    <2>3. StackKnows(frames)'
      BY <1>1, <2>1, RootStack, StackNext DEF Keep
    <2> QED
      BY <1>1, <2>1, <2>2, <2>3 DEF Keep, HostInv, Configured, Allowed, Recursing, Returning, Batching,
         Folding, Busy, OffloadIsExact, AnswerIsExact, BuffersReleased
  <1> QED
    BY <1>2, <1>3

LEMMA TryKeeps ==
  ASSUME HostInv, Try
  PROVE  HostInv'
  <1> DEFINE f == frame
             p == f.position.next[f.tried + 1]
             d == f.depth - 1
             e == f.ply + 1
  <1>1. /\ stage = "search" /\ buffers = {} /\ buffers' = {} /\ Configured /\ Keep /\ ~LoopOver(f)
        /\ backend.chunked /\ StackKnows(frames) /\ (backend.required => device)
    BY DEF Try, Searching, HostInv, OffloadIsExact, BuffersReleased, Recursing, Allowed
  <1>2. Configured' /\ (backend.required => device)' /\ backend' = backend /\ game' = game
    BY <1>1 DEF Configured, Keep
  <1>3. f = frames[Len(frames)] /\ Len(frames) \in 1 .. Len(frames)
    BY <1>1, InnermostIs
  <1> HIDE DEF f
  <1>4. /\ p \in Known[d] /\ p \in Position /\ d \in Nat /\ e \in Nat
        /\ AskedBy(f) = At(p, d, e) /\ At(p, d, e) \in Searched /\ minimax[At(p, d, e)] \in Int
    BY <1>1, <1>3, AskedTyped DEF AskedBy
  <1> HIDE DEF p, d, e
  <1>5. backend.chunk \in Nat /\ backend.chunk # 0
    <2>1. backend.chunk \in 1 .. 12
      BY <1>1, OffloadAssumption DEF Configured, Backends
    <2> QED
      BY <2>1
  <1>6. CASE d > backend.chunk /\ Terminal(p)
    <2>1. /\ stage' = "returned" /\ returned' = StaticScore(p, e)
          /\ UNCHANGED <<frames, batch, batchScores, answer>>
      BY <1>6 DEF Try, f, p, d, e
    <2>2. minimax[At(p, d, e)] = StaticScore(p, e)
      BY <1>4, <1>6, MinimaxIs DEF MinimaxBody, At
    <2>3. Answers(f, StaticScore(p, e))
      <3>1. minimax[AskedBy(f)] = StaticScore(p, e) /\ StaticScore(p, e) \in Int
        BY <1>4, <2>2
      <3>2. StaticScore(p, e) <= StaticScore(p, e)
        BY <3>1
      <3> QED
        BY Zenon, <1>1, <3>1, <3>2 DEF Answers, Says
    <2>4. StackKnows(frames)'
      BY <1>1, <1>2, <2>1, StackSame
    <2>5. frame' = f /\ Answers(frame, returned)'
      <3>1. frame' = f
        BY <2>1 DEF frame, f
      <3>2. Answers(frame', returned')
        BY <2>1, <2>3, <3>1
      <3> QED
        BY <3>1, <3>2 DEF Answers, LoopOver, Says, AskedBy, At
    <2> QED
      BY <1>1, <1>2, <2>1, <2>4, <2>5 DEF HostInv, Allowed, Recursing, Returning, Batching,
         Folding, Busy, OffloadIsExact, AnswerIsExact, BuffersReleased
  <1>7. CASE d > backend.chunk /\ ~Terminal(p)
    <2> DEFINE g == HostFrame(p, d, e, -f.beta, -f.alpha)
    <2>1. /\ stage' = stage /\ frames' = Append(frames, g)
      BY <1>7 DEF Try, ChildWindow, f, p, d, e
    <2>2. d # 0
      BY <1>4, <1>5, <1>7
    <2>3. StackKnows(Append(frames, g))
      BY <1>1, <1>3, <1>7, <2>2, StackPush DEF p, d, e
    <2> HIDE DEF g
    <2>4. StackKnows(frames)'
      BY <1>2, <2>1, <2>3, StackNext
    <2> QED
      BY <1>1, <1>2, <2>1, <2>4 DEF HostInv, Allowed, Recursing, Returning, Batching,
         Folding, Busy, OffloadIsExact, AnswerIsExact, BuffersReleased
  <1>8. CASE ~(d > backend.chunk)
    <2> DEFINE b == ChunkBatch(p, d, e)
    <2>1. CASE Throw
      BY <1>1, <2>1, ThrowKeeps DEF Throw
    <2>2. CASE ~Throw
      <3>1. stage' = "allocate" /\ batch' = b /\ UNCHANGED <<frames, returned, answer>>
        BY <1>8, <2>2 DEF Try, Prepare, ChunkBatch, f, p, d, e
      <3>2. FirstBest(ComputedOf(b)).score = minimax[AskedBy(f)]
        BY <1>1, <1>3, ChunkScore DEF p, d, e
      <3>3. StackKnows(frames)'
        BY <1>1, <1>2, <3>1, StackSame
      <3> HIDE DEF b
      <3>4. ChunkSays'
        <4>1. frame' = f
          BY <3>1 DEF frame, f
        <4>2. Computed' = ComputedOf(b)
          BY <3>1, ComputedNext
        <4>3. ~LoopOver(frame) /\ f = frame
          BY <1>1 DEF f
        <4>4. ~LoopOver(frame')
          BY <4>1, <4>3
        <4>5. FirstBest(Computed').score = minimax[AskedBy(frame')]
          BY <3>2, <4>1, <4>2
        <4> QED
          BY <4>4, <4>5 DEF ChunkSays, LoopOver, AskedBy, At, FirstBest
      <3> QED
        BY <1>1, <1>2, <3>1, <3>3, <3>4 DEF HostInv, Allowed, Recursing, Returning, Batching,
           Folding, Busy, OffloadIsExact, AnswerIsExact, BuffersReleased
    <2> QED
      BY <2>1, <2>2
  <1> QED
    BY <1>6, <1>7, <1>8

LEMMA TakeKeeps ==
  ASSUME HostInv, Take
  PROVE  HostInv'
  <1>1. /\ stage = "returned" /\ stage' = "search" /\ buffers = {} /\ buffers' = {} /\ Configured /\ Keep
        /\ backend.chunked /\ StackKnows(frames) /\ (backend.required => device)
        /\ Answers(frame, returned)
    BY DEF Take, HostInv, OffloadIsExact, BuffersReleased, Recursing, Returning, Allowed
  <1>2. Configured' /\ (backend.required => device)' /\ backend' = backend /\ game' = game
    BY <1>1 DEF Configured, Keep
  <1>3. frame = frames[Len(frames)]
    BY <1>1, InnermostIs
  <1>4. frames' = [frames EXCEPT ![Len(frames)] = Taken(frame, returned)]
    BY DEF Take, Taken
  <1>5. StackKnows([frames EXCEPT ![Len(frames)] = Taken(frame, returned)])
    BY <1>1, <1>3, StackTake
  <1>6. StackKnows(frames)'
    BY <1>2, <1>4, <1>5, StackNext
  <1> QED
    BY <1>1, <1>2, <1>6 DEF HostInv, Allowed, Recursing, Returning, Batching,
       Folding, Busy, OffloadIsExact, AnswerIsExact, BuffersReleased

LEMMA GiveBackKeeps ==
  ASSUME HostInv, GiveBack
  PROVE  HostInv'
  <1>1. /\ stage = "search" /\ buffers = {} /\ buffers' = {} /\ Configured /\ Keep /\ LoopOver(frame)
        /\ backend.chunked /\ StackKnows(frames) /\ (backend.required => device)
    BY DEF GiveBack, Searching, HostInv, OffloadIsExact, BuffersReleased, Recursing, Allowed
  <1>2. /\ Configured' /\ (backend.required => device)' /\ backend' = backend /\ game' = game
        /\ device' = device
    BY <1>1 DEF Configured, Keep
  <1>3. frame = frames[Len(frames)] /\ Len(frames) \in 1 .. Len(frames)
    BY <1>1, InnermostIs
  <1>4. CASE Len(frames) = 1
    <2>1. stage' = "answered" /\ answer' = [score |-> frame.best, move |-> frame.move]
      BY <1>4 DEF GiveBack
    <2>2. /\ frame \in HostFrames /\ frame.best \in Int /\ frame.move \in Nat
          /\ frame.tried \in Nat /\ FrameKnows(frames, 1) /\ RootKnows(frame)
      BY <1>1, <1>3, <1>4, FrameTyped DEF StackKnows
    <2>3. /\ game \in Known[Depth] /\ ~Terminal(game) /\ frame.position = game
          /\ frame.beta = INF /\ frame.alpha = frame.best
          /\ SerialKnows(game, Depth, frame.tried, SerialOf(frame))
      BY <1>3, <1>4, <2>2 DEF RootKnows, FrameKnows
    <2>4. SerialOf(frame) \in Bests
      BY <2>2 DEF SerialOf, Bests
    <2>5. SerialOf(frame).score = frame.best /\ SerialOf(frame).move = frame.move
      BY DEF SerialOf
    <2>6. frame.best < INF
      BY <2>3, <2>5, GameTreeAssumption DEF SerialKnows
    <2>7. frame.tried = Len(game.next)
      BY <1>1, <2>2, <2>3, <2>6, GameTreeAssumption DEF LoopOver
    <2>8. Depth \in Nat \ {0} /\ Depth < INF
      BY OptionsAssumption
    <2>9. [score |-> frame.best, move |-> frame.move]
          = FirstBest([i \in DOMAIN game.next |-> -Minimax(game.next[i], Depth - 1, 1)])
      <3>1. PICK r \in Bests : r = SerialOf(frame)
        BY <2>4
      <3>2. SerialKnows(game, Depth, Len(game.next), r)
        BY <2>3, <2>7, <3>1
      <3>3. [score |-> r.score, move |-> r.move]
            = FirstBest([i \in DOMAIN game.next |-> -Minimax(game.next[i], Depth - 1, 1)])
        BY <2>3, <2>8, <3>2, SerialIsBest
      <3> QED
        BY <2>5, <3>1, <3>3
    <2>10. [score |-> SerialSearch(game, Depth, TRUE).score,
            move |-> SerialSearch(game, Depth, TRUE).move]
           = FirstBest([i \in DOMAIN game.next |-> -Minimax(game.next[i], Depth - 1, 1)])
      BY <2>3, <2>8, SerialFindsBest
    <2>11. answer' = [score |-> SerialSearch(game, Depth, TRUE).score,
                      move |-> SerialSearch(game, Depth, TRUE).move]
      BY <2>1, <2>9, <2>10
    <2> QED
      BY <1>1, <1>2, <2>1, <2>11 DEF HostInv, Allowed, Recursing, Returning, Batching,
         Folding, Busy, OffloadIsExact, AnswerIsExact, BuffersReleased
  <1>5. CASE Len(frames) # 1
    <2>1. stage' = "returned" /\ returned' = frame.best /\ frames' = Front(frames)
      BY <1>5 DEF GiveBack
    <2>2. PICK f : f = frames[Len(frames) - 1]
      OBVIOUS
    <2>3. /\ StackKnows(Front(frames)) /\ Len(Front(frames)) = Len(frames) - 1
          /\ Front(frames)[Len(frames) - 1] = f
          /\ Answers(f, frame.best)
      BY <1>1, <1>3, <1>5, <2>2, StackPop
    <2>4. StackKnows(frames)'
      BY <1>2, <2>1, <2>3, StackNext
    <2>5. frame' = f
      BY <2>1, <2>3, InnermostNext
    <2>6. Answers(frame', returned')
      BY <2>1, <2>3, <2>5
    <2>7. Answers(frame, returned)'
      BY <2>6 DEF Answers, LoopOver, Says, AskedBy, At
    <2> QED
      BY <1>1, <1>2, <2>1, <2>4, <2>7 DEF HostInv, Allowed, Recursing, Returning, Batching,
         Folding, Busy, OffloadIsExact, AnswerIsExact, BuffersReleased
  <1> QED
    BY <1>4, <1>5

(* The target region: mapped arrays, or the calls of --profile.              *)
LEMMA DeviceKeeps ==
  ASSUME HostInv, Map \/ Allocate \/ CopyIn \/ CopyOut
  PROVE  HostInv'
  <1>1. /\ stage \in Busy /\ Configured /\ Run /\ (backend.required => device)
        /\ (IF backend.chunked THEN StackKnows(frames) /\ ChunkSays ELSE WholeBatch)
    BY DEF Map, Allocate, CopyIn, CopyOut, HostInv, Busy, Allowed, Batching
  <1>2. /\ Configured' /\ (backend.required => device)' /\ backend' = backend /\ game' = game
        /\ frames' = frames /\ batch' = batch
    BY <1>1 DEF Configured, Keep, Run
  <1>3. Computed' = Computed
    BY <1>2, ComputedIs, ComputedNext
  <1>4. (IF backend.chunked THEN StackKnows(frames) /\ ChunkSays ELSE WholeBatch)'
    <2>1. CASE backend.chunked
      <3>1. StackKnows(frames)'
        BY <1>1, <1>2, <2>1, StackSame
      <3>2. frame' = frame
        BY <1>2 DEF frame
      <3>3. ~LoopOver(frame') /\ FirstBest(Computed').score = minimax[AskedBy(frame')]
        BY <1>1, <1>3, <2>1, <3>2 DEF ChunkSays
      <3>4. ChunkSays'
        BY <3>3 DEF ChunkSays, LoopOver, AskedBy, At, FirstBest
      <3> QED
        BY <1>2, <2>1, <3>1, <3>4
    <2>2. CASE ~backend.chunked
      <3>1. WholeBatch'
        BY <1>1, <1>2, <2>2 DEF WholeBatch
      <3> QED
        BY <1>2, <2>2, <3>1
    <2> QED
      BY <2>1, <2>2
  <1>5. stage' \in {"copy in", "copy out"} \/ buffers' = {}
    BY DEF Map, Allocate, CopyIn, CopyOut, ReleaseAndThrow, HostInv, OffloadIsExact, BuffersReleased
  <1>6. stage' \in {"copy in", "copy out", "fold", "error"}
    BY DEF Map, Allocate, CopyIn, CopyOut, ReleaseAndThrow
  <1>7. stage' = "fold" => batchScores' = Computed
    BY DEF Map, Allocate, CopyIn, CopyOut, ReleaseAndThrow, AllCopied, Copies
  <1> QED
    BY <1>1, <1>2, <1>3, <1>4, <1>5, <1>6, <1>7 DEF HostInv, Allowed, Recursing, Returning, Batching,
       Folding, Busy, OffloadIsExact, AnswerIsExact, BuffersReleased

LEMMA FoldKeeps ==
  ASSUME HostInv, Fold
  PROVE  HostInv'
  <1>1. /\ stage = "fold" /\ Configured /\ Keep /\ (backend.required => device)
        /\ (IF backend.chunked THEN StackKnows(frames) /\ ChunkSays ELSE WholeBatch)
        /\ batchScores = Computed /\ buffers = {} /\ buffers' = {} /\ frames' = frames
    BY DEF Fold, HostInv, Busy, Allowed, Batching, Folding, OffloadIsExact, BuffersReleased
  <1>2. /\ Configured' /\ (backend.required => device)' /\ backend' = backend /\ game' = game
        /\ device' = device
    BY <1>1 DEF Configured, Keep
  <1>3. CASE backend.chunked
    <2>1. stage' = "returned" /\ returned' = FirstBest(Computed).score
      BY <1>1, <1>3 DEF Fold
    <2>2. /\ StackKnows(frames) /\ ~LoopOver(frame)
          /\ FirstBest(Computed).score = minimax[AskedBy(frame)]
      BY <1>1, <1>3 DEF ChunkSays
    <2>3. StackKnows(frames)'
      BY <1>1, <1>2, <2>2, StackSame
    <2>4. minimax[AskedBy(frame)] \in Int
      BY <2>2, InnermostIs, AskedTyped
    <2>5. Answers(frame, minimax[AskedBy(frame)])
      <3>1. minimax[AskedBy(frame)] <= minimax[AskedBy(frame)]
        BY <2>4
      <3> QED
        BY Zenon, <2>2, <2>4, <3>1 DEF Answers, Says
    <2>6. frame' = frame
      BY <1>1 DEF frame
    <2>7. Answers(frame', returned')
      BY <2>1, <2>2, <2>5, <2>6
    <2>8. Answers(frame, returned)'
      BY <2>7 DEF Answers, LoopOver, Says, AskedBy, At
    <2> QED
      BY <1>1, <1>2, <1>3, <2>1, <2>3, <2>8 DEF HostInv, Allowed, Recursing, Returning, Batching,
         Folding, Busy, OffloadIsExact, AnswerIsExact, BuffersReleased
  <1>4. CASE ~backend.chunked
    <2>1. stage' = "answered" /\ answer' = FirstBest(Computed)
      BY <1>1, <1>4 DEF Fold
    <2>2. ~Terminal(game) /\ batch = Batch(game.next, Depth - 1, 1, TRUE) /\ game \in Known[Depth]
      BY <1>1, <1>4, OptionsAssumption DEF WholeBatch, Configured
    <2>3. FirstBest(ComputedOf(batch)) = [score |-> SerialSearch(game, Depth, TRUE).score,
                                          move  |-> SerialSearch(game, Depth, TRUE).move]
      BY <2>2, WholeScore
    <2>4. answer' = [score |-> SerialSearch(game, Depth, TRUE).score,
                     move  |-> SerialSearch(game, Depth, TRUE).move]
      BY <2>1, <2>3, ComputedIs
    <2> QED
      BY <1>1, <1>2, <2>1, <2>4 DEF HostInv, Allowed, Recursing, Returning, Batching,
         Folding, Busy, OffloadIsExact, AnswerIsExact, BuffersReleased
  <1> QED
    BY <1>3, <1>4

LEMMA HostStutters ==
  ASSUME HostInv, UNCHANGED hostVars
  PROVE  HostInv'
  <1>1. /\ stage' = stage /\ game' = game /\ backend' = backend /\ device' = device
        /\ frames' = frames /\ returned' = returned /\ batch' = batch /\ buffers' = buffers
        /\ batchScores' = batchScores /\ answer' = answer
    BY DEF hostVars
  <1>2. frame' = frame /\ Computed' = Computed
    BY <1>1, ComputedIs, ComputedNext DEF frame
  <1>3. Configured' /\ Allowed'
    BY <1>1 DEF HostInv, Configured, Allowed
  <1>4. StackKnows(frames) => StackKnows(frames)'
    BY <1>1, StackSame
  <1>5. Answers(frame, returned) => Answers(frame, returned)'
    <2>1. Answers(frame, returned) => Answers(frame', returned')
      BY <1>1, <1>2
    <2> QED
      BY <2>1 DEF Answers, LoopOver, Says, AskedBy, At
  <1>6. ChunkSays => ChunkSays'
    <2>1. ChunkSays => ~LoopOver(frame') /\ FirstBest(Computed').score = minimax[AskedBy(frame')]
      BY <1>2 DEF ChunkSays
    <2> QED
      BY <2>1 DEF ChunkSays, LoopOver, AskedBy, At, FirstBest
  <1>7. WholeBatch => WholeBatch'
    BY <1>1 DEF WholeBatch
  <1>8. OffloadIsExact'
    BY <1>1 DEF HostInv, OffloadIsExact, AnswerIsExact, BuffersReleased
  <1> QED
    BY <1>1, <1>2, <1>3, <1>4, <1>5, <1>6, <1>7, <1>8
       DEF HostInv, Recursing, Returning, Batching, Folding

LEMMA HostKeeps ==
  HostInv /\ [HostNext]_hostVars => HostInv'
  BY NoMovesKeeps, BuildMovesKeeps, StartChunkedKeeps, TryKeeps, TakeKeeps, GiveBackKeeps,
     DeviceKeeps, FoldKeeps, HostStutters DEF HostNext

(* Whatever the backend, the chunk depth, the device and the calls of the    *)
(* runtime that fail, an answer of the offloaded backends has the score and  *)
(* the move of the pruned serial search, is given without a device only if   *)
(* none is required, and no device memory is held outside a target region.   *)
THEOREM OffloadedSearchIsExact ==
  HostSpec => []OffloadIsExact
  <1>1. HostInv => OffloadIsExact
    BY DEF HostInv
  <1> QED
    BY <1>1, HostStarts, HostKeeps, PTL DEF HostSpec
=============================================================================
