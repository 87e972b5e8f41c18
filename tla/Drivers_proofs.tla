---------------------------- MODULE Drivers_proofs ----------------------------
(***************************************************************************)
(* The suite of experiments and the chess measurements, for any trials and *)
(* any number of jobs.  A job changes its own variables only, so that the  *)
(* invariant of one program is an invariant of JobSpec.                    *)
(***************************************************************************)
EXTENDS MC_Drivers, SequenceTheorems, WellFoundedInduction, TLAPS

Facts == INSTANCE FiniteSetTheorems

-----------------------------------------------------------------------------
(* The suite: main() of run_real_experiments.py *)

Doings == {"start", "heal", "healthy", "peer_tcp", "settle_views", "isolate",
           "verify_isolation", "stop", "connect", "next scenario",
           "prepare", "workload", "measure", "probe", "record"}
Calls == [do : Doings, on : S!Node \cup Client]
Keys  == (1 .. 3) \X Client

Typed == /\ lab \in [S!Node -> S!Condition]
         /\ stage \in {"try", "complete", "except", "finally", "ended", "died"}
         /\ todo \in Seq(Calls)
         /\ scenario \in 0 .. 3
         /\ prepared \subseteq Client /\ pending \in Seq(Client)
         /\ records \in Seq(Keys) /\ lines \in Seq(Keys)
         /\ completion \in [status : {"none", "complete", "incomplete"}, histories : Nat]

(* The calls that name a trial, or put such calls in the list.               *)
Special == {"prepare", "workload", "measure", "probe", "record"}
Plain(q) == \A j \in 1 .. Len(q) : q[j].do \notin Special

(* The list without the record that a workload or a probe has put in front.  *)
Strip(q) == IF q # << >> /\ q[1].do = "record" THEN Tail(q) ELSE q

(* q is what is left of the plan from position i on.                         *)
From(q, plan, i) ==
    /\ i \in 1 .. Len(plan)
    /\ Len(q) = Len(plan) + 1 - i
    /\ \A j \in 1 .. Len(q) : q[j] = plan[i + j - 1]

Trials == S!Cardinality(Client)
Fault == S!Faulty(S!SCENARIOS[scenario])
AllOpen == \A n \in S!Node : lab[n] = "open"

(* Before the pass has measured.  The writes of prepare begin at position 4, *)
(* the fault at 4 + Trials.                                                  *)
SoFar(cases, i) == {cases[j] : j \in {k \in 1 .. Trials : k + 3 < i}}

Before(cases, i) ==
    /\ From(Strip(todo), S!Episode(S!SCENARIOS[scenario], cases), i)
    /\ prepared = SoFar(cases, i)
    /\ 4 < i /\ i <= 4 + Trials => AllOpen
    /\ 4 + Trials < i /\ Trials > 0 => lab = Fault

(* While it measures: the node is cut off at position 1 and healed after the *)
(* probes.                                                                   *)
Behind(i) ==
    /\ From(Strip(todo), S!Measurement(pending) \o S!Ending, i)
    /\ pending # << >>
    /\ i <= 4 + Len(pending)
    /\ lab = IF i = 1 THEN Fault ELSE [Fault EXCEPT !["N1"] = "blocked"]

Place ==
    stage = "try" =>
       \/ Plain(todo)
       \/ scenario > 0 /\ \E cases \in S!SetToSeqs(Client), i \in Nat : Before(cases, i)
       \/ scenario > 0 /\ \E i \in Nat : Behind(i)

Fronts == stage = "try" /\ todo # << >> /\ todo[1].do = "record" => todo[1].on \in Client

(* Of a trial of the scenario exactly one holds: it is recorded, its record  *)
(* is next, it has a call that will judge it, or it is pending until the     *)
(* pass has measured.                                                        *)
Judged(q, c) == \E j \in 1 .. Len(q) : q[j].do \in {"workload", "probe"} /\ q[j].on = c
Waits(q) == \E j \in 1 .. Len(q) : q[j].do = "measure"
Recorded(c) == \E r \in 1 .. Len(records) : records[r] = <<scenario, c>>
AtFront(c) == todo # << >> /\ todo[1].do = "record" /\ todo[1].on = c
Pends(c) == Waits(todo) /\ \E p \in 1 .. Len(pending) : pending[p] = c

Exactly(r, n, j, w) == /\ r \/ n \/ j \/ w
                       /\ r => ~n /\ ~j /\ ~w
                       /\ n => ~j /\ ~w
                       /\ j => ~w

(* No two calls judge one trial; a record is only at the front.              *)
Apart(q) == \A j, l \in 1 .. Len(q) :
               q[j].do \in {"workload", "probe"} /\ q[l].do \in {"workload", "probe"}
               /\ q[j].on = q[l].on => j = l
OnlyAtFront(q) == \A j \in 2 .. Len(q) : q[j].do # "record"
Distinct(s) == \A a, b \in 1 .. Len(s) : s[a] = s[b] => a = b

Once ==
    stage = "try" =>
       /\ OnlyAtFront(todo)
       /\ scenario > 0 =>
             /\ Apart(todo)
             /\ \A c \in Client : Exactly(Recorded(c), AtFront(c), Judged(todo, c), Pends(c))
             /\ Waits(todo) => Distinct(pending)

Kept ==
    /\ Distinct(records)
    /\ \A r \in 1 .. Len(records) : records[r][1] <= scenario
    /\ stage = "try" =>
          \A s \in 1 .. scenario - 1, c \in Client :
             \E r \in 1 .. Len(records) : records[r] = <<s, c>>
    /\ stage \in {"try", "complete"} => lines = records
    /\ lines \in {records, SubSeq(records, 1, Len(records) - 1)}
    /\ stage = "try" => completion.status = "none"
    /\ completion.status # "none" => completion.histories = Len(records)
    /\ completion.status = "complete" => lines = records /\ Len(records) = 3 * Trials
    /\ stage = "complete" => todo = << >> /\ completion.status = "complete"

SuiteInv == Typed /\ Place /\ Fronts /\ Once /\ Kept

-----------------------------------------------------------------------------
(* Lists of calls *)

LEMMA CallTyped ==
  ASSUME NEW d \in Doings, NEW on \in S!Node \cup Client
  PROVE  S!Call(d, on) \in Calls /\ S!Call(d, on).do = d /\ S!Call(d, on).on = on
  BY DEF S!Call, Calls

LEMMA CallsOn ==
  ASSUME NEW m \in S!Node
  PROVE  \A d \in Doings : S!Call(d, m) \in Calls /\ S!Call(d, m).do = d /\ S!Call(d, m).on = m
  BY CallTyped

LEMMA FunctionSeq ==
  ASSUME NEW n \in Nat, NEW V, NEW f \in [1 .. n -> V]
  PROVE  f \in Seq(V) /\ Len(f) = n
  <1>1. f \in Seq(V)
    BY SeqDef
  <1>2. Len(f) \in Nat /\ DOMAIN f = 1 .. Len(f) /\ DOMAIN f = 1 .. n
    BY <1>1, LenProperties
  <1> QED
    BY <1>1, <1>2

LEMMA EachTyped ==
  ASSUME NEW d \in Doings, NEW s \in Seq(S!Node \cup Client)
  PROVE  /\ S!Each(d, s) \in Seq(Calls) /\ Len(S!Each(d, s)) = Len(s)
         /\ \A j \in 1 .. Len(s) : S!Each(d, s)[j] = S!Call(d, s[j])
  <1>1. /\ Len(s) \in Nat /\ DOMAIN s = 1 .. Len(s)
        /\ \A j \in 1 .. Len(s) : s[j] \in S!Node \cup Client
    OBVIOUS
  <1>2. S!Each(d, s) = [j \in 1 .. Len(s) |-> S!Call(d, s[j])]
    BY <1>1 DEF S!Each
  <1>3. S!Each(d, s) \in [1 .. Len(s) -> Calls]
    BY <1>1, <1>2, CallTyped
  <1>4. S!Each(d, s) \in Seq(Calls) /\ Len(S!Each(d, s)) = Len(s)
    BY <1>1, <1>3, FunctionSeq
  <1> QED
    BY <1>1, <1>2, <1>4

LEMMA Joined ==
  ASSUME NEW s \in Seq(Calls), NEW u \in Seq(Calls)
  PROVE  /\ s \o u \in Seq(Calls) /\ Len(s \o u) = Len(s) + Len(u)
         /\ \A j \in 1 .. Len(s) : (s \o u)[j] = s[j]
         /\ \A j \in 1 .. Len(u) : (s \o u)[Len(s) + j] = u[j]
  OBVIOUS

(* s is in q, behind a calls.                                                *)
Piece(q, a, s) == \A j \in 1 .. Len(s) : q[a + j] = s[j]

LEMMA PieceLeft ==
  ASSUME NEW q \in Seq(Calls), NEW u \in Seq(Calls), NEW s \in Seq(Calls),
         NEW a \in Nat, Piece(q, a, s), a + Len(s) <= Len(q)
  PROVE  Piece(q \o u, a, s)
  <1> SUFFICES ASSUME NEW j \in 1 .. Len(s) PROVE (q \o u)[a + j] = s[j]
    BY DEF Piece
  <1>1. Len(s) \in Nat /\ Len(q) \in Nat
    OBVIOUS
  <1>2. a + j \in 1 .. Len(q)
    BY <1>1
  <1>3. (q \o u)[a + j] = q[a + j]
    BY <1>2, Joined, Zenon
  <1>4. q[a + j] = s[j]
    BY DEF Piece
  <1> QED
    BY <1>3, <1>4

LEMMA PieceRight ==
  ASSUME NEW s \in Seq(Calls), NEW u \in Seq(Calls)
  PROVE  Piece(s \o u, Len(s), u)
  BY Joined, Zenon DEF Piece

LEMMA PieceSelf ==
  ASSUME NEW s \in Seq(Calls)
  PROVE  Piece(s, 0, s)
  BY DEF Piece

LEMMA Extended ==
  ASSUME NEW q \in Seq(Calls), NEW u \in Seq(Calls), NEW r, r = q \o u
  PROVE  /\ r \in Seq(Calls) /\ Len(r) = Len(q) + Len(u) /\ Piece(r, Len(q), u)
         /\ \A c \in Nat, s \in Seq(Calls) :
               Piece(q, c, s) /\ c + Len(s) <= Len(q) => Piece(r, c, s)
  BY Joined, PieceLeft, PieceRight, Zenon

LEMMA OneCall ==
  ASSUME NEW x \in Calls
  PROVE  <<x>> \in Seq(Calls) /\ Len(<<x>>) = 1 /\ <<x>>[1] = x
  OBVIOUS

LEMMA FromTail ==
  ASSUME NEW q \in Seq(Calls), NEW plan \in Seq(Calls), NEW i \in Nat, From(q, plan, i)
  PROVE  /\ q # << >> /\ q[1] = plan[i] /\ Tail(q) \in Seq(Calls)
         /\ Len(Tail(q)) = Len(plan) - i
         /\ i < Len(plan) => From(Tail(q), plan, i + 1)
         /\ \A j \in 1 .. Len(Tail(q)) : Tail(q)[j] = plan[i + j]
  <1>1. /\ Len(q) \in Nat /\ Len(plan) \in Nat /\ i \in 1 .. Len(plan)
        /\ Len(q) = Len(plan) + 1 - i
        /\ \A j \in 1 .. Len(q) : q[j] = plan[i + j - 1]
    BY DEF From
  <1>2. q # << >> /\ Tail(q) \in Seq(Calls) /\ Len(Tail(q)) = Len(q) - 1
    BY <1>1
  <1>3. \A j \in 1 .. Len(q) - 1 : Tail(q)[j] = q[j + 1]
    BY <1>1, <1>2
  <1>4. \A j \in 1 .. Len(q) - 1 : q[j + 1] = plan[i + j]
    <2> TAKE j \in 1 .. Len(q) - 1
    <2>1. j + 1 \in 1 .. Len(q) /\ i + (j + 1) - 1 = i + j
      BY <1>1
    <2>2. q[j + 1] = plan[i + (j + 1) - 1]
      BY <1>1, <2>1
    <2> QED
      BY <2>1, <2>2
  <1>5. \A j \in 1 .. Len(Tail(q)) : Tail(q)[j] = plan[i + j]
    BY <1>2, <1>3, <1>4
  <1>6. q[1] = plan[i]
    <2>1. 1 \in 1 .. Len(q) /\ i + 1 - 1 = i
      BY <1>1
    <2> QED
      BY <1>1, <2>1
  <1>7. ASSUME i < Len(plan) PROVE From(Tail(q), plan, i + 1)
    <2>1. \A j \in 1 .. Len(Tail(q)) : i + j = (i + 1) + j - 1
      BY <1>1, <1>2
    <2>2. \A j \in 1 .. Len(Tail(q)) : Tail(q)[j] = plan[(i + 1) + j - 1]
      BY <1>5, <2>1
    <2>3. i + 1 \in 1 .. Len(plan) /\ Len(Tail(q)) = Len(plan) + 1 - (i + 1)
      BY <1>1, <1>2, <1>7
    <2> QED
      BY <2>2, <2>3 DEF From
  <1> QED
    BY <1>1, <1>2, <1>5, <1>6, <1>7

LEMMA FromFirst ==
  ASSUME NEW q \in Seq(Calls), NEW plan \in Seq(Calls), NEW i \in Nat, From(q, plan, i)
  PROVE  q[1] = plan[i] /\ i \in 1 .. Len(plan)
  BY FromTail, ZenonT(40) DEF From

LEMMA Dropped ==
  ASSUME NEW q \in Seq(Calls), q # << >>
  PROVE  /\ Tail(q) \in Seq(Calls) /\ Len(q) \in Nat /\ Len(q) >= 1 /\ Head(q) = q[1]
         /\ Len(Tail(q)) = Len(q) - 1
         /\ \A j \in 1 .. Len(q) - 1 : Tail(q)[j] = q[j + 1]
  OBVIOUS

LEMMA Fronted ==
  ASSUME NEW q \in Seq(Calls), NEW x \in Calls
  PROVE  /\ <<x>> \o q \in Seq(Calls) /\ Len(<<x>> \o q) = Len(q) + 1
         /\ (<<x>> \o q)[1] = x /\ (<<x>> \o q) # << >>
         /\ \A j \in 1 .. Len(q) : (<<x>> \o q)[j + 1] = q[j]
         /\ Tail(<<x>> \o q) = q
  <1>1. <<x>> \o q \in Seq(Calls) /\ Len(<<x>> \o q) = Len(q) + 1 /\ Len(q) \in Nat
    OBVIOUS
  <1>2. (<<x>> \o q)[1] = x /\ \A j \in 1 .. Len(q) : (<<x>> \o q)[j + 1] = q[j]
    OBVIOUS
  <1>3. (<<x>> \o q) # << >>
    BY <1>1
  <1>4. Tail(<<x>> \o q) = q
    <2>1. Len(Tail(<<x>> \o q)) = Len(q) /\ Tail(<<x>> \o q) \in Seq(Calls)
      BY <1>1, <1>3
    <2>2. \A j \in 1 .. Len(q) : Tail(<<x>> \o q)[j] = q[j]
      BY <1>1, <1>2, <1>3, <2>1
    <2> QED
      BY <2>1, <2>2
  <1> QED
    BY <1>1, <1>2, <1>3, <1>4

LEMMA PlainJoined ==
  ASSUME NEW s \in Seq(Calls), NEW u \in Seq(Calls), Plain(s), Plain(u)
  PROVE  Plain(s \o u)
  <1> SUFFICES ASSUME NEW j \in 1 .. Len(s \o u) PROVE (s \o u)[j].do \notin Special
    BY DEF Plain
  <1>1. Len(s \o u) = Len(s) + Len(u) /\ Len(s) \in Nat /\ Len(u) \in Nat
    OBVIOUS
  <1>2. CASE j <= Len(s)
    BY <1>1, <1>2, Joined DEF Plain
  <1>3. CASE j > Len(s)
    <2>1. j - Len(s) \in 1 .. Len(u) /\ Len(s) + (j - Len(s)) = j
      BY <1>1, <1>3
    <2>2. (s \o u)[Len(s) + (j - Len(s))] = u[j - Len(s)]
      BY <2>1, Joined
    <2> QED
      BY <2>1, <2>2 DEF Plain
  <1> QED
    BY <1>1, <1>2, <1>3

LEMMA PlainEach ==
  ASSUME NEW d \in Doings, d \notin Special, NEW s \in Seq(S!Node \cup Client)
  PROVE  S!Each(d, s) \in Seq(Calls) /\ Plain(S!Each(d, s))
  BY EachTyped, CallTyped DEF Plain

LEMMA PlainOne ==
  ASSUME NEW d \in Doings, d \notin Special, NEW m \in S!Node \cup Client
  PROVE  << S!Call(d, m) >> \in Seq(Calls) /\ Plain(<< S!Call(d, m) >>)
  BY CallTyped, OneCall DEF Plain

LEMMA PlainTwo ==
  ASSUME NEW x \in Calls, NEW y \in Calls, x.do \notin Special, y.do \notin Special
  PROVE  <<x, y>> \in Seq(Calls) /\ Plain(<<x, y>>)
  BY DEF Plain

LEMMA PlainTail ==
  ASSUME NEW q \in Seq(Calls), q # << >>, Plain(q)
  PROVE  Plain(Tail(q))
  BY Dropped DEF Plain

-----------------------------------------------------------------------------
(* The plans *)

LEMMA Finite ==
  ASSUME S!IsFiniteSet(Client)
  PROVE  /\ Facts!IsFiniteSet(Client) /\ Facts!Cardinality(Client) = Trials
         /\ Trials \in Nat
  <1>1. Facts!IsFiniteSet(Client)
    BY Zenon DEF S!IsFiniteSet, Facts!IsFiniteSet
  <1>2. Facts!Cardinality(Client) = Trials
    BY Zenon DEF Trials, S!Cardinality, Facts!Cardinality
  <1> QED
    BY <1>1, <1>2, Facts!FS_CardinalityType

LEMMA CasesTyped ==
  ASSUME S!IsFiniteSet(Client), NEW cases \in S!SetToSeqs(Client)
  PROVE  /\ cases \in Seq(Client) /\ Len(cases) = Trials
         /\ cases \in Seq(S!Node \cup Client)
         /\ \A i, j \in 1 .. Trials : cases[i] = cases[j] => i = j
         /\ \A c \in Client : \E j \in 1 .. Trials : cases[j] = c
  <1>1. /\ cases \in [1 .. Trials -> Client] /\ Trials \in Nat
        /\ \A i, j \in 1 .. Trials : i # j => cases[i] # cases[j]
    BY Finite DEF S!SetToSeqs, Trials
  <1>2. cases \in Seq(Client) /\ Len(cases) = Trials
    BY <1>1, FunctionSeq
  <1>3. cases \in [1 .. Trials -> S!Node \cup Client]
    BY <1>1
  <1>4. cases \in Seq(S!Node \cup Client)
    BY <1>1, <1>3, FunctionSeq
  <1>5. Facts!Cardinality(1 .. Trials) = Trials
    BY <1>1, Facts!FS_Interval
  <1>6. cases \in Facts!Injection(1 .. Trials, Client)
    BY <1>1 DEF Facts!Injection, Facts!IsInjective
  <1>7. cases \in Facts!Surjection(1 .. Trials, Client)
    BY <1>5, <1>6, Finite, Facts!FS_Injection
  <1>8. \A c \in Client : \E j \in 1 .. Trials : cases[j] = c
    BY <1>7 DEF Facts!Surjection
  <1> QED
    BY <1>1, <1>2, <1>4, <1>8

Injected(s) == Len(S!Inject(s))

LEMMA InjectShape ==
  ASSUME NEW s \in {"normal", "node_stop", "partition"}
  PROVE  /\ S!Inject(s) \in Seq(Calls) /\ Plain(S!Inject(s))
         /\ Injected(s) = CASE s = "node_stop" -> 2 [] s = "partition" -> 3 [] OTHER -> 0
         /\ s = "node_stop" => /\ S!Inject(s)[1] = S!Call("stop", "N3")
                               /\ S!Inject(s)[2] = S!Call("settle_views", "N3")
         /\ s = "partition" => /\ S!Inject(s)[1] = S!Call("isolate", "N3")
                               /\ S!Inject(s)[2] = S!Call("verify_isolation", "N3")
                               /\ S!Inject(s)[3] = S!Call("settle_views", "N3")
  <1>1. \A d \in {"stop", "settle_views", "isolate", "verify_isolation"} :
           S!Call(d, "N3") \in Calls /\ S!Call(d, "N3").do = d
    <2>1. "N3" \in S!Node /\ {"stop", "settle_views", "isolate", "verify_isolation"} \subseteq Doings
      BY DEF S!Node, Doings
    <2> QED
      BY <2>1, CallsOn, Zenon
  <1>2. CASE s = "normal"
    BY <1>2 DEF S!Inject, Injected, Plain
  <1>3. CASE s = "node_stop"
    <2>1. S!Inject(s) = <<S!Call("stop", "N3"), S!Call("settle_views", "N3")>>
      BY <1>3 DEF S!Inject
    <2>2. S!Inject(s) \in Seq(Calls) /\ Injected(s) = 2
      BY <1>1, <2>1 DEF Injected
    <2>3. Plain(S!Inject(s))
      BY <1>1, <2>1, <2>2 DEF Plain, Special
    <2> QED
      BY <1>3, <2>1, <2>2, <2>3
  <1>4. CASE s = "partition"
    <2>1. S!Inject(s) = <<S!Call("isolate", "N3"), S!Call("verify_isolation", "N3"),
                          S!Call("settle_views", "N3")>>
      BY <1>4 DEF S!Inject, S!Isolation
    <2>2. S!Inject(s) \in Seq(Calls) /\ Injected(s) = 3
      BY <1>1, <2>1 DEF Injected
    <2>3. Plain(S!Inject(s))
      BY <1>1, <2>1, <2>2 DEF Plain, Special
    <2> QED
      BY <1>4, <2>1, <2>2, <2>3
  <1> QED
    BY <1>2, <1>3, <1>4

Pieces(plan, n, k, A, P, I, W, Z) ==
    /\ plan \in Seq(Calls) /\ Len(plan) = 4 + n + k + n
    /\ Piece(plan, 0, A) /\ Piece(plan, 3, P) /\ Piece(plan, 3 + n, I)
    /\ Piece(plan, 3 + n + k, W) /\ Piece(plan, 3 + n + k + n, Z)

LEMMA FiveJoined ==
  ASSUME NEW n \in Nat, NEW k \in Nat,
         NEW A \in Seq(Calls), NEW P \in Seq(Calls), NEW I \in Seq(Calls),
         NEW W \in Seq(Calls), NEW Z \in Seq(Calls),
         Len(A) = 3, Len(P) = n, Len(I) = k, Len(W) = n, Len(Z) = 1,
         NEW plan, plan = A \o P \o I \o W \o Z
  PROVE  Pieces(plan, n, k, A, P, I, W, Z)
  <1>1. PICK AP : AP = A \o P
    OBVIOUS
  <1>2. PICK API : API = AP \o I
    OBVIOUS
  <1>3. PICK B : B = API \o W
    OBVIOUS
  <1>4. plan = B \o Z
    BY <1>1, <1>2, <1>3, Zenon
  <1>5. AP \in Seq(Calls) /\ Len(AP) = 3 + n /\ Piece(AP, 3, P)
    <2>1. AP \in Seq(Calls) /\ Len(AP) = Len(A) + Len(P) /\ Piece(AP, Len(A), P)
      BY <1>1, Extended, Zenon
    <2> QED
      BY <2>1
  <1>6. API \in Seq(Calls) /\ Len(API) = 3 + n + k /\ Piece(API, 3 + n, I)
    <2>0. AP \in Seq(Calls)
      BY <1>5
    <2>1. API \in Seq(Calls) /\ Len(API) = Len(AP) + Len(I) /\ Piece(API, Len(AP), I)
      BY <1>2, <2>0, Extended, Zenon
    <2> QED
      BY <1>5, <2>1
  <1>7. B \in Seq(Calls) /\ Len(B) = 3 + n + k + n /\ Piece(B, 3 + n + k, W)
    <2>0. API \in Seq(Calls)
      BY <1>6
    <2>1. B \in Seq(Calls) /\ Len(B) = Len(API) + Len(W) /\ Piece(B, Len(API), W)
      BY <1>3, <2>0, Extended, Zenon
    <2> QED
      BY <1>6, <2>1
  <1>8. /\ plan \in Seq(Calls) /\ Len(plan) = 3 + n + k + n + 1
        /\ Piece(plan, 3 + n + k + n, Z)
    <2>1. plan \in Seq(Calls) /\ Len(plan) = Len(B) + Len(Z) /\ Piece(plan, Len(B), Z)
      BY <1>4, <1>7, Extended, ZenonT(40)
    <2> QED
      BY <1>7, <2>1
  <1>9. ASSUME NEW c \in Nat, NEW s \in Seq(Calls), Piece(B, c, s), c + Len(s) <= 3 + n + k + n
        PROVE  Piece(plan, c, s)
    BY <1>4, <1>7, <1>9, Extended, Zenon
  <1>10. ASSUME NEW c \in Nat, NEW s \in Seq(Calls), Piece(API, c, s), c + Len(s) <= 3 + n + k
         PROVE  Piece(B, c, s)
    BY <1>3, <1>6, <1>10, Extended, Zenon
  <1>11. ASSUME NEW c \in Nat, NEW s \in Seq(Calls), Piece(AP, c, s), c + Len(s) <= 3 + n
         PROVE  Piece(API, c, s)
    BY <1>2, <1>5, <1>11, Extended, Zenon
  <1>12. Piece(AP, 0, A)
    <2>1. Piece(A, 0, A) /\ 0 + Len(A) <= Len(A) /\ 0 \in Nat
      BY PieceSelf
    <2> QED
      BY <1>1, <2>1, Extended, Zenon
  <1>13. /\ 0 + Len(A) <= 3 + n /\ 0 + Len(A) <= 3 + n + k /\ 0 + Len(A) <= 3 + n + k + n
         /\ 3 + Len(P) <= 3 + n /\ 3 + Len(P) <= 3 + n + k /\ 3 + Len(P) <= 3 + n + k + n
         /\ 3 + n + Len(I) <= 3 + n + k /\ 3 + n + Len(I) <= 3 + n + k + n
         /\ 3 + n + k + Len(W) <= 3 + n + k + n
         /\ 0 \in Nat /\ 3 \in Nat /\ 3 + n \in Nat /\ 3 + n + k \in Nat
         /\ 3 + n + k + n + 1 = 4 + n + k + n
    OBVIOUS
  <1>14. Piece(plan, 0, A)
    BY <1>9, <1>10, <1>11, <1>12, <1>13, Zenon
  <1>15. Piece(plan, 3, P)
    BY <1>5, <1>9, <1>10, <1>11, <1>13, Zenon
  <1>16. Piece(plan, 3 + n, I)
    BY <1>6, <1>9, <1>10, <1>13, Zenon
  <1>17. Piece(plan, 3 + n + k, W)
    BY <1>7, <1>9, <1>13, Zenon
  <1> QED
    BY <1>8, <1>13, <1>14, <1>15, <1>16, <1>17, Zenon DEF Pieces

(* Where the calls of a pass are.                                            *)
Shaped(plan, cases, s, k) ==
    /\ plan \in Seq(Calls) /\ k \in {0, 2, 3}
    /\ Trials \in Nat /\ Len(plan) = 4 + Trials + k + Trials
    /\ \A j \in 1 .. 3 : plan[j].do \in {"healthy", "settle_views", "connect"}
    /\ \A j \in 1 .. Trials : plan[3 + j] = S!Call("prepare", cases[j])
    /\ \A j \in 1 .. k : plan[3 + Trials + j] = S!Inject(s)[j]
    /\ \A j \in 1 .. Trials : plan[3 + Trials + k + j] = S!Call("workload", cases[j])
    /\ plan[4 + Trials + k + Trials] = S!Call("measure", "N1")

LEMMA EpisodeShape ==
  ASSUME S!IsFiniteSet(Client), NEW cases \in S!SetToSeqs(Client),
         NEW s \in {"normal", "node_stop", "partition"},
         NEW plan, plan = S!Episode(s, cases), NEW k, k = Injected(s)
  PROVE  Shaped(plan, cases, s, k)
  <1> DEFINE A == << S!Call("healthy", "N1"), S!Call("settle_views", "N1"), S!Call("connect", "N1") >>
             P == S!Each("prepare", cases)
             I == S!Inject(s)
             W == S!Each("workload", cases)
             Z == << S!Call("measure", "N1") >>
  <1>1. /\ A \in Seq(Calls) /\ Len(A) = 3 /\ Z \in Seq(Calls) /\ Len(Z) = 1
        /\ \A j \in 1 .. 3 : A[j].do \in {"healthy", "settle_views", "connect"}
        /\ Z[1] = S!Call("measure", "N1")
    <2>1. \A d \in {"healthy", "settle_views", "connect", "measure"} :
             S!Call(d, "N1") \in Calls /\ S!Call(d, "N1").do = d
      <3>1. /\ "N1" \in S!Node
            /\ {"healthy", "settle_views", "connect", "measure"} \subseteq Doings
        BY DEF S!Node, Doings
      <3> QED
        BY <3>1, CallsOn, Zenon
    <2> QED
      BY <2>1
  <1>2. /\ P \in Seq(Calls) /\ Len(P) = Trials /\ W \in Seq(Calls) /\ Len(W) = Trials
        /\ \A j \in 1 .. Trials : P[j] = S!Call("prepare", cases[j])
        /\ \A j \in 1 .. Trials : W[j] = S!Call("workload", cases[j])
    <2>1. cases \in Seq(S!Node \cup Client) /\ Len(cases) = Trials
          /\ "prepare" \in Doings /\ "workload" \in Doings
      BY CasesTyped DEF Doings
    <2> QED
      BY <2>1, EachTyped, Zenon
  <1>3. I \in Seq(Calls) /\ Len(I) = k /\ k \in {0, 2, 3} /\ Trials \in Nat
    BY InjectShape, Finite DEF Injected
  <1>4. plan = A \o P \o I \o W \o Z
    BY DEF S!Episode
  <1> HIDE DEF A, P, I, W, Z
  <1>5. /\ plan \in Seq(Calls) /\ Len(plan) = 4 + Trials + k + Trials
        /\ Piece(plan, 0, A) /\ Piece(plan, 3, P) /\ Piece(plan, 3 + Trials, I)
        /\ Piece(plan, 3 + Trials + k, W) /\ Piece(plan, 3 + Trials + k + Trials, Z)
    <2>1. k \in Nat
      BY <1>3
    <2>2. Pieces(plan, Trials, k, A, P, I, W, Z)
      BY <2>1, <1>1, <1>2, <1>3, <1>4, FiveJoined, Zenon
    <2> QED
      BY <2>2 DEF Pieces
  <1>6. \A j \in 1 .. k : plan[3 + Trials + j] = S!Inject(s)[j]
    BY <1>3, <1>5 DEF I, Piece
  <1>7. \A j \in 1 .. Trials : /\ plan[3 + j] = S!Call("prepare", cases[j])
                              /\ plan[3 + Trials + k + j] = S!Call("workload", cases[j])
    BY <1>2, <1>5 DEF Piece
  <1>8. \A j \in 1 .. 3 : plan[j] = A[j]
    BY <1>1, <1>5 DEF Piece
  <1>9. plan[3 + Trials + k + Trials + 1] = Z[1]
    BY <1>1, <1>5 DEF Piece
  <1>10. plan[4 + Trials + k + Trials] = Z[1]
    BY <1>3, <1>9
  <1> QED
    BY <1>1, <1>3, <1>5, <1>6, <1>7, <1>8, <1>10 DEF Shaped

LEMMA PlainPlans ==
  /\ S!Recover \in Seq(Calls)
  /\ S!Ending \in Seq(Calls) /\ Plain(S!Ending) /\ Len(S!Ending) \in Nat \ {0}
  /\ \A r : r = S!Preflight \o << S!Call("connect", "N1"), S!Call("next scenario", "N1") >>
               => r \in Seq(Calls) /\ Plain(r)
  <1>1. /\ S!Nodes \in Seq(S!Node \cup Client) /\ <<"N1", "N3">> \in Seq(S!Node \cup Client)
        /\ "N1" \in S!Node
    BY DEF S!Nodes, S!Node
  <1>2. \A d \in {"start", "heal", "healthy", "peer_tcp", "connect", "next scenario"} :
           d \in Doings /\ d \notin Special
    BY DEF Doings, Special
  <1>3. /\ S!Each("start", S!Nodes) \in Seq(Calls) /\ Plain(S!Each("start", S!Nodes))
        /\ S!Each("heal", S!Nodes) \in Seq(Calls) /\ Plain(S!Each("heal", S!Nodes))
    BY <1>1, <1>2, PlainEach
  <1>4. S!Each("peer_tcp", <<"N1", "N3">>) \in Seq(Calls) /\ Plain(S!Each("peer_tcp", <<"N1", "N3">>))
    BY <1>1, <1>2, PlainEach
  <1>5. /\ << S!Call("healthy", "N1") >> \in Seq(Calls) /\ Plain(<< S!Call("healthy", "N1") >>)
        /\ << S!Call("next scenario", "N1") >> \in Seq(Calls)
        /\ Plain(<< S!Call("next scenario", "N1") >>)
    BY <1>1, <1>2, PlainOne
  <1>6. S!Restore \in Seq(Calls) /\ Plain(S!Restore)
    BY <1>3, PlainJoined, Joined, Zenon DEF S!Restore
  <1>7. S!Recover \in Seq(Calls) /\ Plain(S!Recover)
    BY <1>5, <1>6, PlainJoined, Joined, Zenon DEF S!Recover
  <1>8. S!Ending \in Seq(Calls) /\ Plain(S!Ending)
    BY <1>5, <1>7, PlainJoined, Joined, Zenon DEF S!Ending
  <1>9. Len(S!Ending) \in Nat \ {0}
    <2>1. Len(S!Ending) = Len(S!Recover) + Len(<< S!Call("next scenario", "N1") >>)
      BY <1>5, <1>7, Joined, Zenon DEF S!Ending
    <2> QED
      BY <1>7, <2>1
  <1>10. S!Preflight \in Seq(Calls) /\ Plain(S!Preflight)
    BY <1>4, <1>7, PlainJoined, Joined, Zenon DEF S!Preflight
  <1>11. /\ << S!Call("connect", "N1"), S!Call("next scenario", "N1") >> \in Seq(Calls)
         /\ Plain(<< S!Call("connect", "N1"), S!Call("next scenario", "N1") >>)
    <2>1. "connect" \in Doings /\ "next scenario" \in Doings
      BY DEF Doings
    <2>2. /\ S!Call("connect", "N1") \in Calls /\ S!Call("next scenario", "N1") \in Calls
          /\ S!Call("connect", "N1").do = "connect"
          /\ S!Call("next scenario", "N1").do = "next scenario"
      BY <1>1, <2>1, CallsOn, Zenon
    <2> QED
      BY <1>2, <2>2, PlainTwo, Zenon
  <1>12. PICK u : u = << S!Call("connect", "N1"), S!Call("next scenario", "N1") >>
    OBVIOUS
  <1>13. S!Preflight \o u \in Seq(Calls) /\ Plain(S!Preflight \o u)
    BY <1>10, <1>11, <1>12, PlainJoined, Joined, Zenon
  <1>14. \A r : r = S!Preflight \o << S!Call("connect", "N1"), S!Call("next scenario", "N1") >>
                  => r \in Seq(Calls) /\ Plain(r)
    BY <1>12, <1>13, Zenon
  <1> QED
    BY <1>7, <1>8, <1>9, <1>14

FourPieces(plan, A, P, H, E) ==
    /\ plan \in Seq(Calls) /\ Len(plan) = Len(A) + Len(P) + Len(H) + Len(E)
    /\ Piece(plan, 0, A) /\ Piece(plan, Len(A), P) /\ Piece(plan, Len(A) + Len(P), H)
    /\ Piece(plan, Len(A) + Len(P) + Len(H), E)

LEMMA FourJoined ==
  ASSUME NEW A \in Seq(Calls), NEW P \in Seq(Calls), NEW H \in Seq(Calls),
         NEW E \in Seq(Calls), NEW plan, plan = A \o P \o H \o E
  PROVE  FourPieces(plan, A, P, H, E)
  <1>1. PICK AP : AP = A \o P
    OBVIOUS
  <1>2. AP \in Seq(Calls)
    BY <1>1, Extended, Zenon
  <1>3. Len(AP) = Len(A) + Len(P) /\ Piece(AP, Len(A), P)
    BY <1>1, Extended, Zenon
  <1>4. PICK B : B = AP \o H
    OBVIOUS
  <1>5. B \in Seq(Calls)
    BY <1>2, <1>4, Extended, Zenon
  <1>6. Len(B) = Len(AP) + Len(H) /\ Piece(B, Len(AP), H)
    BY <1>2, <1>4, Extended, Zenon
  <1>7. plan = B \o E
    BY <1>1, <1>4, Zenon
  <1>8. plan \in Seq(Calls)
    BY <1>5, <1>7, Extended, Zenon
  <1>9. Len(plan) = Len(B) + Len(E) /\ Piece(plan, Len(B), E)
    BY <1>5, <1>7, Extended, Zenon
  <1>10. ASSUME NEW c \in Nat, NEW s \in Seq(Calls), Piece(B, c, s), c + Len(s) <= Len(B)
         PROVE  Piece(plan, c, s)
    BY <1>5, <1>7, <1>10, Extended, Zenon
  <1>11. ASSUME NEW c \in Nat, NEW s \in Seq(Calls), Piece(AP, c, s), c + Len(s) <= Len(AP)
         PROVE  Piece(B, c, s)
    BY <1>2, <1>4, <1>11, Extended, Zenon
  <1>12. /\ 0 + Len(A) <= Len(A) /\ 0 + Len(A) <= Len(AP) /\ 0 + Len(A) <= Len(B)
         /\ Len(A) + Len(P) <= Len(AP) /\ Len(A) + Len(P) <= Len(B)
         /\ Len(AP) + Len(H) <= Len(B)
         /\ 0 \in Nat /\ Len(A) \in Nat /\ Len(AP) \in Nat
         /\ Len(plan) = Len(A) + Len(P) + Len(H) + Len(E)
    BY <1>3, <1>6, <1>9
  <1>13. Piece(AP, 0, A)
    BY <1>1, <1>12, PieceSelf, Extended, Zenon
  <1>14. Piece(plan, 0, A)
    BY <1>10, <1>11, <1>12, <1>13, Zenon
  <1>15. Piece(plan, Len(A), P)
    BY <1>3, <1>10, <1>11, <1>12, Zenon
  <1>16. Piece(plan, Len(AP), H)
    BY <1>6, <1>10, <1>12, Zenon
  <1> QED
    BY <1>3, <1>6, <1>8, <1>9, <1>12, <1>14, <1>15, <1>16, Zenon DEF FourPieces

(* Where the calls of a measurement are.                                     *)
Measuring(plan, p) ==
    /\ plan \in Seq(Calls) /\ Len(p) \in Nat /\ Len(plan) > 4 + Len(p)
    /\ plan[1] = S!Call("isolate", "N1")
    /\ plan[2] = S!Call("verify_isolation", "N1")
    /\ plan[3] = S!Call("settle_views", "N1")
    /\ \A j \in 1 .. Len(p) : plan[3 + j] = S!Call("probe", p[j])
    /\ plan[4 + Len(p)] = S!Call("heal", "N1")
    /\ \A j \in 4 + Len(p) .. Len(plan) : plan[j].do \notin Special

LEMMA MeasuringPieces ==
  ASSUME NEW A \in Seq(Calls), NEW P \in Seq(Calls), NEW H \in Seq(Calls), NEW E \in Seq(Calls),
         Len(A) = 3, A[1] = S!Call("isolate", "N1"), A[2] = S!Call("verify_isolation", "N1"),
         A[3] = S!Call("settle_views", "N1"),
         NEW p \in Seq(Client), Len(P) = Len(p),
         \A j \in 1 .. Len(p) : P[j] = S!Call("probe", p[j]),
         Len(H) = 1, H[1] = S!Call("heal", "N1"), Plain(E), Len(E) > 0,
         NEW plan, FourPieces(plan, A, P, H, E)
  PROVE  Measuring(plan, p)
  <1>1. /\ plan \in Seq(Calls) /\ Len(p) \in Nat /\ Len(E) \in Nat
        /\ Len(plan) = 4 + Len(p) + Len(E)
    BY DEF FourPieces
  <1>2. \A j \in 1 .. 3 : plan[j] = A[j]
    BY DEF FourPieces, Piece
  <1>3. \A j \in 1 .. Len(p) : plan[3 + j] = S!Call("probe", p[j])
    BY DEF FourPieces, Piece
  <1>4. plan[4 + Len(p)] = S!Call("heal", "N1")
    <2>1. \A j \in 1 .. 1 : plan[3 + Len(p) + j] = H[j]
      BY <1>1 DEF FourPieces, Piece
    <2>2. plan[3 + Len(p) + 1] = S!Call("heal", "N1") /\ 3 + Len(p) + 1 = 4 + Len(p)
      BY <1>1, <2>1
    <2> QED
      BY <2>2
  <1>5. ASSUME NEW j \in 4 + Len(p) .. Len(plan) PROVE plan[j].do \notin Special
    <2>1. CASE j = 4 + Len(p)
      <3>1. S!Call("heal", "N1").do = "heal"
        BY DEF S!Call
      <3> QED
        BY <1>4, <2>1, <3>1 DEF Special
    <2>2. CASE j # 4 + Len(p)
      <3>1. PICK i : i = j - (4 + Len(p))
        OBVIOUS
      <3>2. i \in 1 .. Len(E) /\ Len(A) + Len(P) + Len(H) + i = j
        BY <1>1, <2>2, <3>1
      <3>3. plan[Len(A) + Len(P) + Len(H) + i] = E[i]
        BY <3>2, Zenon DEF FourPieces, Piece
      <3>4. E[i].do \notin Special
        BY <3>2, Zenon DEF Plain
      <3> QED
        BY <3>2, <3>3, <3>4, Zenon
    <2> QED
      BY <2>1, <2>2
  <1> QED
    BY <1>1, <1>2, <1>3, <1>4, <1>5 DEF Measuring

LEMMA MeasurementShape ==
  ASSUME NEW p \in Seq(Client), NEW plan, plan = S!Measurement(p) \o S!Ending
  PROVE  Measuring(plan, p)
  <1>1. \A d \in {"isolate", "verify_isolation", "settle_views", "heal"} :
           S!Call(d, "N1") \in Calls /\ S!Call(d, "N1").do = d
    <2>1. /\ "N1" \in S!Node
          /\ {"isolate", "verify_isolation", "settle_views", "heal"} \subseteq Doings
      BY DEF S!Node, Doings
    <2> QED
      BY <2>1, CallsOn, Zenon
  <1>2. S!Isolation("N1") \in Seq(Calls)
    BY <1>1 DEF S!Isolation
  <1>3. /\ Len(S!Isolation("N1")) = 3
        /\ S!Isolation("N1")[1] = S!Call("isolate", "N1")
        /\ S!Isolation("N1")[2] = S!Call("verify_isolation", "N1")
        /\ S!Isolation("N1")[3] = S!Call("settle_views", "N1")
    BY DEF S!Isolation
  <1>4. /\ S!Each("probe", p) \in Seq(Calls) /\ Len(S!Each("probe", p)) = Len(p)
        /\ \A j \in 1 .. Len(p) : S!Each("probe", p)[j] = S!Call("probe", p[j])
    <2>1. p \in Seq(S!Node \cup Client) /\ "probe" \in Doings
      BY SeqMonotonic DEF Doings
    <2> QED
      BY <2>1, EachTyped, Zenon
  <1>5. PICK H : H = << S!Call("heal", "N1") >>
    OBVIOUS
  <1>6. << S!Call("heal", "N1") >> \in Seq(Calls) /\ Len(<< S!Call("heal", "N1") >>) = 1
        /\ << S!Call("heal", "N1") >>[1] = S!Call("heal", "N1")
    BY <1>1
  <1>7. H \in Seq(Calls) /\ Len(H) = 1 /\ H[1] = S!Call("heal", "N1")
    BY <1>5, <1>6, Zenon
  <1>8. /\ S!Ending \in Seq(Calls) /\ Plain(S!Ending)
    BY PlainPlans, Zenon
  <1>9. Len(S!Ending) > 0
    <2>1. Len(S!Ending) \in Nat \ {0}
      BY PlainPlans, Zenon
    <2> QED
      BY <2>1
  <1>10. plan = S!Isolation("N1") \o S!Each("probe", p) \o H \o S!Ending
    BY <1>5, Zenon DEF S!Measurement
  <1>11. FourPieces(plan, S!Isolation("N1"), S!Each("probe", p), H, S!Ending)
    BY <1>2, <1>4, <1>7, <1>8, <1>10, FourJoined, Zenon
  <1> QED
    BY <1>2, <1>3, <1>4, <1>7, <1>8, <1>9, <1>11, MeasuringPieces, Zenon

(* The same, by position.                                                    *)
Passing(plan, cases, s) ==
    LET k == Injected(s) IN
    /\ plan \in Seq(Calls) /\ Trials \in Nat /\ k \in {0, 2, 3}
    /\ Len(plan) = 4 + Trials + k + Trials
    /\ \A i \in 1 .. 3 : plan[i].do \notin Special
    /\ \A i \in 4 .. 3 + Trials : plan[i] = S!Call("prepare", cases[i - 3])
    /\ \A i \in 4 + Trials .. 3 + Trials + k : plan[i] = S!Inject(s)[i - 3 - Trials]
    /\ \A i \in 4 + Trials .. 3 + Trials + k : plan[i].do \notin Special
    /\ \A i \in 4 + Trials + k .. 3 + Trials + k + Trials :
          plan[i] = S!Call("workload", cases[i - 3 - Trials - k])
    /\ plan[Len(plan)] = S!Call("measure", "N1")

LEMMA PassingShape ==
  ASSUME S!IsFiniteSet(Client), NEW cases \in S!SetToSeqs(Client),
         NEW s \in {"normal", "node_stop", "partition"},
         NEW plan, plan = S!Episode(s, cases)
  PROVE  Passing(plan, cases, s)
  <1>1. PICK k : k = Injected(s)
    OBVIOUS
  <1>2. /\ plan \in Seq(Calls) /\ k \in {0, 2, 3}
        /\ Trials \in Nat /\ Len(plan) = 4 + Trials + k + Trials
        /\ \A j \in 1 .. 3 : plan[j].do \in {"healthy", "settle_views", "connect"}
        /\ \A j \in 1 .. Trials : plan[3 + j] = S!Call("prepare", cases[j])
        /\ \A j \in 1 .. k : plan[3 + Trials + j] = S!Inject(s)[j]
        /\ \A j \in 1 .. Trials : plan[3 + Trials + k + j] = S!Call("workload", cases[j])
        /\ plan[4 + Trials + k + Trials] = S!Call("measure", "N1")
    <2>1. Shaped(plan, cases, s, k)
      BY <1>1, EpisodeShape, Zenon
    <2> QED
      BY <2>1, Zenon DEF Shaped
  <1>3. \A i \in 4 .. 3 + Trials : plan[i] = S!Call("prepare", cases[i - 3])
    <2>1. \A i \in 4 .. 3 + Trials : i - 3 \in 1 .. Trials /\ 3 + (i - 3) = i
      BY <1>2
    <2> QED
      BY <1>2, <2>1, Zenon
  <1>4. \A i \in 4 + Trials .. 3 + Trials + k : plan[i] = S!Inject(s)[i - 3 - Trials]
    <2>1. \A i \in 4 + Trials .. 3 + Trials + k :
             i - 3 - Trials \in 1 .. k /\ 3 + Trials + (i - 3 - Trials) = i
      BY <1>2
    <2> QED
      BY <1>2, <2>1, Zenon
  <1>5. \A i \in 4 + Trials .. 3 + Trials + k : plan[i].do \notin Special
    <2>1. \A i \in 4 + Trials .. 3 + Trials + k : i - 3 - Trials \in 1 .. k
      BY <1>2
    <2>2. \A j \in 1 .. k : S!Inject(s)[j].do \notin Special
      BY <1>1, InjectShape, Zenon DEF Plain, Injected
    <2> QED
      BY <1>4, <2>1, <2>2, Zenon
  <1>6. \A i \in 4 + Trials + k .. 3 + Trials + k + Trials :
           plan[i] = S!Call("workload", cases[i - 3 - Trials - k])
    <2>1. \A i \in 4 + Trials + k .. 3 + Trials + k + Trials :
             i - 3 - Trials - k \in 1 .. Trials /\ 3 + Trials + k + (i - 3 - Trials - k) = i
      BY <1>2
    <2> QED
      BY <1>2, <2>1, Zenon
  <1>7. \A i \in 1 .. 3 : plan[i].do \notin Special
    BY <1>2 DEF Special
  <1>8. plan[Len(plan)] = S!Call("measure", "N1")
    BY <1>2, Zenon
  <1> QED
    BY <1>1, <1>2, <1>3, <1>4, <1>5, <1>6, <1>7, <1>8, Zenon DEF Passing

LEMMA CallHas ==
  ASSUME NEW d, NEW on
  PROVE  S!Call(d, on).do = d /\ S!Call(d, on).on = on
  BY DEF S!Call

(* No plan has a record in it: they are put in front one by one.             *)
LEMMA NoRecord ==
  ASSUME NEW cases, NEW s, NEW plan, Passing(plan, cases, s), NEW i \in 1 .. Len(plan)
  PROVE  plan[i].do # "record"
  <1>1. PICK k : k = Injected(s)
    OBVIOUS
  <1>2. /\ Trials \in Nat /\ k \in {0, 2, 3} /\ Len(plan) = 4 + Trials + k + Trials
    BY <1>1, Zenon DEF Passing
  <1>3. CASE i \in 1 .. 3 \/ i \in 4 + Trials .. 3 + Trials + k
    <2>1. plan[i].do \notin Special
      BY <1>1, <1>3, Zenon DEF Passing
    <2> QED
      BY <2>1 DEF Special
  <1>4. CASE i \in 4 .. 3 + Trials
    <2>1. plan[i] = S!Call("prepare", cases[i - 3])
      BY <1>1, <1>4, Zenon DEF Passing
    <2> QED
      BY <2>1, CallHas
  <1>5. CASE i \in 4 + Trials + k .. 3 + Trials + k + Trials
    <2>1. plan[i] = S!Call("workload", cases[i - 3 - Trials - k])
      BY <1>1, <1>5, Zenon DEF Passing
    <2> QED
      BY <2>1, CallHas
  <1>6. CASE i = Len(plan)
    <2>1. plan[i] = S!Call("measure", "N1")
      BY <1>6, Zenon DEF Passing
    <2> QED
      BY <2>1, CallHas
  <1> QED
    BY <1>2, <1>3, <1>4, <1>5, <1>6

LEMMA NoRecordBehind ==
  ASSUME NEW p, NEW plan, Measuring(plan, p), NEW i \in 1 .. Len(plan)
  PROVE  plan[i].do # "record"
  <1>1. Len(p) \in Nat /\ Len(plan) > 4 + Len(p) /\ Len(plan) \in Nat
    BY DEF Measuring
  <1>2. CASE i \in 1 .. 3
    <2>1. /\ plan[1] = S!Call("isolate", "N1") /\ plan[2] = S!Call("verify_isolation", "N1")
          /\ plan[3] = S!Call("settle_views", "N1")
      BY Zenon DEF Measuring
    <2>2. plan[1].do = "isolate" /\ plan[2].do = "verify_isolation" /\ plan[3].do = "settle_views"
      BY <2>1, CallHas
    <2> QED
      BY <1>2, <2>2
  <1>3. CASE i \in 4 .. 3 + Len(p)
    <2>1. i - 3 \in 1 .. Len(p) /\ 3 + (i - 3) = i
      BY <1>1, <1>3
    <2>2. plan[i] = S!Call("probe", p[i - 3])
      BY <2>1, Zenon DEF Measuring
    <2> QED
      BY <2>2, CallHas
  <1>4. CASE i \in 4 + Len(p) .. Len(plan)
    <2>1. plan[i].do \notin Special
      BY <1>4, Zenon DEF Measuring
    <2> QED
      BY <2>1 DEF Special
  <1> QED
    BY <1>1, <1>2, <1>3, <1>4

(* How a list behind a record relates to its plan.                           *)
LEMMA Stripped ==
  ASSUME NEW q \in Seq(Calls)
  PROVE  /\ Strip(q) \in Seq(Calls)
         /\ q # << >> /\ q[1].do # "record" => Strip(q) = q
         /\ q # << >> /\ q[1].do = "record" => Strip(q) = Tail(q)
  BY DEF Strip

LEMMA StripRecord ==
  ASSUME NEW q \in Seq(Calls), NEW on \in Client
  PROVE  Strip(<< S!Call("record", on) >> \o q) = q
  <1>1. S!Call("record", on) \in Calls /\ S!Call("record", on).do = "record"
    BY CallTyped DEF Doings
  <1>2. PICK r : r = << S!Call("record", on) >> \o q
    OBVIOUS
  <1>3. r # << >> /\ r[1].do = "record" /\ Tail(r) = q
    BY <1>1, <1>2, Fronted, Zenon
  <1>4. Strip(r) = q
    BY <1>3, Zenon DEF Strip
  <1> QED
    BY <1>2, <1>4, Zenon

-----------------------------------------------------------------------------
(* What a step does to the list *)

LEMMA ScenarioNamed ==
  ASSUME NEW n \in 1 .. 3
  PROVE  /\ S!SCENARIOS[n] \in {"normal", "node_stop", "partition"}
         /\ Len(S!SCENARIOS) = 3
  BY DEF S!SCENARIOS

(* The head of the list is the call at the position.                         *)
LEMMA AtHead ==
  ASSUME NEW q \in Seq(Calls), q # << >>, q[1].do # "record",
         NEW plan \in Seq(Calls), NEW i \in Nat, From(Strip(q), plan, i)
  PROVE  /\ q[1] = plan[i] /\ Head(q) = plan[i] /\ i \in 1 .. Len(plan) /\ From(q, plan, i)
         /\ i < Len(plan) => From(Tail(q), plan, i + 1)
  <1>1. Strip(q) = q
    BY Stripped, Zenon
  <1>2. From(q, plan, i)
    BY <1>1, Zenon
  <1>3. q[1] = plan[i] /\ (i < Len(plan) => From(Tail(q), plan, i + 1))
    BY <1>2, FromTail
  <1>4. Head(q) = q[1]
    BY Dropped, Zenon
  <1>5. i \in 1 .. Len(plan)
    BY <1>2, Zenon DEF From
  <1> QED
    BY <1>2, <1>3, <1>4, <1>5, Zenon

LEMMA StripsItself ==
  ASSUME NEW q \in Seq(Calls), NEW plan \in Seq(Calls), NEW i \in Nat, From(q, plan, i),
         \A j \in 1 .. Len(plan) : plan[j].do # "record"
  PROVE  From(Strip(q), plan, i) /\ Strip(q) = q
  <1>1. q # << >> /\ q[1] = plan[i]
    BY FromTail, Zenon
  <1>2. i \in 1 .. Len(plan)
    BY Zenon DEF From
  <1>3. Strip(q) = q
    BY <1>1, <1>2, Stripped, Zenon
  <1> QED
    BY <1>3, Zenon

(* What a successful call leaves of the lab.                                 *)
LEMMA Succeeding ==
  ASSUME NEW c \in Calls, lab \in [S!Node -> S!Condition], NEW now \in S!Succeeds(c)
  PROVE  /\ c.do \notin Special
         /\ now \in [S!Node -> S!Condition]
         /\ c.do = "stop" => now = [lab EXCEPT ![c.on] = "down"]
         /\ c.do = "isolate" => now = [lab EXCEPT ![c.on] = "blocked"]
         /\ c.do \in {"healthy", "verify_isolation", "connect", "settle_views", "peer_tcp"} => now = lab
  <1>1. c.do \in Doings
    BY DEF Calls
  <1>2. c.do = "stop" => S!Succeeds(c) = S!Set(c.on, {"down"})
    BY DEF S!Succeeds
  <1>3. c.do = "isolate" => S!Succeeds(c) \subseteq S!Set(c.on, {"blocked"})
    BY DEF S!Succeeds
  <1>4. c.do = "start" => S!Succeeds(c) = S!Set(c.on, {IF lab[c.on] = "down" THEN "open" ELSE lab[c.on]})
    BY DEF S!Succeeds
  <1>5. c.do = "heal" => S!Succeeds(c) \subseteq S!Set(c.on, S!Healed(lab[c.on]))
    BY DEF S!Succeeds
  <1>6. c.do \in {"healthy", "verify_isolation", "connect", "settle_views", "peer_tcp"}
           => S!Succeeds(c) \subseteq {lab}
    BY DEF S!Succeeds
  <1>7. c.do \in {"prepare", "workload", "measure", "probe", "record", "next scenario"}
           => S!Succeeds(c) = {}
    BY DEF S!Succeeds
  <1>8. \A x \in S!Condition \cup {lab[c.on]} : [lab EXCEPT ![c.on] = x] \in [S!Node -> S!Condition]
    OBVIOUS
  <1>9. ASSUME NEW C, C \subseteq S!Condition \cup {lab[c.on]}, now \in S!Set(c.on, C)
        PROVE  now \in [S!Node -> S!Condition]
    BY <1>8, <1>9 DEF S!Set
  <1>10. now \in [S!Node -> S!Condition]
    <2>1. CASE c.do = "stop"
      BY <1>2, <1>9, <2>1 DEF S!Condition
    <2>2. CASE c.do = "isolate"
      BY <1>3, <1>9, <2>2 DEF S!Condition
    <2>3. CASE c.do = "start"
      BY <1>4, <1>9, <2>3 DEF S!Condition
    <2>4. CASE c.do = "heal"
      BY <1>5, <1>9, <2>4 DEF S!Condition, S!Healed
    <2>5. CASE c.do \in {"healthy", "verify_isolation", "connect", "settle_views", "peer_tcp"}
      BY <1>6, <2>5
    <2> QED
      BY <1>1, <1>7, <2>1, <2>2, <2>3, <2>4, <2>5 DEF Doings
  <1>11. c.do \notin Special
    BY <1>7 DEF Special
  <1>12. c.do = "stop" => now = [lab EXCEPT ![c.on] = "down"]
    BY <1>2 DEF S!Set
  <1>13. c.do = "isolate" => now = [lab EXCEPT ![c.on] = "blocked"]
    BY <1>3 DEF S!Set
  <1> QED
    BY <1>6, <1>10, <1>11, <1>12, <1>13

(* The fault is there as soon as the first call of prepare_fault returned.   *)
LEMMA FaultMade ==
  ASSUME lab \in [S!Node -> S!Condition], AllOpen
  PROVE  /\ [lab EXCEPT !["N3"] = "down"] = S!Faulty("node_stop")
         /\ [lab EXCEPT !["N3"] = "blocked"] = S!Faulty("partition")
         /\ lab = S!Faulty("normal")
  BY DEF AllOpen, S!Faulty, S!Node

(* What is known while the pass has not measured.                            *)
LEMMA BeforeFacts ==
  ASSUME S!IsFiniteSet(Client), Typed, scenario > 0,
         NEW cases \in S!SetToSeqs(Client), NEW i \in Nat, Before(cases, i),
         NEW plan, plan = S!Episode(S!SCENARIOS[scenario], cases)
  PROVE  /\ S!SCENARIOS[scenario] \in {"normal", "node_stop", "partition"}
         /\ Passing(plan, cases, S!SCENARIOS[scenario])
         /\ plan \in Seq(Calls) /\ From(Strip(todo), plan, i)
         /\ \A j \in 1 .. Len(plan) : plan[j].do # "record"
  <1>1. scenario \in 1 .. 3
    BY DEF Typed
  <1>2. S!SCENARIOS[scenario] \in {"normal", "node_stop", "partition"}
    BY <1>1, ScenarioNamed, Zenon
  <1>3. Passing(plan, cases, S!SCENARIOS[scenario])
    BY <1>2, PassingShape, Zenon
  <1>4. plan \in Seq(Calls)
    BY <1>3, Zenon DEF Passing
  <1>5. From(Strip(todo), plan, i)
    BY Zenon DEF Before
  <1>6. \A j \in 1 .. Len(plan) : plan[j].do # "record"
    BY <1>3, NoRecord, Zenon
  <1> QED
    BY <1>2, <1>3, <1>4, <1>5, <1>6, Zenon

LEMMA BehindFacts ==
  ASSUME Typed, NEW i \in Nat, Behind(i),
         NEW plan, plan = S!Measurement(pending) \o S!Ending
  PROVE  /\ Measuring(plan, pending) /\ Len(pending) \in Nat /\ Len(pending) > 0
         /\ plan \in Seq(Calls) /\ From(Strip(todo), plan, i)
         /\ i \in 1 .. 4 + Len(pending) /\ i < Len(plan)
         /\ \A j \in 1 .. Len(plan) : plan[j].do # "record"
  <1>1. pending \in Seq(Client)
    BY DEF Typed
  <1>2. Measuring(plan, pending)
    BY <1>1, MeasurementShape, Zenon
  <1>3. plan \in Seq(Calls) /\ Len(pending) \in Nat /\ Len(plan) > 4 + Len(pending)
    BY <1>2, Zenon DEF Measuring
  <1>4. From(Strip(todo), plan, i) /\ pending # << >> /\ i <= 4 + Len(pending)
    BY Zenon DEF Behind
  <1>5. i \in 1 .. Len(plan)
    BY <1>4, Zenon DEF From
  <1>6. \A j \in 1 .. Len(plan) : plan[j].do # "record"
    BY <1>2, NoRecordBehind, Zenon
  <1>7. Len(pending) > 0
    BY <1>1, <1>4
  <1> QED
    BY <1>2, <1>3, <1>4, <1>5, <1>6, <1>7

(* The call at the head says where the pass is.                              *)
At(plan, cases, i, k) ==
    /\ Trials \in Nat /\ k \in {0, 2, 3} /\ Len(plan) = 4 + Trials + k + Trials
    /\ plan[i].do \in {"prepare", "workload", "measure"} \/ plan[i].do \notin Special
    /\ plan[i].do \notin Special => i \in 1 .. 3 \/ i \in 4 + Trials .. 3 + Trials + k
    /\ plan[i].do = "prepare" => i \in 4 .. 3 + Trials /\ plan[i].on = cases[i - 3]
    /\ plan[i].do = "workload" =>
          /\ i \in 4 + Trials + k .. 3 + Trials + k + Trials
          /\ plan[i].on = cases[i - 3 - Trials - k]
    /\ plan[i].do = "measure" => i = Len(plan)

LEMMA BeforeAt ==
  ASSUME S!IsFiniteSet(Client), NEW cases, NEW s, NEW plan, Passing(plan, cases, s),
         NEW i \in 1 .. Len(plan), NEW k, k = Injected(s)
  PROVE  At(plan, cases, i, k)
  <1> USE DEF At
  <1>1. /\ Trials \in Nat /\ k \in {0, 2, 3} /\ Len(plan) = 4 + Trials + k + Trials
    BY Zenon DEF Passing
  <1>2. \/ i \in 1 .. 3 \/ i \in 4 + Trials .. 3 + Trials + k \/ i \in 4 .. 3 + Trials
        \/ i \in 4 + Trials + k .. 3 + Trials + k + Trials \/ i = Len(plan)
    BY <1>1
  <1>3. CASE i \in 1 .. 3 \/ i \in 4 + Trials .. 3 + Trials + k
    <2>1. plan[i].do \notin Special
      BY <1>3, Zenon DEF Passing
    <2> QED
      BY <1>1, <1>3, <2>1 DEF Special
  <1>4. CASE i \in 4 .. 3 + Trials
    <2>1. plan[i] = S!Call("prepare", cases[i - 3])
      BY <1>4, Zenon DEF Passing
    <2>2. plan[i].do = "prepare" /\ plan[i].on = cases[i - 3]
      BY <2>1, CallHas
    <2> QED
      BY <1>1, <1>4, <2>2 DEF Special
  <1>5. CASE i \in 4 + Trials + k .. 3 + Trials + k + Trials
    <2>1. plan[i] = S!Call("workload", cases[i - 3 - Trials - k])
      BY <1>5, Zenon DEF Passing
    <2>2. plan[i].do = "workload" /\ plan[i].on = cases[i - 3 - Trials - k]
      BY <2>1, CallHas
    <2> QED
      BY <1>1, <1>5, <2>2 DEF Special
  <1>6. CASE i = Len(plan)
    <2>1. plan[i] = S!Call("measure", "N1")
      BY <1>6, Zenon DEF Passing
    <2>2. plan[i].do = "measure"
      BY <2>1, CallHas
    <2> QED
      BY <1>1, <1>6, <2>2 DEF Special
  <1> QED
    BY <1>2, <1>3, <1>4, <1>5, <1>6

AtProbes(plan, p, i) ==
    /\ Len(p) \in Nat
    /\ plan[i].do = "probe" \/ plan[i].do \notin Special
    /\ plan[i].do = "probe" => i \in 4 .. 3 + Len(p) /\ plan[i].on = p[i - 3]
    /\ plan[i].do \notin Special => i \in {1, 2, 3, 4 + Len(p)}
    /\ plan[i].do # "next scenario"
    /\ i = 1 => plan[i] = S!Call("isolate", "N1")
    /\ i \in {2, 3} => plan[i].do \in {"verify_isolation", "settle_views"}

LEMMA BehindAt ==
  ASSUME NEW p, NEW plan, Measuring(plan, p), NEW i \in 1 .. 4 + Len(p)
  PROVE  AtProbes(plan, p, i)
  <1> USE DEF AtProbes
  <1>1. /\ Len(p) \in Nat /\ plan[1] = S!Call("isolate", "N1")
        /\ plan[2] = S!Call("verify_isolation", "N1") /\ plan[3] = S!Call("settle_views", "N1")
        /\ plan[4 + Len(p)] = S!Call("heal", "N1")
    BY Zenon DEF Measuring
  <1>2. /\ plan[1].do = "isolate" /\ plan[2].do = "verify_isolation" /\ plan[3].do = "settle_views"
        /\ plan[4 + Len(p)].do = "heal"
    BY <1>1, CallHas
  <1>3. CASE i \in 4 .. 3 + Len(p)
    <2>1. i - 3 \in 1 .. Len(p) /\ 3 + (i - 3) = i
      BY <1>1, <1>3
    <2>2. plan[i] = S!Call("probe", p[i - 3])
      BY <2>1, Zenon DEF Measuring
    <2>3. plan[i].do = "probe" /\ plan[i].on = p[i - 3]
      BY <2>2, CallHas
    <2> QED
      BY <1>1, <1>3, <2>3 DEF Special
  <1>4. CASE i \in {1, 2, 3, 4 + Len(p)}
    BY <1>1, <1>2, <1>4 DEF Special
  <1>5. i \in 4 .. 3 + Len(p) \/ i \in {1, 2, 3, 4 + Len(p)}
    BY <1>1
  <1> QED
    BY <1>3, <1>4, <1>5

LEMMA SoFarSame ==
  ASSUME Trials \in Nat, NEW cases, NEW i \in Nat, i \notin 4 .. 3 + Trials
  PROVE  SoFar(cases, i) = SoFar(cases, i + 1)
  <1>1. {k \in 1 .. Trials : k + 3 < i} = {k \in 1 .. Trials : k + 3 < i + 1}
    OBVIOUS
  <1> QED
    BY <1>1, Zenon DEF SoFar

LEMMA SoFarMore ==
  ASSUME Trials \in Nat, NEW cases, NEW i \in 4 .. 3 + Trials
  PROVE  SoFar(cases, i) \cup {cases[i - 3]} = SoFar(cases, i + 1)
  <1>1. {k \in 1 .. Trials : k + 3 < i} \cup {i - 3} = {k \in 1 .. Trials : k + 3 < i + 1}
    OBVIOUS
  <1> QED
    BY <1>1, Zenon DEF SoFar

LEMMA SoFarEnds ==
  ASSUME S!IsFiniteSet(Client), NEW cases \in S!SetToSeqs(Client)
  PROVE  /\ SoFar(cases, 1) = {}
         /\ \A i \in Nat : i >= 4 + Trials => SoFar(cases, i) = Client
  <1>1. /\ Trials \in Nat /\ cases \in Seq(Client) /\ Len(cases) = Trials
        /\ \A c \in Client : \E j \in 1 .. Trials : cases[j] = c
    BY CasesTyped, Finite
  <1>2. {k \in 1 .. Trials : k + 3 < 1} = {}
    BY <1>1
  <1>3. ASSUME NEW i \in Nat, i >= 4 + Trials PROVE SoFar(cases, i) = Client
    <2>1. {k \in 1 .. Trials : k + 3 < i} = 1 .. Trials
      BY <1>1, <1>3
    <2>2. \A j \in 1 .. Trials : cases[j] \in Client
      BY <1>1
    <2>3. {cases[j] : j \in 1 .. Trials} = Client
      BY <1>1, <2>2
    <2> QED
      BY <2>1, <2>3, Zenon DEF SoFar
  <1> QED
    BY <1>2, <1>3 DEF SoFar

LEMMA FromSelf ==
  ASSUME NEW plan \in Seq(Calls), Len(plan) > 0
  PROVE  From(plan, plan, 1)
  BY DEF From

-----------------------------------------------------------------------------
(* Place and Typed are preserved by each action *)

(* A call that changes nothing but the lab.                                  *)
LEMMA ControlPlain ==
  ASSUME Typed, S!Control
  PROVE  /\ todo \in Seq(Calls) /\ todo # << >> /\ todo[1] \in Calls
         /\ Head(todo) = todo[1] /\ todo[1].do \notin Special /\ todo[1].do # "record"
         /\ lab' \in [S!Node -> S!Condition] /\ todo' = Tail(todo)
         /\ lab' \in S!Succeeds(todo[1])
  <1>1. todo \in Seq(Calls) /\ todo # << >> /\ lab \in [S!Node -> S!Condition]
        /\ lab' \in S!Succeeds(Head(todo)) /\ todo' = Tail(todo)
    BY DEF Typed, S!Control
  <1>2. todo[1] \in Calls /\ Head(todo) = todo[1]
    BY <1>1
  <1>3. lab' \in S!Succeeds(todo[1])
    BY <1>1, <1>2, Zenon
  <1>4. todo[1].do \notin Special /\ lab' \in [S!Node -> S!Condition]
    BY <1>1, <1>2, <1>3, Succeeding, Zenon
  <1>5. todo[1].do # "record"
    BY <1>4 DEF Special
  <1> QED
    BY <1>1, <1>2, <1>3, <1>4, <1>5, Zenon

LEMMA ControlTyped ==
  ASSUME Typed, S!Control
  PROVE  Typed'
  <1>1. lab' \in [S!Node -> S!Condition] /\ todo' = Tail(todo) /\ todo \in Seq(Calls) /\ todo # << >>
    BY ControlPlain, Zenon
  <1>2. todo' \in Seq(Calls)
    BY <1>1, Dropped
  <1>3. UNCHANGED <<stage, scenario, prepared, pending, records, lines, completion>>
    BY DEF S!Control, S!Rest
  <1> QED
    BY <1>1, <1>2, <1>3 DEF Typed

LEMMA ControlBefore ==
  ASSUME S!IsFiniteSet(Client), Typed, S!Control, scenario > 0,
         NEW cases \in S!SetToSeqs(Client), NEW i \in Nat, Before(cases, i)
  PROVE  Before(cases, i + 1)' /\ Strip(todo') = todo'
  <1>1. PICK plan : plan = S!Episode(S!SCENARIOS[scenario], cases)
    OBVIOUS
  <1>2. PICK s : s = S!SCENARIOS[scenario]
    OBVIOUS
  <1>3. PICK k : k = Injected(s)
    OBVIOUS
  <1>4. /\ s \in {"normal", "node_stop", "partition"} /\ Passing(plan, cases, s)
        /\ plan \in Seq(Calls) /\ From(Strip(todo), plan, i)
        /\ \A j \in 1 .. Len(plan) : plan[j].do # "record"
    BY <1>1, <1>2, BeforeFacts, Zenon
  <1>5. /\ todo \in Seq(Calls) /\ todo # << >> /\ todo[1] \in Calls
        /\ todo[1].do \notin Special /\ todo[1].do # "record"
        /\ lab' \in [S!Node -> S!Condition] /\ todo' = Tail(todo)
        /\ lab' \in S!Succeeds(todo[1])
    BY ControlPlain, Zenon
  <1>6. /\ todo[1] = plan[i] /\ i \in 1 .. Len(plan)
        /\ i < Len(plan) => From(Tail(todo), plan, i + 1)
    BY <1>4, <1>5, AtHead, Zenon
  <1>7. /\ Trials \in Nat /\ k \in {0, 2, 3} /\ Len(plan) = 4 + Trials + k + Trials
        /\ i \in 1 .. 3 \/ i \in 4 + Trials .. 3 + Trials + k
    <2>1. plan[i].do \notin Special
      BY <1>5, <1>6, Zenon
    <2>2. i \in 1 .. Len(plan) /\ Passing(plan, cases, s)
      BY <1>4, <1>6, Zenon
    <2>3. At(plan, cases, i, k)
      BY <1>3, <2>2, BeforeAt, Zenon
    <2> QED
      BY <2>1, <2>3, Zenon DEF At
  <1>8. i + 1 \in Nat /\ i < Len(plan) /\ i \notin 4 .. 3 + Trials
    BY <1>7
  <1>9. From(todo', plan, i + 1)
    BY <1>5, <1>6, <1>8, Zenon
  <1>10. From(Strip(todo'), plan, i + 1) /\ Strip(todo') = todo'
    <2>1. todo' \in Seq(Calls)
      BY <1>5, Dropped, Zenon
    <2> QED
      BY <2>1, <1>4, <1>8, <1>9, StripsItself, Zenon
  <1>11. prepared = SoFar(cases, i) /\ prepared' = prepared /\ scenario' = scenario
    BY DEF Before, S!Control, S!Rest
  <1>12. prepared' = SoFar(cases, i + 1)
    BY <1>7, <1>8, <1>11, SoFarSame, Zenon
  <1>13. ~ (4 < i + 1 /\ i + 1 <= 4 + Trials)
    BY <1>7
  <1>14. ASSUME 4 + Trials < i + 1, Trials > 0 PROVE lab' = S!Faulty(s)
    <2>1. i \in 4 + Trials .. 3 + Trials + k
      BY <1>7, <1>14
    <2>2. plan[i] = S!Inject(s)[i - 3 - Trials] /\ i - 3 - Trials \in 1 .. k
      <3>1. plan[i] = S!Inject(s)[i - 3 - Trials]
        BY <1>3, <1>4, <2>1, Zenon DEF Passing
      <3> QED
        BY <1>7, <2>1, <3>1
    <2>3. /\ k = CASE s = "node_stop" -> 2 [] s = "partition" -> 3 [] OTHER -> 0
          /\ s = "node_stop" => /\ S!Inject(s)[1] = S!Call("stop", "N3")
                                /\ S!Inject(s)[2] = S!Call("settle_views", "N3")
          /\ s = "partition" => /\ S!Inject(s)[1] = S!Call("isolate", "N3")
                                /\ S!Inject(s)[2] = S!Call("verify_isolation", "N3")
                                /\ S!Inject(s)[3] = S!Call("settle_views", "N3")
      BY <1>3, <1>4, InjectShape, Zenon
    <2>4. lab \in [S!Node -> S!Condition]
      BY DEF Typed
    <2>5. CASE i = 4 + Trials
      <3>1. AllOpen
        <4>1. 4 < i /\ i <= 4 + Trials
          BY <1>7, <1>14, <2>5
        <4> QED
          BY <4>1, Zenon DEF Before
      <3>2. i - 3 - Trials = 1
        BY <1>7, <2>5
      <3>3. plan[i] = S!Inject(s)[1]
        BY <2>2, <3>2, Zenon
      <3>4. CASE s = "node_stop"
        <4>1. todo[1] = S!Call("stop", "N3")
          BY <1>6, <2>3, <3>3, <3>4, Zenon
        <4>2. todo[1].do = "stop" /\ todo[1].on = "N3"
          BY <4>1, CallHas
        <4>3. lab' = [lab EXCEPT !["N3"] = "down"]
          BY <1>5, <2>4, <4>2, Succeeding, Zenon
        <4> QED
          BY <2>4, <3>1, <3>4, <4>3, FaultMade, Zenon
      <3>5. CASE s = "partition"
        <4>1. todo[1] = S!Call("isolate", "N3")
          BY <1>6, <2>3, <3>3, <3>5, Zenon
        <4>2. todo[1].do = "isolate" /\ todo[1].on = "N3"
          BY <4>1, CallHas
        <4>3. lab' = [lab EXCEPT !["N3"] = "blocked"]
          BY <1>5, <2>4, <4>2, Succeeding, Zenon
        <4> QED
          BY <2>4, <3>1, <3>5, <4>3, FaultMade, Zenon
      <3>6. CASE s = "normal"
        BY <1>7, <2>1, <2>3, <3>6
      <3> QED
        BY <1>4, <3>4, <3>5, <3>6
    <2>6. CASE i # 4 + Trials
      <3>1. lab = S!Faulty(s)
        <4>1. 4 + Trials < i
          BY <1>7, <1>14, <2>6
        <4> QED
          BY <1>2, <1>14, <4>1, Zenon DEF Before, Fault
      <3>2. i - 3 - Trials \in 2 .. k
        BY <1>7, <2>1, <2>6
      <3>3. plan[i] \in {S!Call("settle_views", "N3"), S!Call("verify_isolation", "N3")}
        BY <1>4, <2>2, <2>3, <3>2
      <3>4. todo[1].do \in {"settle_views", "verify_isolation"}
        BY <1>6, <3>3, CallHas
      <3>5. todo[1].do \in {"healthy", "verify_isolation", "connect", "settle_views", "peer_tcp"}
        BY <3>4
      <3>6. lab' = lab
        BY <1>5, <2>4, <3>5, Succeeding, Zenon
      <3> QED
        BY <3>1, <3>6, Zenon
    <2> QED
      BY <2>5, <2>6
  <1> QED
    BY <1>1, <1>2, <1>10, <1>11, <1>12, <1>13, <1>14 DEF Before, Fault

(* The pass is at position i of its plan.                                    *)
InPass(plan, cases, i, s, k) ==
    /\ s \in {"normal", "node_stop", "partition"} /\ Passing(plan, cases, s)
    /\ plan \in Seq(Calls) /\ i \in 1 .. Len(plan)
    /\ todo[1] = plan[i] /\ From(todo, plan, i)
    /\ i < Len(plan) => From(Tail(todo), plan, i + 1)
    /\ \A j \in 1 .. Len(plan) : plan[j].do # "record"
    /\ At(plan, cases, i, k)

InProbes(plan, i) ==
    /\ Measuring(plan, pending) /\ Len(pending) \in Nat /\ Len(pending) > 0
    /\ plan \in Seq(Calls) /\ i \in 1 .. 4 + Len(pending) /\ i < Len(plan)
    /\ todo[1] = plan[i] /\ From(todo, plan, i) /\ From(Tail(todo), plan, i + 1)
    /\ \A j \in 1 .. Len(plan) : plan[j].do # "record"
    /\ AtProbes(plan, pending, i)

LEMMA PassAt ==
  ASSUME S!IsFiniteSet(Client), Typed, scenario > 0, todo # << >>, todo[1].do # "record",
         NEW cases \in S!SetToSeqs(Client), NEW i \in Nat, Before(cases, i),
         NEW s, s = S!SCENARIOS[scenario],
         NEW plan, plan = S!Episode(s, cases), NEW k, k = Injected(s)
  PROVE  InPass(plan, cases, i, s, k)
  <1>1. /\ s \in {"normal", "node_stop", "partition"} /\ Passing(plan, cases, s)
        /\ plan \in Seq(Calls) /\ From(Strip(todo), plan, i)
        /\ \A j \in 1 .. Len(plan) : plan[j].do # "record"
    BY BeforeFacts, Zenon
  <1>2. todo \in Seq(Calls)
    BY DEF Typed
  <1>3. /\ todo[1] = plan[i] /\ i \in 1 .. Len(plan) /\ From(todo, plan, i)
        /\ i < Len(plan) => From(Tail(todo), plan, i + 1)
    BY <1>1, <1>2, AtHead, Zenon
  <1>4. At(plan, cases, i, k)
    BY <1>1, <1>3, BeforeAt, Zenon
  <1> QED
    BY <1>1, <1>3, <1>4, Zenon DEF InPass

LEMMA ProbesAt ==
  ASSUME Typed, todo # << >>, todo[1].do # "record", NEW i \in Nat, Behind(i),
         NEW plan, plan = S!Measurement(pending) \o S!Ending
  PROVE  InProbes(plan, i)
  <1>1. /\ Measuring(plan, pending) /\ Len(pending) \in Nat /\ Len(pending) > 0
        /\ plan \in Seq(Calls) /\ From(Strip(todo), plan, i)
        /\ i \in 1 .. 4 + Len(pending) /\ i < Len(plan)
        /\ \A j \in 1 .. Len(plan) : plan[j].do # "record"
    BY BehindFacts, Zenon
  <1>2. todo \in Seq(Calls)
    BY DEF Typed
  <1>3. /\ todo[1] = plan[i] /\ From(todo, plan, i) /\ From(Tail(todo), plan, i + 1)
    BY <1>1, <1>2, AtHead, Zenon
  <1>4. AtProbes(plan, pending, i)
    BY <1>1, BehindAt, Zenon
  <1> QED
    BY <1>1, <1>3, <1>4, Zenon DEF InProbes

(* A call for a trial belongs to a pass, a probe to its measurement.         *)
LEMMA Where ==
  ASSUME S!IsFiniteSet(Client), Typed, Place, stage = "try", todo # << >>
  PROVE  /\ todo[1].do \in {"prepare", "workload", "measure"} =>
               scenario > 0 /\ \E cases \in S!SetToSeqs(Client), i \in Nat : Before(cases, i)
         /\ todo[1].do = "probe" => scenario > 0 /\ \E i \in Nat : Behind(i)
  <1>1. 1 \in 1 .. Len(todo)
    BY DEF Typed
  <1>2. ASSUME todo[1].do \in {"prepare", "workload", "measure"},
               ~(scenario > 0 /\ \E cases \in S!SetToSeqs(Client), i \in Nat : Before(cases, i))
        PROVE FALSE
    <2>1. todo[1].do \in Special
      BY <1>2 DEF Special
    <2>2. ~Plain(todo)
      BY <1>1, <2>1, Zenon DEF Plain
    <2>3. PICK i \in Nat : Behind(i)
      BY <1>2, <2>2, Zenon DEF Place
    <2>4. PICK plan : plan = S!Measurement(pending) \o S!Ending
      OBVIOUS
    <2>5. todo[1].do # "record"
      BY <1>2
    <2>6. InProbes(plan, i)
      BY <2>3, <2>4, <2>5, ProbesAt, Zenon
    <2> QED
      BY <1>2, <2>1, <2>6 DEF InProbes, AtProbes
  <1>3. ASSUME todo[1].do = "probe", ~(scenario > 0 /\ \E i \in Nat : Behind(i))
        PROVE FALSE
    <2>1. todo[1].do \in Special
      BY <1>3 DEF Special
    <2>2. ~Plain(todo)
      BY <1>1, <2>1, Zenon DEF Plain
    <2>3. PICK cases \in S!SetToSeqs(Client), i \in Nat : scenario > 0 /\ Before(cases, i)
      BY <1>3, <2>2, Zenon DEF Place
    <2>4. PICK s : s = S!SCENARIOS[scenario]
      OBVIOUS
    <2>5. PICK plan : plan = S!Episode(s, cases)
      OBVIOUS
    <2>6. PICK k : k = Injected(s)
      OBVIOUS
    <2>7. todo[1].do # "record"
      BY <1>3
    <2>8. InPass(plan, cases, i, s, k)
      BY <2>3, <2>4, <2>5, <2>6, <2>7, PassAt, Zenon
    <2> QED
      BY <1>3, <2>1, <2>8 DEF InPass, At
  <1> QED
    BY <1>2, <1>3

LEMMA ControlBehind ==
  ASSUME Typed, S!Control, scenario > 0, NEW i \in Nat, Behind(i)
  PROVE  Behind(i + 1)' \/ Plain(todo')
  <1>1. PICK plan : plan = S!Measurement(pending) \o S!Ending
    OBVIOUS
  <1>2. /\ todo \in Seq(Calls) /\ todo # << >> /\ todo[1] \in Calls
        /\ todo[1].do \notin Special /\ todo[1].do # "record"
        /\ lab' \in S!Succeeds(todo[1]) /\ todo' = Tail(todo)
    BY ControlPlain, Zenon
  <1>3. InProbes(plan, i)
    BY <1>1, <1>2, ProbesAt, Zenon
  <1>4. /\ Measuring(plan, pending) /\ Len(pending) \in Nat /\ Len(pending) > 0
        /\ plan \in Seq(Calls) /\ i \in {1, 2, 3, 4 + Len(pending)} /\ i < Len(plan)
        /\ todo[1] = plan[i] /\ From(todo, plan, i) /\ From(todo', plan, i + 1)
        /\ \A j \in 1 .. Len(plan) : plan[j].do # "record"
        /\ i = 1 => todo[1] = S!Call("isolate", "N1")
        /\ i \in {2, 3} => todo[1].do \in {"verify_isolation", "settle_views"}
    BY <1>2, <1>3 DEF InProbes, AtProbes
  <1>5. todo' \in Seq(Calls)
    BY <1>2, Dropped, Zenon
  <1>6. lab = (IF i = 1 THEN Fault ELSE [Fault EXCEPT !["N1"] = "blocked"]) /\ pending # << >>
    BY Zenon DEF Behind
  <1>7. lab \in [S!Node -> S!Condition]
    BY DEF Typed
  <1>8. UNCHANGED <<pending, scenario>>
    BY DEF S!Control, S!Rest
  <1>9. CASE i \in {1, 2, 3}
    <2>1. lab' = [Fault EXCEPT !["N1"] = "blocked"]
      <3>1. CASE i = 1
        <4>1. todo[1].do = "isolate" /\ todo[1].on = "N1"
          BY <1>4, <3>1, CallHas
        <4>2. lab' = [lab EXCEPT !["N1"] = "blocked"]
          BY <1>2, <1>7, <4>1, Succeeding, Zenon
        <4> QED
          BY <1>6, <3>1, <4>2, Zenon
      <3>2. CASE i \in {2, 3}
        <4>1. todo[1].do \in {"healthy", "verify_isolation", "connect", "settle_views", "peer_tcp"}
          BY <1>4, <3>2
        <4>2. lab' = lab
          BY <1>2, <1>7, <4>1, Succeeding, Zenon
        <4> QED
          BY <1>6, <3>2, <4>2
      <3> QED
        BY <1>9, <3>1, <3>2
    <2>2. i + 1 \in Nat /\ i + 1 <= 4 + Len(pending) /\ i + 1 # 1
      BY <1>4, <1>9
    <2>3. From(Strip(todo'), plan, i + 1)
      BY <1>4, <1>5, <2>2, StripsItself, Zenon
    <2> QED
      BY <1>1, <1>6, <1>8, <2>1, <2>2, <2>3 DEF Behind, Fault
  <1>10. CASE i = 4 + Len(pending)
    <2>1. /\ Len(todo') \in Nat /\ Len(plan) \in Nat /\ Len(todo') = Len(plan) + 1 - (i + 1)
          /\ \A j \in 1 .. Len(todo') : todo'[j] = plan[i + 1 + j - 1]
      <3>1. Len(todo') \in Nat /\ Len(plan) \in Nat
        BY <1>4, <1>5
      <3> QED
        BY <1>4, <3>1, Zenon DEF From
    <2>2. \A j \in 1 .. Len(todo') : i + 1 + j - 1 \in 4 + Len(pending) .. Len(plan)
      BY <1>4, <1>10, <2>1
    <2>3. \A j \in 4 + Len(pending) .. Len(plan) : plan[j].do \notin Special
      BY <1>4, Zenon DEF Measuring
    <2>4. Plain(todo')
      BY <2>1, <2>2, <2>3, Zenon DEF Plain
    <2> QED
      BY <2>4
  <1> QED
    BY <1>4, <1>9, <1>10

LEMMA ControlKeeps ==
  ASSUME S!IsFiniteSet(Client), Typed, Place, S!Control
  PROVE  Typed' /\ Place' /\ Fronts'
  <1>1. Typed'
    BY ControlTyped
  <1>2. stage' = stage /\ scenario' = scenario /\ todo' = Tail(todo) /\ todo \in Seq(Calls) /\ todo # << >>
    BY DEF S!Control, S!Rest, Typed
  <1>3. ASSUME stage = "try" PROVE Place' /\ (todo' # << >> => todo'[1].do # "record")
    <2>1. CASE Plain(todo')
      <3>1. todo' # << >> => todo'[1].do # "record"
        <4>1. todo' # << >> => 1 \in 1 .. Len(todo')
          BY <1>1 DEF Typed
        <4> QED
          BY <2>1, <4>1 DEF Plain, Special
      <3> QED
        BY <2>1, <3>1 DEF Place, Plain
    <2>2. CASE Plain(todo)
      BY <1>2, <2>1, <2>2, PlainTail
    <2>3. CASE scenario > 0 /\ \E cases \in S!SetToSeqs(Client), i \in Nat : Before(cases, i)
      <3>1. PICK cases \in S!SetToSeqs(Client), i \in Nat : Before(cases, i)
        BY <2>3
      <3>2. Before(cases, i + 1)' /\ Strip(todo') = todo'
        BY <2>3, <3>1, ControlBefore, Zenon
      <3>3. i + 1 \in Nat
        OBVIOUS
      <3>4. Place'
        BY <1>2, <2>3, <3>2, <3>3 DEF Place
      <3>5. todo' # << >> => todo'[1].do # "record"
        <4>1. todo' \in Seq(Calls)
          BY <1>1 DEF Typed
        <4> QED
          BY <3>2, <4>1, Stripped, Dropped
      <3> QED
        BY <3>4, <3>5
    <2>4. CASE scenario > 0 /\ \E i \in Nat : Behind(i)
      <3>1. PICK i \in Nat : Behind(i)
        BY <2>4
      <3>2. Behind(i + 1)' \/ Plain(todo')
        BY <2>4, <3>1, ControlBehind, Zenon
      <3>3. CASE Behind(i + 1)'
        <4>1. i + 1 \in Nat /\ Place'
          BY <1>2, <2>4, <3>3 DEF Place
        <4>2. todo' # << >> => todo'[1].do # "record"
          <5>1. Typed' /\ scenario' > 0
            BY <1>1, <1>2, <2>4
          <5>2. todo \in Seq(Calls) /\ todo # << >> /\ todo[1].do # "record"
            BY ControlPlain, Zenon
          <5>3. PICK plan : plan = S!Measurement(pending) \o S!Ending
            OBVIOUS
          <5>4. InProbes(plan, i)
            BY <3>1, <5>2, <5>3, ProbesAt, Zenon
          <5>5. From(todo', plan, i + 1) /\ plan \in Seq(Calls) /\ i + 1 \in Nat
                /\ \A j \in 1 .. Len(plan) : plan[j].do # "record"
            BY <1>2, <5>4 DEF InProbes
          <5>6. todo' \in Seq(Calls)
            BY <1>1 DEF Typed
          <5>7. todo'[1] = plan[i + 1] /\ i + 1 \in 1 .. Len(plan)
            BY <5>5, <5>6, FromFirst, Zenon
          <5> QED
            BY <5>5, <5>7, Zenon
        <4> QED
          BY <4>1, <4>2
      <3> QED
        BY <2>1, <3>2, <3>3
    <2> QED
      BY <1>3, <2>2, <2>3, <2>4 DEF Place
  <1>4. ASSUME stage # "try" PROVE Place' /\ Fronts'
    BY <1>2, <1>4 DEF Place, Fronts
  <1> QED
    BY <1>1, <1>2, <1>3, <1>4 DEF Fronts

(* The lab of a workload.                                                    *)
LEMMA AtWorkload ==
  ASSUME S!IsFiniteSet(Client), Typed, scenario > 0, NEW s, s = S!SCENARIOS[scenario],
         NEW k, k = Injected(s), Trials \in Nat, NEW cases, NEW i \in Nat, Before(cases, i),
         i >= 4 + Trials + k, i < 4 + Trials + k + Trials
  PROVE  lab = S!Faulty(s)
  <1>1. s \in {"normal", "node_stop", "partition"}
    <2>1. scenario \in 1 .. 3
      BY DEF Typed
    <2> QED
      BY <2>1, ScenarioNamed, Zenon
  <1>2. k = CASE s = "node_stop" -> 2 [] s = "partition" -> 3 [] OTHER -> 0
    BY <1>1, InjectShape, Zenon
  <1>3. CASE 4 + Trials < i
    <2>1. Trials > 0
      BY <1>1, <1>2
    <2> QED
      BY <1>3, <2>1, Zenon DEF Before, Fault
  <1>4. CASE i <= 4 + Trials
    <2>1. s = "normal" /\ Trials > 0 /\ 4 < i
      BY <1>1, <1>2, <1>4
    <2>2. AllOpen
      BY <1>4, <2>1, Zenon DEF Before
    <2>3. lab \in [S!Node -> S!Condition]
      BY DEF Typed
    <2> QED
      BY <2>1, <2>2, <2>3, FaultMade, Zenon
  <1> QED
    BY <1>1, <1>2, <1>3, <1>4

LEMMA AtCall ==
  ASSUME S!IsFiniteSet(Client), Typed, Place, stage = "try", todo # << >>,
         todo[1].do \in {"prepare", "workload", "measure"},
         NEW s, s = S!SCENARIOS[scenario], NEW k, k = Injected(s)
  PROVE  /\ scenario > 0
         /\ \E cases \in S!SetToSeqs(Client), i \in Nat :
               Before(cases, i) /\ InPass(S!Episode(s, cases), cases, i, s, k)
  <1>1. scenario > 0 /\ \E cases \in S!SetToSeqs(Client), i \in Nat : Before(cases, i)
    BY Where, Zenon
  <1>2. PICK cases \in S!SetToSeqs(Client), i \in Nat : Before(cases, i)
    BY <1>1
  <1>3. PICK plan : plan = S!Episode(s, cases)
    OBVIOUS
  <1>4. todo[1].do # "record"
    OBVIOUS
  <1>5. InPass(plan, cases, i, s, k)
    BY <1>1, <1>2, <1>3, <1>4, PassAt, Zenon
  <1> QED
    BY <1>1, <1>2, <1>3, <1>5, Zenon

LEMMA AtProbe ==
  ASSUME S!IsFiniteSet(Client), Typed, Place, stage = "try", todo # << >>, todo[1].do = "probe"
  PROVE  /\ scenario > 0
         /\ \E i \in Nat : Behind(i) /\ InProbes(S!Measurement(pending) \o S!Ending, i)
  <1>1. scenario > 0 /\ \E i \in Nat : Behind(i)
    BY Where, Zenon
  <1>2. PICK i \in Nat : Behind(i)
    BY <1>1
  <1>3. PICK plan : plan = S!Measurement(pending) \o S!Ending
    OBVIOUS
  <1>4. todo[1].do # "record"
    OBVIOUS
  <1>5. InProbes(plan, i)
    BY <1>2, <1>3, <1>4, ProbesAt, Zenon
  <1> QED
    BY <1>1, <1>2, <1>3, <1>5, Zenon

(* The call that is due.                                                     *)
LEMMA Due ==
  ASSUME Typed, NEW what, S!Now(what)
  PROVE  /\ stage = "try" /\ todo \in Seq(Calls) /\ todo # << >> /\ todo[1].do = what
         /\ S!t = todo[1].on /\ Head(todo) = todo[1] /\ Tail(todo) \in Seq(Calls)
  <1>1. stage = "try" /\ todo \in Seq(Calls) /\ todo # << >> /\ Head(todo).do = what
    BY DEF Typed, S!Now
  <1>2. Head(todo) = todo[1] /\ Tail(todo) \in Seq(Calls)
    BY <1>1
  <1> QED
    BY <1>1, <1>2, Zenon DEF S!t

(* The trials of a pass.                                                     *)
LEMMA CaseIs ==
  ASSUME S!IsFiniteSet(Client), NEW cases \in S!SetToSeqs(Client), NEW j \in 1 .. Trials
  PROVE  cases[j] \in Client
  <1>1. cases \in Seq(Client) /\ Len(cases) = Trials
    BY CasesTyped, Zenon
  <1> QED
    BY <1>1

LEMMA PrepareKeeps ==
  ASSUME S!IsFiniteSet(Client), Typed, Place, S!Prepare
  PROVE  Typed' /\ Place' /\ Fronts'
  <1>1. /\ stage = "try" /\ todo \in Seq(Calls) /\ todo # << >> /\ todo[1].do = "prepare"
        /\ S!t = todo[1].on /\ Tail(todo) \in Seq(Calls)
    BY Due, Zenon DEF S!Prepare
  <1>2. /\ prepared' = prepared \cup {todo[1].on} /\ todo' = Tail(todo) /\ AllOpen
        /\ UNCHANGED <<lab, pending, records, stage, scenario, lines, completion>>
    <2>1. /\ prepared' = prepared \cup {S!t} /\ todo' = Tail(todo) /\ AllOpen
          /\ UNCHANGED <<lab, pending, records, stage, scenario, lines, completion>>
      BY DEF S!Prepare, S!Rest, S!AllOpen, S!Open, AllOpen
    <2> QED
      BY <1>1, <2>1, Zenon
  <1>3. PICK s : s = S!SCENARIOS[scenario]
    OBVIOUS
  <1>4. PICK k : k = Injected(s)
    OBVIOUS
  <1>5. todo[1].do \in {"prepare", "workload", "measure"}
    BY <1>1
  <1>6. /\ scenario > 0
        /\ \E cases \in S!SetToSeqs(Client), i \in Nat :
              Before(cases, i) /\ InPass(S!Episode(s, cases), cases, i, s, k)
    BY <1>1, <1>3, <1>4, <1>5, AtCall, Zenon
  <1>c. PICK cases \in S!SetToSeqs(Client), i \in Nat :
           Before(cases, i) /\ InPass(S!Episode(s, cases), cases, i, s, k)
    BY <1>6
  <1>p. PICK plan : plan = S!Episode(s, cases)
    OBVIOUS
  <1>7. Before(cases, i) /\ InPass(plan, cases, i, s, k)
    BY <1>c, <1>p, Zenon
  <1>8. /\ plan \in Seq(Calls)
        /\ i < Len(plan) => From(todo', plan, i + 1)
        /\ \A j \in 1 .. Len(plan) : plan[j].do # "record"
        /\ Trials \in Nat /\ k \in {0, 2, 3} /\ Len(plan) = 4 + Trials + k + Trials
        /\ i \in 4 .. 3 + Trials /\ todo[1].on = cases[i - 3]
    BY <1>1, <1>2, <1>7 DEF InPass, At
  <1>9. /\ i + 1 \in Nat /\ i < Len(plan) /\ i - 3 \in 1 .. Trials /\ 4 < i + 1
        /\ ~(4 + Trials < i + 1)
    BY <1>8
  <1>10. todo[1].on \in Client
    BY <1>8, <1>9, CaseIs, Zenon
  <1>11. Typed'
    BY <1>1, <1>2, <1>10 DEF Typed
  <1>12. From(Strip(todo'), plan, i + 1) /\ Strip(todo') = todo'
    BY <1>1, <1>2, <1>8, <1>9, StripsItself, Zenon
  <1>13. prepared' = SoFar(cases, i + 1)
    <2>1. prepared = SoFar(cases, i)
      BY <1>7, Zenon DEF Before
    <2>2. SoFar(cases, i) \cup {cases[i - 3]} = SoFar(cases, i + 1)
      BY <1>8, SoFarMore
    <2> QED
      BY <1>2, <1>8, <2>1, <2>2, Zenon
  <1>14. plan = S!Episode(S!SCENARIOS[scenario], cases)
    BY <1>3, <1>p
  <1>15. Before(cases, i + 1)'
    BY <1>2, <1>9, <1>12, <1>13, <1>14 DEF Before, AllOpen
  <1>16. Place'
    BY <1>2, <1>6, <1>9, <1>15 DEF Place
  <1>17. Fronts'
    <2>1. todo'[1] = plan[i + 1] /\ i + 1 \in 1 .. Len(plan)
      BY <1>1, <1>2, <1>8, <1>9, FromFirst, Zenon
    <2> QED
      BY <1>8, <2>1, Zenon DEF Fronts
  <1> QED
    BY <1>11, <1>16, <1>17

LEMMA WorkloadKeeps ==
  ASSUME S!IsFiniteSet(Client), Typed, Place, S!Workload
  PROVE  Typed' /\ Place' /\ Fronts' /\ S!t \in Client
  <1>1. /\ stage = "try" /\ todo \in Seq(Calls) /\ todo # << >> /\ todo[1].do = "workload"
        /\ S!t = todo[1].on /\ Tail(todo) \in Seq(Calls)
    BY Due, Zenon DEF S!Workload
  <1>2. PICK q : q = Tail(todo)
    OBVIOUS
  <1>3. PICK c : c = S!t
    OBVIOUS
  <1>4. /\ UNCHANGED <<lab, prepared, records, stage, scenario, lines, completion>>
        /\ \/ todo' = << S!Call("record", c) >> \o q /\ pending' = pending
           \/ todo' = q /\ pending' = Append(pending, c)
    BY <1>2, <1>3 DEF S!Workload, S!Rest
  <1>5. PICK s : s = S!SCENARIOS[scenario]
    OBVIOUS
  <1>6. PICK k : k = Injected(s)
    OBVIOUS
  <1>7. todo[1].do \in {"prepare", "workload", "measure"}
    BY <1>1
  <1>8. /\ scenario > 0
        /\ \E cases \in S!SetToSeqs(Client), i \in Nat :
              Before(cases, i) /\ InPass(S!Episode(s, cases), cases, i, s, k)
    BY <1>1, <1>5, <1>6, <1>7, AtCall, Zenon
  <1>c. PICK cases \in S!SetToSeqs(Client), i \in Nat :
           Before(cases, i) /\ InPass(S!Episode(s, cases), cases, i, s, k)
    BY <1>8
  <1>p. PICK plan : plan = S!Episode(s, cases)
    OBVIOUS
  <1>9. Before(cases, i) /\ InPass(plan, cases, i, s, k)
    BY <1>c, <1>p, Zenon
  <1>10. /\ plan \in Seq(Calls)
         /\ i < Len(plan) => From(q, plan, i + 1)
         /\ \A j \in 1 .. Len(plan) : plan[j].do # "record"
         /\ Trials \in Nat /\ k \in {0, 2, 3} /\ Len(plan) = 4 + Trials + k + Trials
         /\ i \in 4 + Trials + k .. 3 + Trials + k + Trials
         /\ c = cases[i - 3 - Trials - k]
    BY <1>1, <1>2, <1>3, <1>9 DEF InPass, At
  <1>11. /\ i + 1 \in Nat /\ i < Len(plan) /\ i - 3 - Trials - k \in 1 .. Trials /\ 4 < i + 1
         /\ 4 + Trials < i + 1 /\ Trials > 0 /\ ~(i + 1 <= 4 + Trials) /\ i \notin 4 .. 3 + Trials
    BY <1>10
  <1>12. c \in Client
    BY <1>10, <1>11, CaseIs, Zenon
  <1>13. S!Call("record", c) \in Calls /\ S!Call("record", c).do = "record" /\ S!Call("record", c).on = c
    BY <1>12, CallTyped DEF Doings
  <1>14. From(Strip(q), plan, i + 1) /\ Strip(q) = q /\ q[1].do # "record" /\ q # << >>
    <2>1. q \in Seq(Calls) /\ From(q, plan, i + 1)
      BY <1>1, <1>2, <1>10, <1>11, Zenon
    <2>2. From(Strip(q), plan, i + 1) /\ Strip(q) = q
      BY <2>1, <1>10, <1>11, StripsItself, Zenon
    <2>3. q[1] = plan[i + 1] /\ i + 1 \in 1 .. Len(plan)
      BY <2>1, <1>10, <1>11, FromFirst, Zenon
    <2>4. q # << >>
      BY <2>1, <1>10, <1>11, FromTail, Zenon
    <2> QED
      BY <1>10, <2>2, <2>3, <2>4, Zenon
  <1>15. /\ todo' \in Seq(Calls) /\ Strip(todo') = q /\ pending' \in Seq(Client)
         /\ todo'[1].do = "record" => todo'[1].on = c
    <2>1. CASE todo' = << S!Call("record", c) >> \o q /\ pending' = pending
      <3>1. PICK x : x = S!Call("record", c)
        OBVIOUS
      <3>2. << x >> \o q \in Seq(Calls) /\ (<< x >> \o q)[1] = x
        BY <1>1, <1>2, <1>13, <3>1, Fronted, Zenon
      <3>3. Strip(<< S!Call("record", c) >> \o q) = q
        BY <1>1, <1>2, <1>12, StripRecord, Zenon
      <3>4. pending \in Seq(Client)
        BY DEF Typed
      <3> QED
        BY <1>13, <2>1, <3>1, <3>2, <3>3, <3>4, Zenon
    <2>2. CASE todo' = q /\ pending' = Append(pending, c)
      <3>1. pending' \in Seq(Client)
        BY <1>12, <2>2 DEF Typed
      <3> QED
        BY <1>1, <1>2, <1>14, <2>2, <3>1, Zenon
    <2> QED
      BY <1>4, <2>1, <2>2
  <1>16. Typed'
    BY <1>4, <1>15 DEF Typed
  <1>17. prepared' = SoFar(cases, i + 1)
    <2>1. prepared = SoFar(cases, i)
      BY <1>9, Zenon DEF Before
    <2>2. SoFar(cases, i) = SoFar(cases, i + 1)
      BY <1>10, <1>11, SoFarSame, Zenon
    <2> QED
      BY <1>4, <2>1, <2>2, Zenon
  <1>18. lab = S!Faulty(s)
    <2>1. i >= 4 + Trials + k /\ i < 4 + Trials + k + Trials
      BY <1>10
    <2>2. Before(cases, i) /\ Trials \in Nat
      BY <1>9, <1>10, Zenon
    <2> QED
      BY <1>5, <1>6, <1>8, <2>1, <2>2, AtWorkload, Zenon
  <1>19. plan = S!Episode(S!SCENARIOS[scenario], cases)
    BY <1>5, <1>p
  <1>20. Before(cases, i + 1)'
    BY <1>4, <1>5, <1>11, <1>14, <1>15, <1>17, <1>18, <1>19 DEF Before, Fault
  <1>21. Place'
    BY <1>4, <1>8, <1>11, <1>20 DEF Place
  <1>22. Fronts'
    BY <1>12, <1>15, Zenon DEF Fronts
  <1> QED
    BY <1>3, <1>12, <1>16, <1>21, <1>22

LEMMA MeasureKeeps ==
  ASSUME S!IsFiniteSet(Client), Typed, Place, S!Measure
  PROVE  Typed' /\ Place' /\ Fronts'
  <1>1. /\ stage = "try" /\ todo \in Seq(Calls) /\ todo # << >> /\ todo[1].do = "measure"
    BY Due, Zenon DEF S!Measure
  <1>2. /\ UNCHANGED <<lab, prepared, pending, records, stage, scenario, lines, completion>>
        /\ todo' = (IF pending = << >> THEN << >> ELSE S!Measurement(pending)) \o S!Ending
    BY DEF S!Measure, S!Rest
  <1>3. pending \in Seq(Client) /\ S!Ending \in Seq(Calls) /\ Plain(S!Ending)
    BY PlainPlans DEF Typed
  <1>4. CASE pending = << >>
    <2>1. todo' = S!Ending
      <3>1. PICK e : e = S!Ending
        OBVIOUS
      <3>2. << >> \o e = e
        BY <1>3, <3>1
      <3> QED
        BY <1>2, <1>4, <3>1, <3>2, Zenon
    <2>2. Typed'
      BY <1>2, <1>3, <2>1 DEF Typed
    <2>3. todo' # << >> => todo'[1].do # "record"
      <3>1. PICK e : e = S!Ending
        OBVIOUS
      <3>2. e # << >> => 1 \in 1 .. Len(e)
        BY <1>3, <3>1
      <3>3. Plain(e)
        BY <1>3, <3>1, Zenon
      <3>4. e # << >> => e[1].do # "record"
        BY <3>2, <3>3 DEF Plain, Special
      <3> QED
        BY <2>1, <3>1, <3>4, Zenon
    <2>4. Place'
      BY <1>3, <2>1, Zenon DEF Place, Plain
    <2> QED
      BY <2>2, <2>3, <2>4, Zenon DEF Fronts
  <1>5. CASE pending # << >>
    <2>1. PICK plan : plan = S!Measurement(pending) \o S!Ending
      OBVIOUS
    <2>2. todo' = plan
      BY <1>2, <1>5, <2>1, Zenon
    <2>3. Measuring(plan, pending)
      BY <1>3, <2>1, MeasurementShape, Zenon
    <2>4. /\ plan \in Seq(Calls) /\ Len(pending) \in Nat /\ Len(plan) > 4 + Len(pending)
          /\ \A j \in 1 .. Len(plan) : plan[j].do # "record"
      BY <2>3, NoRecordBehind, Zenon DEF Measuring
    <2>5. Typed'
      BY <1>2, <2>2, <2>4 DEF Typed
    <2>6. Len(plan) \in Nat /\ Len(plan) > 0 /\ 1 \in Nat /\ 1 \in 1 .. Len(plan) /\ 1 <= 4 + Len(pending)
      BY <2>4
    <2>7. From(plan, plan, 1)
      BY <2>4, <2>6, FromSelf, Zenon
    <2>8. From(Strip(plan), plan, 1)
      BY <2>4, <2>6, <2>7, StripsItself, Zenon
    <2>9. PICK s : s = S!SCENARIOS[scenario]
      OBVIOUS
    <2>10. PICK k : k = Injected(s)
      OBVIOUS
    <2>11. todo[1].do \in {"prepare", "workload", "measure"}
      BY <1>1
    <2>12. /\ scenario > 0
           /\ \E cases \in S!SetToSeqs(Client), i \in Nat :
                 Before(cases, i) /\ InPass(S!Episode(s, cases), cases, i, s, k)
      BY <1>1, <2>9, <2>10, <2>11, AtCall, Zenon
    <2>13. PICK cases \in S!SetToSeqs(Client), i \in Nat :
              Before(cases, i) /\ InPass(S!Episode(s, cases), cases, i, s, k)
      BY <2>12
    <2>14. PICK pass : pass = S!Episode(s, cases)
      OBVIOUS
    <2>15. InPass(pass, cases, i, s, k)
      BY <2>13, <2>14, Zenon
    <2>16. /\ Trials \in Nat /\ k \in {0, 2, 3} /\ i = 4 + Trials + k + Trials
      BY <1>1, <2>15 DEF InPass, At
    <2>17. Trials > 0
      <3>1. pending[1] \in Client
        BY <1>3, <1>5
      <3>2. \E j \in 1 .. Trials : cases[j] = pending[1]
        BY <3>1, CasesTyped, Zenon
      <3> QED
        BY <2>16, <3>2
    <2>18. 4 + Trials < i
      BY <2>16, <2>17
    <2>19. lab = Fault
      BY <2>13, <2>17, <2>18, Zenon DEF Before
    <2>20. Behind(1)'
      BY <1>2, <1>5, <2>1, <2>2, <2>6, <2>8, <2>19 DEF Behind, Fault
    <2>21. Place'
      BY <1>2, <2>6, <2>12, <2>20 DEF Place
    <2>22. Fronts'
      BY <2>2, <2>4, <2>6, Zenon DEF Fronts
    <2> QED
      BY <2>5, <2>21, <2>22
  <1> QED
    BY <1>4, <1>5

LEMMA ProbeKeeps ==
  ASSUME S!IsFiniteSet(Client), Typed, Place, S!Probe
  PROVE  Typed' /\ Place' /\ Fronts' /\ S!t \in Client
  <1>1. /\ stage = "try" /\ todo \in Seq(Calls) /\ todo # << >> /\ todo[1].do = "probe"
        /\ S!t = todo[1].on /\ Tail(todo) \in Seq(Calls)
    BY Due, Zenon DEF S!Probe
  <1>2. PICK q : q = Tail(todo)
    OBVIOUS
  <1>3. PICK c : c = S!t
    OBVIOUS
  <1>4. /\ UNCHANGED <<lab, prepared, pending, records, stage, scenario, lines, completion>>
        /\ todo' = << S!Call("record", c) >> \o q
    BY <1>2, <1>3 DEF S!Probe, S!Rest
  <1>5. /\ scenario > 0
        /\ \E i \in Nat : Behind(i) /\ InProbes(S!Measurement(pending) \o S!Ending, i)
    BY <1>1, AtProbe, Zenon
  <1>6. PICK i \in Nat : Behind(i) /\ InProbes(S!Measurement(pending) \o S!Ending, i)
    BY <1>5
  <1>7. PICK plan : plan = S!Measurement(pending) \o S!Ending
    OBVIOUS
  <1>8. Behind(i) /\ InProbes(plan, i)
    BY <1>6, <1>7, Zenon
  <1>9. /\ plan \in Seq(Calls) /\ Len(pending) \in Nat
        /\ i < Len(plan) /\ From(q, plan, i + 1)
        /\ \A j \in 1 .. Len(plan) : plan[j].do # "record"
        /\ i \in 4 .. 3 + Len(pending) /\ c = pending[i - 3]
    BY <1>1, <1>2, <1>3, <1>8 DEF InProbes, AtProbes
  <1>10. /\ i + 1 \in Nat /\ i + 1 <= 4 + Len(pending) /\ i # 1 /\ i + 1 # 1
    BY <1>9
  <1>11. c \in Client
    BY <1>9 DEF Typed
  <1>12. S!Call("record", c) \in Calls /\ S!Call("record", c).on = c
    BY <1>11, CallTyped DEF Doings
  <1>13. From(Strip(q), plan, i + 1) /\ Strip(q) = q
    BY <1>1, <1>2, <1>9, <1>10, StripsItself, Zenon
  <1>14. todo' \in Seq(Calls) /\ Strip(todo') = q /\ todo'[1].on = c
    <2>1. PICK x : x = S!Call("record", c)
      OBVIOUS
    <2>2. << x >> \o q \in Seq(Calls) /\ (<< x >> \o q)[1] = x
      BY <1>1, <1>2, <1>12, <2>1, Fronted, Zenon
    <2>3. Strip(<< S!Call("record", c) >> \o q) = q
      BY <1>1, <1>2, <1>11, StripRecord, Zenon
    <2> QED
      BY <1>4, <1>12, <2>1, <2>2, <2>3, Zenon
  <1>15. Typed'
    BY <1>4, <1>14 DEF Typed
  <1>16. Behind(i + 1)'
    BY <1>4, <1>7, <1>8, <1>10, <1>13, <1>14 DEF Behind, Fault
  <1>17. Place'
    BY <1>4, <1>5, <1>10, <1>16 DEF Place
  <1>18. Fronts'
    BY <1>11, <1>14, Zenon DEF Fronts
  <1> QED
    BY <1>3, <1>11, <1>15, <1>17, <1>18

(* A record goes from the front of the list to the histories.                *)
LEMMA RecordFacts ==
  ASSUME Typed, Fronts, S!Record
  PROVE  /\ stage = "try" /\ todo \in Seq(Calls) /\ todo # << >> /\ todo[1].do = "record"
         /\ S!t = todo[1].on /\ todo[1].on \in Client
         /\ todo' = Tail(todo) /\ todo' \in Seq(Calls) /\ Strip(todo) = todo'
         /\ records' = Append(records, <<scenario, todo[1].on>>)
         /\ lines' = Append(lines, <<scenario, todo[1].on>>)
         /\ UNCHANGED <<lab, stage, scenario, prepared, pending, completion>>
  <1>1. /\ stage = "try" /\ todo \in Seq(Calls) /\ todo # << >> /\ todo[1].do = "record"
        /\ S!t = todo[1].on /\ Tail(todo) \in Seq(Calls)
    BY Due, Zenon DEF S!Record
  <1>2. /\ todo' = Tail(todo) /\ UNCHANGED <<lab, stage, scenario, prepared, pending, completion>>
        /\ records' = Append(records, <<scenario, S!t>>)
        /\ lines' = Append(lines, <<scenario, S!t>>)
    BY DEF S!Record
  <1>3. Strip(todo) = Tail(todo)
    BY <1>1, Stripped, Zenon
  <1>4. todo[1].on \in Client
    BY <1>1, Zenon DEF Fronts
  <1> QED
    BY <1>1, <1>2, <1>3, <1>4, Zenon

LEMMA RecordKeeps ==
  ASSUME S!IsFiniteSet(Client), Typed, Place, Fronts, S!Record
  PROVE  Typed' /\ Place' /\ Fronts'
  <1>1. /\ stage = "try" /\ todo \in Seq(Calls) /\ todo # << >> /\ todo[1].do = "record"
        /\ todo[1].on \in Client /\ todo' \in Seq(Calls) /\ Strip(todo) = todo'
        /\ records' = Append(records, <<scenario, todo[1].on>>)
        /\ lines' = Append(lines, <<scenario, todo[1].on>>)
        /\ UNCHANGED <<lab, stage, scenario, prepared, pending, completion>>
    BY RecordFacts, Zenon
  <1>2. ~Plain(todo)
    <2>1. 1 \in 1 .. Len(todo)
      BY <1>1
    <2> QED
      BY <1>1, <2>1 DEF Plain, Special
  <1>3. scenario > 0
    BY <1>1, <1>2, Zenon DEF Place
  <1>4. Typed'
    <2>1. <<scenario, todo[1].on>> \in Keys
      BY <1>1, <1>3 DEF Typed, Keys
    <2>2. records' \in Seq(Keys) /\ lines' \in Seq(Keys)
      BY <1>1, <2>1 DEF Typed
    <2> QED
      BY <1>1, <2>2 DEF Typed
  <1>5. CASE \E cases \in S!SetToSeqs(Client), i \in Nat : Before(cases, i)
    <2>1. PICK cases \in S!SetToSeqs(Client), i \in Nat : Before(cases, i)
      BY <1>5
    <2>2. PICK plan : plan = S!Episode(S!SCENARIOS[scenario], cases)
      OBVIOUS
    <2>3. /\ plan \in Seq(Calls) /\ From(todo', plan, i)
          /\ \A j \in 1 .. Len(plan) : plan[j].do # "record"
      BY <1>1, <1>3, <2>1, <2>2, BeforeFacts, Zenon
    <2>4. From(Strip(todo'), plan, i)
      BY <1>1, <2>3, StripsItself, Zenon
    <2>5. Before(cases, i)'
      BY <1>1, <2>1, <2>2, <2>4 DEF Before, AllOpen, Fault
    <2>6. Place'
      BY <1>1, <1>3, <2>5 DEF Place
    <2>7. Fronts'
      <3>1. todo'[1] = plan[i] /\ i \in 1 .. Len(plan)
        BY <1>1, <2>3, FromFirst, Zenon
      <3> QED
        BY <2>3, <3>1, Zenon DEF Fronts
    <2> QED
      BY <1>4, <2>6, <2>7
  <1>6. CASE \E i \in Nat : Behind(i)
    <2>1. PICK i \in Nat : Behind(i)
      BY <1>6
    <2>2. PICK plan : plan = S!Measurement(pending) \o S!Ending
      OBVIOUS
    <2>3. /\ plan \in Seq(Calls) /\ From(todo', plan, i)
          /\ \A j \in 1 .. Len(plan) : plan[j].do # "record"
      BY <1>1, <2>1, <2>2, BehindFacts, Zenon
    <2>4. From(Strip(todo'), plan, i)
      BY <1>1, <2>3, StripsItself, Zenon
    <2>5. Behind(i)'
      BY <1>1, <2>1, <2>2, <2>4 DEF Behind, Fault
    <2>6. Place'
      BY <1>1, <1>3, <2>5 DEF Place
    <2>7. Fronts'
      <3>1. todo'[1] = plan[i] /\ i \in 1 .. Len(plan)
        BY <1>1, <2>3, FromFirst, Zenon
      <3> QED
        BY <2>3, <3>1, Zenon DEF Fronts
    <2> QED
      BY <1>4, <2>6, <2>7
  <1> QED
    BY <1>1, <1>2, <1>5, <1>6, Zenon DEF Place

(* Each scenario begins with a shuffled list of all trials.                  *)
NewPass(s, cases) == cases \in S!SetToSeqs(Client) /\ todo' = S!Episode(s, cases)

LEMMA NextScenarioFacts ==
  ASSUME Typed, S!NextScenario
  PROVE  /\ stage = "try" /\ scenario \in 0 .. 2 /\ scenario' = scenario + 1
         /\ pending' = << >> /\ prepared' = {}
         /\ UNCHANGED <<lab, stage, records, lines, completion>>
         /\ \E cases : NewPass(S!SCENARIOS[scenario + 1], cases)
  <1>1. Len(S!SCENARIOS) = 3
    BY DEF S!SCENARIOS
  <1>2. /\ stage = "try" /\ scenario < Len(S!SCENARIOS) /\ scenario' = scenario + 1
        /\ pending' = << >> /\ prepared' = {}
        /\ UNCHANGED <<lab, stage, records, lines, completion>>
        /\ \E cases \in S!SetToSeqs(Client) : todo' = S!Episode(S!SCENARIOS[scenario'], cases)
    BY DEF S!NextScenario, S!FreshPending, S!Now
  <1>3. scenario \in 0 .. 2
    BY <1>1, <1>2 DEF Typed
  <1> QED
    BY <1>2, <1>3, Zenon DEF NewPass

LEMMA NextScenarioKeeps ==
  ASSUME S!IsFiniteSet(Client), Typed, S!NextScenario
  PROVE  Typed' /\ Place' /\ Fronts'
  <1>1. /\ stage = "try" /\ scenario \in 0 .. 2 /\ scenario' = scenario + 1
        /\ pending' = << >> /\ prepared' = {}
        /\ UNCHANGED <<lab, stage, records, lines, completion>>
        /\ \E cases : NewPass(S!SCENARIOS[scenario + 1], cases)
    BY NextScenarioFacts, Zenon
  <1>2. PICK s : s = S!SCENARIOS[scenario + 1]
    OBVIOUS
  <1>3. PICK cases : NewPass(s, cases)
    BY <1>1, <1>2, Zenon
  <1>4. PICK plan : plan = S!Episode(s, cases)
    OBVIOUS
  <1>5. cases \in S!SetToSeqs(Client) /\ todo' = plan
    BY <1>3, <1>4, Zenon DEF NewPass
  <1>6. s \in {"normal", "node_stop", "partition"} /\ scenario' \in 1 .. 3
    <2>1. scenario + 1 \in 1 .. 3
      BY <1>1
    <2> QED
      BY <1>1, <1>2, <2>1, ScenarioNamed, Zenon
  <1>7. Passing(plan, cases, s)
    BY <1>4, <1>5, <1>6, PassingShape, Zenon
  <1>8. /\ plan \in Seq(Calls) /\ Trials \in Nat
        /\ \A j \in 1 .. Len(plan) : plan[j].do # "record"
    <2>1. \A j \in 1 .. Len(plan) : plan[j].do # "record"
      BY <1>7, NoRecord, Zenon
    <2> QED
      BY <1>7, <2>1, Zenon DEF Passing
  <1>9. Len(plan) > 0 /\ 1 \in 1 .. Len(plan) /\ 1 \in Nat
    <2>1. PICK k : k = Injected(s)
      OBVIOUS
    <2>2. k \in {0, 2, 3} /\ Len(plan) = 4 + Trials + k + Trials
      BY <1>7, <2>1, Zenon DEF Passing
    <2> QED
      BY <1>8, <2>2
  <1>10. From(plan, plan, 1)
    BY <1>8, <1>9, FromSelf, Zenon
  <1>11. From(Strip(plan), plan, 1)
    BY <1>8, <1>9, <1>10, StripsItself, Zenon
  <1>12. Typed'
    BY <1>1, <1>5, <1>6, <1>8 DEF Typed
  <1>13. ~(4 < 1) /\ ~(4 + Trials < 1)
    BY <1>8
  <1>14. SoFar(cases, 1) = {}
    BY <1>5, SoFarEnds, Zenon
  <1>15. s = S!SCENARIOS[scenario']
    BY <1>1, <1>2
  <1>16. Before(cases, 1)'
    BY <1>1, <1>4, <1>5, <1>11, <1>13, <1>14, <1>15 DEF Before
  <1>17. Place'
    BY <1>5, <1>6, <1>9, <1>16 DEF Place
  <1>18. Fronts'
    BY <1>5, <1>8, <1>9, Zenon DEF Fronts
  <1> QED
    BY <1>12, <1>17, <1>18

(* Raising, and what comes behind the try block.                             *)
LEMMA OthersKeep ==
  ASSUME Typed, Place, Fronts,
         S!Complete \/ S!Raise \/ S!Except \/ S!Finally \/ S!RaiseFinally \/ S!End
  PROVE  Typed' /\ Place' /\ Fronts' /\ stage' # "try"
  <1>1. << >> \in Seq(Calls) /\ S!Recover \in Seq(Calls)
    <2>1. S!Recover \in Seq(Calls)
      BY PlainPlans, Zenon
    <2> QED
      BY <2>1
  <1>2. \A c : S!Raises(c) \subseteq {lab} \cup S!Set(c.on, S!Condition)
    BY DEF S!Raises, S!Set, S!Condition
  <1>3. \A n, C : C \subseteq S!Condition => S!Set(n, C) \subseteq [S!Node -> S!Condition]
    BY DEF S!Set, Typed
  <1>4. \A c : S!Raises(c) \subseteq [S!Node -> S!Condition]
    BY <1>2, <1>3, Zenon DEF Typed
  <1>5. stage' # "try" => Place' /\ Fronts'
    BY Zenon DEF Place, Fronts
  <1>6. Len(records) \in Nat
    BY DEF Typed
  <1>7. CASE S!Complete
    <2>1. /\ UNCHANGED <<lab, scenario, prepared, pending, records, lines>>
          /\ stage' = "complete" /\ todo' = << >>
          /\ completion' = [status |-> "complete", histories |-> Len(records)]
      BY <1>7 DEF S!Complete
    <2> QED
      BY <1>1, <1>5, <1>6, <2>1 DEF Typed
  <1>8. CASE S!Raise
    <2>1. /\ UNCHANGED <<scenario, prepared, pending, lines, completion>>
          /\ stage' = "except" /\ todo' = << >>
          /\ lab' \in IF todo = << >> THEN {lab} ELSE S!Raises(Head(todo))
          /\ \/ UNCHANGED records
             \/ S!Now("record") /\ records' = Append(records, <<scenario, S!t>>)
      BY <1>8 DEF S!Raise
    <2>2. lab' \in [S!Node -> S!Condition]
      BY <1>4, <2>1 DEF Typed
    <2>3. records' \in Seq(Keys)
      <3>1. CASE UNCHANGED records
        BY <3>1 DEF Typed
      <3>2. CASE S!Now("record") /\ records' = Append(records, <<scenario, S!t>>)
        <4>1. /\ stage = "try" /\ todo \in Seq(Calls) /\ todo # << >> /\ todo[1].do = "record"
              /\ S!t = todo[1].on
          BY <3>2, Due, Zenon
        <4>2. S!t \in Client /\ ~Plain(todo)
          <5>1. 1 \in 1 .. Len(todo)
            BY <4>1
          <5>2. ~Plain(todo)
            BY <4>1, <5>1 DEF Plain, Special
          <5> QED
            BY <4>1, <5>2, Zenon DEF Fronts
        <4>3. scenario > 0
          BY <4>1, <4>2, Zenon DEF Place
        <4>4. <<scenario, S!t>> \in Keys
          BY <4>2, <4>3 DEF Typed, Keys
        <4> QED
          BY <3>2, <4>4 DEF Typed
      <3> QED
        BY <2>1, <3>1, <3>2
    <2> QED
      BY <1>1, <1>5, <2>1, <2>2, <2>3 DEF Typed
  <1>9. CASE S!Except
    <2>1. /\ UNCHANGED <<lab, scenario, prepared, pending, records, lines>>
          /\ stage' = "finally" /\ todo' = S!Recover
          /\ \/ completion' = [status |-> "incomplete", histories |-> Len(records)]
             \/ UNCHANGED completion
      BY <1>9 DEF S!Except
    <2> QED
      BY <1>1, <1>5, <1>6, <2>1 DEF Typed
  <1>10. CASE S!Finally
    <2>1. /\ UNCHANGED <<lab, scenario, prepared, pending, records, lines, completion>>
          /\ stage' = "finally" /\ todo' = S!Recover
      BY <1>10 DEF S!Finally
    <2> QED
      BY <1>1, <1>5, <2>1 DEF Typed
  <1>11. CASE S!RaiseFinally
    <2>1. /\ UNCHANGED <<scenario, prepared, pending, records, lines, completion>>
          /\ stage' = "ended" /\ todo' = << >> /\ lab' \in S!Raises(Head(todo))
      BY <1>11 DEF S!RaiseFinally
    <2>2. lab' \in [S!Node -> S!Condition]
      BY <1>4, <2>1
    <2> QED
      BY <1>1, <1>5, <2>1, <2>2 DEF Typed
  <1>12. CASE S!End
    <2>1. /\ UNCHANGED <<lab, todo, scenario, prepared, pending, records, lines, completion>>
          /\ stage' = "ended"
      BY <1>12 DEF S!End
    <2> QED
      BY <1>5, <2>1 DEF Typed
  <1> QED
    BY <1>7, <1>8, <1>9, <1>10, <1>11, <1>12

-----------------------------------------------------------------------------
(* The fault is sustained *)

LEMMA SuiteBegins ==
  ASSUME S!Init
  PROVE  Typed /\ Place /\ Fronts /\ scenario = 0
  <1>1. PICK r : r = S!Preflight \o << S!Call("connect", "N1"), S!Call("next scenario", "N1") >>
    OBVIOUS
  <1>2. r \in Seq(Calls) /\ Plain(r)
    BY <1>1, PlainPlans, Zenon
  <1>3. << >> \in Seq(Calls) /\ Plain(<< >>)
    BY DEF Plain
  <1>4. \/ stage = "try" /\ todo = r
        \/ stage = "died" /\ todo = << >>
    <2>1. CASE \A n \in S!Node : lab[n] # "down"
      <3>1. /\ stage = "try"
            /\ todo = S!Preflight \o << S!Call("connect", "N1"), S!Call("next scenario", "N1") >>
        BY <2>1 DEF S!Init
      <3> QED
        BY <1>1, <3>1, Zenon
    <2>2. CASE ~ \A n \in S!Node : lab[n] # "down"
      BY <2>2, Zenon DEF S!Init
    <2> QED
      BY <2>1, <2>2
  <1>5. todo \in Seq(Calls) /\ Plain(todo)
    BY <1>2, <1>3, <1>4, Zenon
  <1>6. Typed /\ scenario = 0
    <2>1. /\ lab \in [S!Node -> S!Condition] /\ scenario = 0 /\ prepared = {}
          /\ pending = << >> /\ records = << >> /\ lines = << >>
          /\ completion = [status |-> "none", histories |-> 0]
      BY Zenon DEF S!Init
    <2>2. stage \in {"try", "died"}
      BY <1>4
    <2> QED
      BY <1>5, <2>1, <2>2 DEF Typed
  <1>7. Fronts
    <2>1. todo # << >> => 1 \in 1 .. Len(todo)
      BY <1>5
    <2> QED
      BY <1>5, <2>1 DEF Fronts, Plain, Special
  <1> QED
    BY <1>5, <1>6, <1>7 DEF Place

LEMMA SuiteKeeps ==
  ASSUME S!IsFiniteSet(Client), Typed, Place, Fronts, S!Next
  PROVE  Typed' /\ Place' /\ Fronts'
  <1>1. CASE S!Control
    BY <1>1, ControlKeeps
  <1>2. CASE S!Prepare
    BY <1>2, PrepareKeeps
  <1>3. CASE S!Workload
    BY <1>3, WorkloadKeeps
  <1>4. CASE S!Measure
    BY <1>4, MeasureKeeps
  <1>5. CASE S!Probe
    BY <1>5, ProbeKeeps
  <1>6. CASE S!Record
    BY <1>6, RecordKeeps
  <1>7. CASE S!NextScenario
    BY <1>7, NextScenarioKeeps
  <1>8. CASE S!Complete \/ S!Raise \/ S!Except \/ S!Finally \/ S!RaiseFinally \/ S!End
    BY <1>8, OthersKeep, Zenon
  <1> QED
    BY <1>1, <1>2, <1>3, <1>4, <1>5, <1>6, <1>7, <1>8, Zenon DEF S!Next

LEMMA SuiteStays ==
  ASSUME Typed, Place, Fronts, UNCHANGED suiteVars
  PROVE  Typed' /\ Place' /\ Fronts'
  <1> USE DEF suiteVars
  <1>1. Typed'
    BY DEF Typed
  <1>2. Place'
    BY DEF Place, Before, Behind, AllOpen, Fault
  <1>3. Fronts'
    BY DEF Fronts
  <1> QED
    BY <1>1, <1>2, <1>3

LEMMA Sustained ==
  ASSUME S!IsFiniteSet(Client), Typed, Place
  PROVE  S!FaultIsSustained
  <1>1. ASSUME S!Now("workload")
        PROVE  lab = S!Faulty(S!SCENARIOS[scenario]) /\ prepared = Client
    <2>1. stage = "try" /\ todo # << >> /\ todo[1].do = "workload"
      BY <1>1, Due, Zenon
    <2>2. PICK s : s = S!SCENARIOS[scenario]
      OBVIOUS
    <2>3. PICK k : k = Injected(s)
      OBVIOUS
    <2>4. todo[1].do \in {"prepare", "workload", "measure"}
      BY <2>1
    <2>5. /\ scenario > 0
          /\ \E cases \in S!SetToSeqs(Client), i \in Nat :
                Before(cases, i) /\ InPass(S!Episode(s, cases), cases, i, s, k)
      BY <2>1, <2>2, <2>3, <2>4, AtCall, Zenon
    <2>6. PICK cases \in S!SetToSeqs(Client), i \in Nat :
             Before(cases, i) /\ InPass(S!Episode(s, cases), cases, i, s, k)
      BY <2>5
    <2>7. PICK plan : plan = S!Episode(s, cases)
      OBVIOUS
    <2>8. Before(cases, i) /\ InPass(plan, cases, i, s, k)
      BY <2>6, <2>7, Zenon
    <2>9. /\ Trials \in Nat /\ k \in {0, 2, 3} /\ i \in 4 + Trials + k .. 3 + Trials + k + Trials
      BY <2>1, <2>8 DEF InPass, At
    <2>10. i >= 4 + Trials + k /\ i < 4 + Trials + k + Trials /\ i >= 4 + Trials
      BY <2>9
    <2>11. lab = S!Faulty(s)
      BY <2>2, <2>3, <2>5, <2>8, <2>9, <2>10, AtWorkload, Zenon
    <2>12. prepared = SoFar(cases, i)
      BY <2>8, Zenon DEF Before
    <2>13. SoFar(cases, i) = Client
      BY <2>10, SoFarEnds, Zenon
    <2> QED
      BY <2>2, <2>11, <2>12, <2>13, Zenon
  <1>2. ASSUME S!Now("probe")
        PROVE  lab = [S!Faulty(S!SCENARIOS[scenario]) EXCEPT !["N1"] = "blocked"]
    <2>1. stage = "try" /\ todo # << >> /\ todo[1].do = "probe"
      BY <1>2, Due, Zenon
    <2>2. \E i \in Nat : Behind(i) /\ InProbes(S!Measurement(pending) \o S!Ending, i)
      BY <2>1, AtProbe, Zenon
    <2>3. PICK i \in Nat : Behind(i) /\ InProbes(S!Measurement(pending) \o S!Ending, i)
      BY <2>2
    <2>4. PICK plan : plan = S!Measurement(pending) \o S!Ending
      OBVIOUS
    <2>5. InProbes(plan, i)
      BY <2>3, <2>4, Zenon
    <2>6. i \in 4 .. 3 + Len(pending) /\ Len(pending) \in Nat
      BY <2>1, <2>5 DEF InProbes, AtProbes
    <2>7. i # 1
      BY <2>6
    <2> QED
      BY <2>3, <2>7, Zenon DEF Behind, Fault
  <1> QED
    BY <1>1, <1>2 DEF S!FaultIsSustained

(* A step of another job leaves the suite alone.                             *)
LEMMA SuiteStep ==
  ASSUME [JobNext]_<<vars, suiteVars, measureVars, job>>
  PROVE  S!Next \/ UNCHANGED suiteVars
  BY Zenon DEF JobNext, suiteVars

(* Every workload meets exactly the fault of its scenario, with the data of  *)
(* all trials in place, and every probe N1 isolated besides (main() of       *)
(* run_real_experiments.py), however many trials a scenario has.             *)
THEOREM FaultSustained ==
  ASSUME S!IsFiniteSet(Client)
  PROVE  JobSpec => []FaultIsSustained
  <1> DEFINE Inv == Typed /\ Place /\ Fronts
  <1>1. JobInit => Inv
    BY SuiteBegins DEF JobInit
  <1>2. Inv /\ [JobNext]_<<vars, suiteVars, measureVars, job>> => Inv'
    BY SuiteStep, SuiteKeeps, SuiteStays
  <1>3. Inv => FaultIsSustained
    BY Sustained DEF FaultIsSustained
  <1> QED
    BY <1>1, <1>2, <1>3, PTL DEF JobSpec

-----------------------------------------------------------------------------
(* Each history is recorded once *)

Judges == {"workload", "probe"}

LEMMA TailOf ==
  ASSUME NEW q \in Seq(Calls), q # << >>
  PROVE  /\ \A c : Judged(q, c) <=> (q[1].do \in Judges /\ q[1].on = c) \/ Judged(Tail(q), c)
         /\ Waits(q) <=> q[1].do = "measure" \/ Waits(Tail(q))
         /\ Apart(q) => /\ Apart(Tail(q))
                        /\ q[1].do \in Judges => ~Judged(Tail(q), q[1].on)
         /\ OnlyAtFront(q) => /\ OnlyAtFront(Tail(q))
                              /\ Tail(q) # << >> => Tail(q)[1].do # "record"
                              /\ \A j \in 1 .. Len(Tail(q)) : Tail(q)[j].do # "record"
  <1>1. /\ Tail(q) \in Seq(Calls) /\ Len(q) \in Nat /\ Len(q) >= 1 /\ Len(Tail(q)) = Len(q) - 1
        /\ \A j \in 1 .. Len(q) - 1 : Tail(q)[j] = q[j + 1]
    BY Dropped
  <1>2. PICK u : u = Tail(q)
    OBVIOUS
  <1>3. PICK n : n = Len(q)
    OBVIOUS
  <1>4. /\ u \in Seq(Calls) /\ n \in Nat /\ n >= 1 /\ Len(u) = n - 1
        /\ \A j \in 1 .. n - 1 : u[j] = q[j + 1]
        /\ \A j \in 1 .. n : j = 1 \/ (j - 1 \in 1 .. n - 1 /\ q[j] = u[j - 1])
    <2>1. n \in Nat /\ n >= 1
      BY <1>1, <1>3
    <2>2. u \in Seq(Calls) /\ Len(u) = n - 1 /\ \A j \in 1 .. n - 1 : u[j] = q[j + 1]
      BY <1>1, <1>2, <1>3, Zenon
    <2>3. \A j \in 1 .. n : j = 1 \/ (j - 1 \in 1 .. n - 1 /\ (j - 1) + 1 = j)
      BY <2>1
    <2>4. \A j \in 1 .. n : j = 1 \/ (j - 1 \in 1 .. n - 1 /\ q[j] = u[j - 1])
      BY <2>2, <2>3, Zenon
    <2> QED
      BY <2>1, <2>2, <2>4, Zenon
  <1>5. ASSUME NEW c
        PROVE  Judged(q, c) <=> (q[1].do \in Judges /\ q[1].on = c) \/ Judged(u, c)
    <2>1. ASSUME Judged(q, c) PROVE (q[1].do \in Judges /\ q[1].on = c) \/ Judged(u, c)
      BY <1>3, <1>4, <2>1 DEF Judged, Judges
    <2>2. ASSUME q[1].do \in Judges /\ q[1].on = c PROVE Judged(q, c)
      <3>1. 1 \in 1 .. Len(q)
        BY <1>3, <1>4
      <3> QED
        BY <2>2, <3>1, Zenon DEF Judged, Judges
    <2>3. ASSUME Judged(u, c) PROVE Judged(q, c)
      <3>1. PICK j \in 1 .. Len(u) : u[j].do \in {"workload", "probe"} /\ u[j].on = c
        BY <2>3 DEF Judged
      <3>2. j + 1 \in 1 .. Len(q) /\ q[j + 1] = u[j]
        BY <1>3, <1>4
      <3> QED
        BY <3>1, <3>2, Zenon DEF Judged
    <2> QED
      BY <2>1, <2>2, <2>3
  <1>6. Waits(q) <=> q[1].do = "measure" \/ Waits(u)
    <2>1. ASSUME Waits(q) PROVE q[1].do = "measure" \/ Waits(u)
      BY <1>3, <1>4, <2>1 DEF Waits
    <2>2. ASSUME q[1].do = "measure" PROVE Waits(q)
      <3>1. 1 \in 1 .. Len(q)
        BY <1>3, <1>4
      <3> QED
        BY <2>2, <3>1, Zenon DEF Waits
    <2>3. ASSUME Waits(u) PROVE Waits(q)
      <3>1. PICK j \in 1 .. Len(u) : u[j].do = "measure"
        BY <2>3 DEF Waits
      <3>2. j + 1 \in 1 .. Len(q) /\ q[j + 1] = u[j]
        BY <1>3, <1>4
      <3> QED
        BY <3>1, <3>2, Zenon DEF Waits
    <2> QED
      BY <2>1, <2>2, <2>3
  <1>7. ASSUME Apart(q)
        PROVE  Apart(u) /\ (q[1].do \in Judges => ~Judged(u, q[1].on))
    <2>1. Apart(u)
      <3> SUFFICES ASSUME NEW j \in 1 .. Len(u), NEW l \in 1 .. Len(u),
                          u[j].do \in {"workload", "probe"}, u[l].do \in {"workload", "probe"},
                          u[j].on = u[l].on
                   PROVE  j = l
        BY DEF Apart
      <3>1. /\ j + 1 \in 1 .. Len(q) /\ l + 1 \in 1 .. Len(q)
            /\ q[j + 1] = u[j] /\ q[l + 1] = u[l]
        BY <1>3, <1>4
      <3>2. j + 1 = l + 1
        BY <1>7, <3>1, Zenon DEF Apart
      <3> QED
        BY <3>2
    <2>2. ASSUME q[1].do \in Judges, Judged(u, q[1].on) PROVE FALSE
      <3>1. PICK j \in 1 .. Len(u) : u[j].do \in {"workload", "probe"} /\ u[j].on = q[1].on
        BY <2>2 DEF Judged
      <3>2. j + 1 \in 1 .. Len(q) /\ q[j + 1] = u[j] /\ 1 \in 1 .. Len(q)
        BY <1>3, <1>4
      <3>3. j + 1 = 1
        BY <1>7, <2>2, <3>1, <3>2, Zenon DEF Apart, Judges
      <3> QED
        BY <3>3
    <2> QED
      BY <2>1, <2>2
  <1>8. ASSUME OnlyAtFront(q)
        PROVE  OnlyAtFront(u) /\ (u # << >> => u[1].do # "record")
               /\ \A j \in 1 .. Len(u) : u[j].do # "record"
    <2>1. \A j \in 1 .. Len(u) : u[j].do # "record"
      <3> TAKE j \in 1 .. Len(u)
      <3>1. j + 1 \in 2 .. Len(q) /\ q[j + 1] = u[j]
        BY <1>3, <1>4
      <3> QED
        BY <1>8, <3>1 DEF OnlyAtFront
    <2>2. OnlyAtFront(u)
      BY <1>4, <2>1 DEF OnlyAtFront
    <2>3. u # << >> => 1 \in 1 .. Len(u)
      BY <1>4
    <2> QED
      BY <2>1, <2>2, <2>3
  <1> QED
    BY <1>2, <1>5, <1>6, <1>7, <1>8, Zenon

(* A list that a record is put in front of.                                  *)
LEMMA FrontOf ==
  ASSUME NEW q \in Seq(Calls), \A j \in 1 .. Len(q) : q[j].do # "record", Apart(q),
         NEW x \in Calls, x.do = "record", NEW r, r = <<x>> \o q
  PROVE  /\ \A c : Judged(r, c) <=> Judged(q, c)
         /\ Waits(r) <=> Waits(q)
         /\ Apart(r) /\ OnlyAtFront(r) /\ r # << >> /\ r[1] = x
  <1>1. /\ <<x>> \o q \in Seq(Calls) /\ Len(<<x>> \o q) = Len(q) + 1
        /\ (<<x>> \o q)[1] = x /\ (<<x>> \o q) # << >>
        /\ \A j \in 1 .. Len(q) : (<<x>> \o q)[j + 1] = q[j]
        /\ Tail(<<x>> \o q) = q
    BY Fronted, Zenon
  <1>2. /\ r \in Seq(Calls) /\ Len(r) = Len(q) + 1 /\ r[1] = x /\ r # << >>
        /\ \A j \in 1 .. Len(q) : r[j + 1] = q[j]
        /\ Tail(r) = q
    BY <1>1, Zenon
  <1>3. PICK y : y = <<x>> \o q
    OBVIOUS
  <1>4. Len(q) \in Nat
    OBVIOUS
  <1>5. /\ \A c : Judged(r, c) <=> (r[1].do \in Judges /\ r[1].on = c) \/ Judged(Tail(r), c)
        /\ Waits(r) <=> r[1].do = "measure" \/ Waits(Tail(r))
    BY <1>2, TailOf, Zenon
  <1>6. r[1].do \notin Judges /\ r[1].do # "measure"
    BY <1>2 DEF Judges
  <1>7. \A j \in 1 .. Len(r) : j = 1 \/ (j - 1 \in 1 .. Len(q) /\ (j - 1) + 1 = j)
    BY <1>2, <1>4
  <1>8. \A j \in 1 .. Len(r) : j = 1 \/ (j - 1 \in 1 .. Len(q) /\ r[j] = q[j - 1])
    <2> TAKE j \in 1 .. Len(r)
    <2>1. CASE j # 1
      <3>1. PICK i : i = j - 1
        OBVIOUS
      <3>2. i \in 1 .. Len(q) /\ i + 1 = j
        BY <1>7, <2>1, <3>1, Zenon
      <3>3. r[i + 1] = q[i]
        BY <1>2, <3>2, Zenon
      <3> QED
        BY <3>1, <3>2, <3>3, Zenon
    <2> QED
      BY <2>1
  <1>9. Apart(r)
    <2> SUFFICES ASSUME NEW j \in 1 .. Len(r), NEW l \in 1 .. Len(r),
                        r[j].do \in {"workload", "probe"}, r[l].do \in {"workload", "probe"},
                        r[j].on = r[l].on
                 PROVE  j = l
      BY DEF Apart
    <2>1. j # 1 /\ l # 1
      BY <1>6, Zenon DEF Judges
    <2>2. j - 1 \in 1 .. Len(q) /\ r[j] = q[j - 1] /\ l - 1 \in 1 .. Len(q) /\ r[l] = q[l - 1]
      BY <1>8, <2>1, Zenon
    <2>3. j - 1 = l - 1
      BY <2>2, Zenon DEF Apart
    <2> QED
      BY <2>3
  <1>10. OnlyAtFront(r)
    <2> SUFFICES ASSUME NEW j \in 2 .. Len(r) PROVE r[j].do # "record"
      BY DEF OnlyAtFront
    <2>1. j \in 1 .. Len(r) /\ j # 1
      BY <1>2, <1>4
    <2> QED
      BY <1>8, <2>1, Zenon
  <1> QED
    BY <1>2, <1>5, <1>6, <1>9, <1>10, Zenon

(* The call for the next scenario is in no pass and in no measurement.       *)
LEMMA InjectNamed ==
  ASSUME NEW s \in {"normal", "node_stop", "partition"}, NEW j \in 1 .. Injected(s)
  PROVE  S!Inject(s)[j].do \in {"stop", "isolate", "verify_isolation", "settle_views"}
  <1>1. PICK k : k = Injected(s)
    OBVIOUS
  <1>2. /\ k = CASE s = "node_stop" -> 2 [] s = "partition" -> 3 [] OTHER -> 0
        /\ s = "node_stop" => /\ S!Inject(s)[1] = S!Call("stop", "N3")
                              /\ S!Inject(s)[2] = S!Call("settle_views", "N3")
        /\ s = "partition" => /\ S!Inject(s)[1] = S!Call("isolate", "N3")
                              /\ S!Inject(s)[2] = S!Call("verify_isolation", "N3")
                              /\ S!Inject(s)[3] = S!Call("settle_views", "N3")
    BY <1>1, InjectShape, Zenon
  <1>3. CASE s = "normal"
    BY <1>1, <1>2, <1>3
  <1>4. CASE s = "node_stop"
    <2>1. j \in {1, 2}
      BY <1>1, <1>2, <1>4
    <2> QED
      BY <1>2, <1>4, <2>1, CallHas
  <1>5. CASE s = "partition"
    <2>1. j \in {1, 2, 3}
      BY <1>1, <1>2, <1>5
    <2> QED
      BY <1>2, <1>5, <2>1, CallHas
  <1> QED
    BY <1>3, <1>4, <1>5

LEMMA ShapeNames ==
  ASSUME NEW cases, NEW s \in {"normal", "node_stop", "partition"},
         NEW plan, Passing(plan, cases, s), NEW k, k = Injected(s), Shaped(plan, cases, s, k),
         NEW i \in 1 .. Len(plan)
  PROVE  plan[i].do # "next scenario"
  <1>3. /\ Trials \in Nat /\ k \in {0, 2, 3} /\ Len(plan) = 4 + Trials + k + Trials
    BY Zenon DEF Shaped
  <1>4. CASE i \in 1 .. 3
    <2>1. plan[i].do \in {"healthy", "settle_views", "connect"}
      BY <1>4, Zenon DEF Shaped
    <2> QED
      BY <2>1
  <1>5. CASE i \in 4 .. 3 + Trials
    <2>1. plan[i] = S!Call("prepare", cases[i - 3])
      BY <1>5, Zenon DEF Passing
    <2>2. plan[i].do = "prepare"
      BY <2>1, CallHas
    <2> QED
      BY <2>2, Zenon
  <1>6. CASE i \in 4 + Trials .. 3 + Trials + k
    <2>1. plan[i] = S!Inject(s)[i - 3 - Trials]
      BY <1>6, Zenon DEF Passing
    <2>2. i - 3 - Trials \in 1 .. k
      BY <1>3, <1>6
    <2>3. S!Inject(s)[i - 3 - Trials].do \in {"stop", "isolate", "verify_isolation", "settle_views"}
      BY <2>2, InjectNamed, Zenon
    <2> QED
      BY <2>1, <2>3
  <1>7. CASE i \in 4 + Trials + k .. 3 + Trials + k + Trials
    <2>1. plan[i] = S!Call("workload", cases[i - 3 - Trials - k])
      BY <1>7, Zenon DEF Passing
    <2>2. plan[i].do = "workload"
      BY <2>1, CallHas
    <2> QED
      BY <2>2, Zenon
  <1>8. CASE i = Len(plan)
    <2>1. plan[i] = S!Call("measure", "N1")
      BY <1>8, Zenon DEF Passing
    <2>2. plan[i].do = "measure"
      BY <2>1, CallHas
    <2> QED
      BY <2>2, Zenon
  <1>9. \/ i \in 1 .. 3 \/ i \in 4 + Trials .. 3 + Trials + k \/ i \in 4 .. 3 + Trials
        \/ i \in 4 + Trials + k .. 3 + Trials + k + Trials \/ i = Len(plan)
    BY <1>3
  <1> QED
    BY <1>9, <1>4, <1>5, <1>6, <1>7, <1>8, Zenon

LEMMA PassNames ==
  ASSUME S!IsFiniteSet(Client), NEW cases \in S!SetToSeqs(Client),
         NEW s \in {"normal", "node_stop", "partition"},
         NEW plan, plan = S!Episode(s, cases), NEW i \in 1 .. Len(plan)
  PROVE  plan[i].do # "next scenario"
  <1>1. PICK k : k = Injected(s)
    OBVIOUS
  <1>2. Shaped(plan, cases, s, k) /\ Passing(plan, cases, s)
    BY <1>1, EpisodeShape, PassingShape, Zenon
  <1> QED
    BY <1>1, <1>2, ShapeNames, Zenon

(* While the pass has not measured, measuring is to come.                    *)
LEMMA FromWaits ==
  ASSUME NEW q \in Seq(Calls), NEW plan, NEW cases, NEW s, Passing(plan, cases, s),
         NEW i \in Nat, From(q, plan, i)
  PROVE  Waits(q)
  <1>1. plan \in Seq(Calls) /\ plan[Len(plan)] = S!Call("measure", "N1")
    BY Zenon DEF Passing
  <1>2. /\ i \in 1 .. Len(plan) /\ Len(q) = Len(plan) + 1 - i
        /\ \A j \in 1 .. Len(q) : q[j] = plan[i + j - 1]
    BY Zenon DEF From
  <1>3. PICK n : n = Len(q)
    OBVIOUS
  <1>4. n \in 1 .. Len(q) /\ i + n - 1 = Len(plan)
    BY <1>1, <1>2, <1>3
  <1>5. q[n] = S!Call("measure", "N1")
    BY <1>1, <1>2, <1>4, Zenon
  <1>6. q[n].do = "measure"
    BY <1>5, CallHas
  <1> QED
    BY <1>4, <1>6, Zenon DEF Waits

(* A pass has one workload for each trial.                                   *)
LEMMA PassJudges ==
  ASSUME S!IsFiniteSet(Client), NEW cases \in S!SetToSeqs(Client), NEW s, NEW plan,
         Passing(plan, cases, s)
  PROVE  /\ Apart(plan) /\ \A c \in Client : Judged(plan, c)
         /\ OnlyAtFront(plan) /\ \A j \in 1 .. Len(plan) : plan[j].do # "record"
  <1>1. PICK k : k = Injected(s)
    OBVIOUS
  <1>2. /\ plan \in Seq(Calls) /\ Trials \in Nat /\ k \in {0, 2, 3}
        /\ Len(plan) = 4 + Trials + k + Trials
    BY <1>1, Zenon DEF Passing
  <1>3. ASSUME NEW j \in 1 .. Len(plan), plan[j].do \in {"workload", "probe"}
        PROVE  /\ j - 3 - Trials - k \in 1 .. Trials
               /\ plan[j].on = cases[j - 3 - Trials - k]
    <2>1. At(plan, cases, j, k)
      BY <1>1, BeforeAt, Zenon
    <2>2. plan[j].do = "workload"
      BY <1>3, <2>1 DEF At, Special
    <2>3. /\ j \in 4 + Trials + k .. 3 + Trials + k + Trials
          /\ plan[j].on = cases[j - 3 - Trials - k]
      BY <2>1, <2>2, Zenon DEF At
    <2> QED
      BY SMTT(40), <1>2, <2>3
  <1>4. Apart(plan)
    <2> SUFFICES ASSUME NEW j \in 1 .. Len(plan), NEW l \in 1 .. Len(plan),
                        plan[j].do \in {"workload", "probe"}, plan[l].do \in {"workload", "probe"},
                        plan[j].on = plan[l].on
                 PROVE  j = l
      BY DEF Apart
    <2>1. /\ j - 3 - Trials - k \in 1 .. Trials /\ l - 3 - Trials - k \in 1 .. Trials
          /\ cases[j - 3 - Trials - k] = cases[l - 3 - Trials - k]
      BY <1>3, Zenon
    <2>3. \A a, b \in 1 .. Trials : cases[a] = cases[b] => a = b
      BY CasesTyped, Zenon
    <2>2. j - 3 - Trials - k = l - 3 - Trials - k
      BY <2>1, <2>3, Zenon
    <2> QED
      BY <1>2, <2>2
  <1>5. ASSUME NEW c \in Client PROVE Judged(plan, c)
    <2>1. PICK j \in 1 .. Trials : cases[j] = c
      BY CasesTyped, Zenon
    <2>2. PICK i : i = 3 + Trials + k + j
      OBVIOUS
    <2>3. /\ i \in 1 .. Len(plan) /\ i \in 4 + Trials + k .. 3 + Trials + k + Trials
          /\ i - 3 - Trials - k = j
      BY <1>2, <2>2
    <2>4. plan[i] = S!Call("workload", c)
      BY <1>1, <2>1, <2>3, Zenon DEF Passing
    <2>5. plan[i].do \in {"workload", "probe"} /\ plan[i].on = c
      BY <2>4, CallHas
    <2> QED
      BY <2>3, <2>5, Zenon DEF Judged
  <1>6. \A j \in 1 .. Len(plan) : plan[j].do # "record"
    BY NoRecord, Zenon
  <1>7. OnlyAtFront(plan)
    <2>1. \A j \in 2 .. Len(plan) : j \in 1 .. Len(plan)
      BY <1>2
    <2> QED
      BY <1>6, <2>1, Zenon DEF OnlyAtFront
  <1> QED
    BY <1>4, <1>5, <1>6, <1>7

(* A measurement has one probe for each pending trial.                       *)
LEMMA MeasurementJudges ==
  ASSUME NEW p \in Seq(Client), NEW plan, Measuring(plan, p)
  PROVE  /\ Distinct(p) => Apart(plan)
         /\ \A c : Judged(plan, c) <=> \E j \in 1 .. Len(p) : p[j] = c
         /\ ~Waits(plan) /\ OnlyAtFront(plan)
         /\ \A j \in 1 .. Len(plan) : plan[j].do # "record"
  <1>1. /\ plan \in Seq(Calls) /\ Len(p) \in Nat /\ Len(plan) > 4 + Len(p)
    BY Zenon DEF Measuring
  <1>2. Len(plan) \in Nat
    BY <1>1
  <1>3. ASSUME NEW j \in 1 .. Len(plan), plan[j].do \in Special
        PROVE  plan[j].do = "probe" /\ j - 3 \in 1 .. Len(p) /\ plan[j].on = p[j - 3]
    <2>1. CASE j \in 1 .. 4 + Len(p)
      <3>1. AtProbes(plan, p, j)
        BY <2>1, BehindAt, Zenon
      <3>2. plan[j].do = "probe" /\ j \in 4 .. 3 + Len(p) /\ plan[j].on = p[j - 3]
        BY <1>3, <3>1, Zenon DEF AtProbes
      <3> QED
        BY <1>1, <3>2
    <2>2. CASE j \in 4 + Len(p) .. Len(plan)
      BY <1>3, <2>2, Zenon DEF Measuring
    <2> QED
      BY <1>1, <1>2, <2>1, <2>2
  <1>4. Distinct(p) => Apart(plan)
    <2> SUFFICES ASSUME Distinct(p), NEW j \in 1 .. Len(plan), NEW l \in 1 .. Len(plan),
                        plan[j].do \in {"workload", "probe"}, plan[l].do \in {"workload", "probe"},
                        plan[j].on = plan[l].on
                 PROVE  j = l
      BY DEF Apart
    <2>0. plan[j].do \in Special /\ plan[l].do \in Special
      BY DEF Special
    <2>1. j - 3 \in 1 .. Len(p) /\ l - 3 \in 1 .. Len(p) /\ p[j - 3] = p[l - 3]
      BY <1>3, <2>0, Zenon
    <2>2. j - 3 = l - 3
      BY <2>1, Zenon DEF Distinct
    <2> QED
      BY <2>2
  <1>5. ASSUME NEW c PROVE Judged(plan, c) <=> \E j \in 1 .. Len(p) : p[j] = c
    <2>1. ASSUME Judged(plan, c) PROVE \E j \in 1 .. Len(p) : p[j] = c
      <3>1. PICK j \in 1 .. Len(plan) : plan[j].do \in {"workload", "probe"} /\ plan[j].on = c
        BY <2>1 DEF Judged
      <3>2. plan[j].do \in Special
        BY <3>1 DEF Special
      <3> QED
        BY <1>3, <3>1, <3>2, Zenon
    <2>2. ASSUME NEW j \in 1 .. Len(p), p[j] = c PROVE Judged(plan, c)
      <3>1. plan[3 + j] = S!Call("probe", c)
        BY <2>2, Zenon DEF Measuring
      <3>2. plan[3 + j].do \in {"workload", "probe"} /\ plan[3 + j].on = c
        BY <3>1, CallHas
      <3>3. 3 + j \in 1 .. Len(plan)
        BY <1>1, <1>2
      <3> QED
        BY <3>2, <3>3, Zenon DEF Judged
    <2> QED
      BY <2>1, <2>2
  <1>6. ~Waits(plan)
    <2> SUFFICES ASSUME NEW j \in 1 .. Len(plan), plan[j].do = "measure" PROVE FALSE
      BY DEF Waits
    <2>1. plan[j].do \in Special
      BY DEF Special
    <2> QED
      BY <1>3, <2>1
  <1>7. \A j \in 1 .. Len(plan) : plan[j].do # "record"
    BY NoRecordBehind, Zenon
  <1>8. OnlyAtFront(plan)
    <2>1. \A j \in 2 .. Len(plan) : j \in 1 .. Len(plan)
      BY <1>2
    <2> QED
      BY <1>7, <2>1, Zenon DEF OnlyAtFront
  <1> QED
    BY <1>4, <1>5, <1>6, <1>7, <1>8

LEMMA PlainJudges ==
  ASSUME NEW q \in Seq(Calls), Plain(q)
  PROVE  /\ \A c : ~Judged(q, c)
         /\ ~Waits(q) /\ Apart(q) /\ OnlyAtFront(q)
         /\ q # << >> => q[1].do # "record"
  <1>1. \A j \in 1 .. Len(q) : q[j].do \notin Special
    BY Zenon DEF Plain
  <1>2. \A j \in 1 .. Len(q) : q[j].do \notin {"workload", "probe"} /\ q[j].do # "measure" /\ q[j].do # "record"
    BY <1>1 DEF Special
  <1>3. \A j \in 2 .. Len(q) : j \in 1 .. Len(q)
    OBVIOUS
  <1>4. q # << >> => 1 \in 1 .. Len(q)
    OBVIOUS
  <1> QED
    BY <1>2, <1>3, <1>4, Zenon DEF Judged, Waits, Apart, OnlyAtFront

(* A call that judges no trial.                                              *)
LEMMA PassesOnce ==
  ASSUME Once, stage = "try", todo \in Seq(Calls), todo # << >>,
         todo[1].do \notin Judges, todo[1].do # "measure", todo[1].do # "record",
         todo' = Tail(todo), UNCHANGED <<records, pending, scenario, stage>>
  PROVE  Once'
  <1>1. /\ \A c : Judged(todo, c) <=> (todo[1].do \in Judges /\ todo[1].on = c) \/ Judged(Tail(todo), c)
        /\ Waits(todo) <=> todo[1].do = "measure" \/ Waits(Tail(todo))
        /\ Apart(todo) => Apart(Tail(todo))
        /\ OnlyAtFront(todo) => /\ OnlyAtFront(Tail(todo))
                                /\ Tail(todo) # << >> => Tail(todo)[1].do # "record"
    BY TailOf, Zenon
  <1>2. OnlyAtFront(todo)
    BY Zenon DEF Once
  <1>3. OnlyAtFront(todo)' /\ (todo' # << >> => todo'[1].do # "record")
    BY <1>1, <1>2, Zenon DEF OnlyAtFront
  <1>4. ASSUME scenario > 0
        PROVE  /\ Apart(todo)' /\ (Waits(todo)' => Distinct(pending)')
               /\ \A c \in Client : Exactly(Recorded(c), AtFront(c), Judged(todo, c), Pends(c))'
    <2>1. /\ Apart(todo)
          /\ Waits(todo) => Distinct(pending)
          /\ \A c \in Client : Exactly(Recorded(c), AtFront(c), Judged(todo, c), Pends(c))
      BY <1>4, Zenon DEF Once
    <2>2. Apart(todo)'
      BY <1>1, <2>1, Zenon DEF Apart
    <2>3. Waits(todo)' <=> Waits(todo)
      BY <1>1, Zenon DEF Waits
    <2>4. Distinct(pending)' <=> Distinct(pending)
      BY Zenon DEF Distinct
    <2>5. ASSUME NEW c \in Client
          PROVE  Exactly(Recorded(c), AtFront(c), Judged(todo, c), Pends(c))'
      <3>1. Recorded(c)' <=> Recorded(c)
        BY DEF Recorded
      <3>2. ~AtFront(c) /\ ~AtFront(c)'
        BY <1>3, Zenon DEF AtFront
      <3>3. Judged(todo, c)' <=> Judged(todo, c)
        BY <1>1, Zenon DEF Judged
      <3>4. Pends(c)' <=> Pends(c)
        BY <2>3, Zenon DEF Pends
      <3>5. Exactly(Recorded(c), AtFront(c), Judged(todo, c), Pends(c))
        BY <2>1
      <3> QED
        BY <3>1, <3>2, <3>3, <3>4, <3>5, Zenon DEF Exactly
    <2> QED
      BY <2>1, <2>2, <2>3, <2>4, <2>5, Zenon
  <1> QED
    BY <1>3, <1>4, Zenon DEF Once

(* A judgement whose record goes in front of the list.                       *)
LEMMA JudgedOnce ==
  ASSUME Once, stage = "try", scenario > 0, todo \in Seq(Calls), todo # << >>,
         todo[1].do \in Judges, NEW c \in Client, todo[1].on = c,
         todo' = << S!Call("record", c) >> \o Tail(todo),
         UNCHANGED <<records, pending, scenario, stage>>
  PROVE  Once'
  <1>1. /\ \A d : Judged(todo, d) <=> (todo[1].do \in Judges /\ todo[1].on = d) \/ Judged(Tail(todo), d)
        /\ Waits(todo) <=> todo[1].do = "measure" \/ Waits(Tail(todo))
        /\ Apart(todo) => /\ Apart(Tail(todo))
                          /\ todo[1].do \in Judges => ~Judged(Tail(todo), todo[1].on)
        /\ OnlyAtFront(todo) => \A j \in 1 .. Len(Tail(todo)) : Tail(todo)[j].do # "record"
    BY TailOf, Zenon
  <1>2. /\ OnlyAtFront(todo) /\ Apart(todo)
        /\ Waits(todo) => Distinct(pending)
    BY Zenon DEF Once
  <1>3. Tail(todo) \in Seq(Calls)
    BY Dropped, Zenon
  <1>4. PICK x : x = S!Call("record", c)
    OBVIOUS
  <1>5. x \in Calls /\ x.do = "record" /\ x.on = c
    <2>1. "record" \in Doings
      BY Zenon DEF Doings
    <2>2. /\ S!Call("record", c) \in Calls /\ S!Call("record", c).do = "record"
          /\ S!Call("record", c).on = c
      BY <2>1, CallTyped, ZenonT(40)
    <2> QED
      BY <1>4, <2>2, Zenon
  <1>6. todo' = << x >> \o Tail(todo)
    BY <1>4, Zenon
  <1>7. /\ \A d : Judged(todo', d) <=> Judged(Tail(todo), d)
        /\ Waits(todo') <=> Waits(Tail(todo))
        /\ Apart(todo') /\ OnlyAtFront(todo') /\ todo' # << >> /\ todo'[1] = x
    BY <1>1, <1>2, <1>3, <1>5, <1>6, FrontOf, Zenon
  <1>8. todo[1].do # "measure" /\ todo[1].do # "record"
    BY DEF Judges
  <1>9. Apart(todo)' /\ OnlyAtFront(todo)'
    BY <1>7, Zenon DEF Apart, OnlyAtFront
  <1>10. Waits(todo)' <=> Waits(todo)
    BY <1>1, <1>7, <1>8, Zenon DEF Waits
  <1>11. Distinct(pending)' <=> Distinct(pending)
    BY Zenon DEF Distinct
  <1>12. ASSUME NEW d \in Client
         PROVE  Exactly(Recorded(d), AtFront(d), Judged(todo, d), Pends(d))'
    <2>1. Recorded(d)' <=> Recorded(d)
      BY DEF Recorded
    <2>2. ~AtFront(d)
      BY <1>8, Zenon DEF AtFront
    <2>3. AtFront(d)' <=> c = d
      BY <1>5, <1>7, Zenon DEF AtFront
    <2>4. /\ Judged(todo, d)' <=> Judged(Tail(todo), d)
          /\ Judged(todo, d) <=> c = d \/ Judged(Tail(todo), d)
          /\ ~Judged(Tail(todo), c)
      BY <1>1, <1>2, <1>7, Zenon DEF Judged
    <2>5. Pends(d)' <=> Pends(d)
      BY <1>10, Zenon DEF Pends
    <2>6. Exactly(Recorded(d), AtFront(d), Judged(todo, d), Pends(d))
      BY Zenon DEF Once
    <2> QED
      BY <2>1, <2>2, <2>3, <2>4, <2>5, <2>6, Zenon DEF Exactly
  <1> QED
    BY <1>2, <1>9, <1>10, <1>11, <1>12, Zenon DEF Once

(* A workload that gives no result; the pass has still to measure.           *)
LEMMA PendingOnce ==
  ASSUME Once, stage = "try", scenario > 0, todo \in Seq(Calls), todo # << >>,
         todo[1].do \in Judges, NEW c \in Client, todo[1].on = c,
         todo' = Tail(todo), pending \in Seq(Client), pending' = Append(pending, c),
         Waits(Tail(todo)), UNCHANGED <<records, scenario, stage>>
  PROVE  Once'
  <1>1. /\ \A d : Judged(todo, d) <=> (todo[1].do \in Judges /\ todo[1].on = d) \/ Judged(Tail(todo), d)
        /\ Waits(todo) <=> todo[1].do = "measure" \/ Waits(Tail(todo))
        /\ Apart(todo) => /\ Apart(Tail(todo))
                          /\ todo[1].do \in Judges => ~Judged(Tail(todo), todo[1].on)
        /\ OnlyAtFront(todo) => /\ OnlyAtFront(Tail(todo))
                                /\ Tail(todo) # << >> => Tail(todo)[1].do # "record"
    BY TailOf, Zenon
  <1>2. /\ OnlyAtFront(todo) /\ Apart(todo)
        /\ Waits(todo) => Distinct(pending)
    BY Zenon DEF Once
  <1>3. todo[1].do # "measure" /\ todo[1].do # "record"
    BY DEF Judges
  <1>4. Apart(todo)' /\ OnlyAtFront(todo)' /\ Waits(todo)' /\ Waits(todo)
    BY <1>1, <1>2, Zenon DEF Apart, OnlyAtFront, Waits
  <1>5. PICK n : n = Len(pending)
    OBVIOUS
  <1>6. /\ n \in Nat /\ Len(pending') = n + 1 /\ pending'[n + 1] = c
        /\ \A p \in 1 .. n : pending'[p] = pending[p]
    BY <1>5
  <1>7. ASSUME NEW d
        PROVE  (\E p \in 1 .. Len(pending') : pending'[p] = d)
                  <=> d = c \/ \E p \in 1 .. Len(pending) : pending[p] = d
    <2>1. ASSUME NEW p \in 1 .. Len(pending'), pending'[p] = d
          PROVE  d = c \/ \E r \in 1 .. Len(pending) : pending[r] = d
      BY <1>5, <1>6, <2>1
    <2>2. \E p \in 1 .. Len(pending') : pending'[p] = c
      BY <1>6
    <2>3. ASSUME NEW p \in 1 .. Len(pending) PROVE p \in 1 .. Len(pending') /\ pending'[p] = pending[p]
      BY <1>5, <1>6
    <2> QED
      BY <2>1, <2>2, <2>3, Zenon
  <1>8. ~ \E p \in 1 .. Len(pending) : pending[p] = c
    <2>1. Exactly(Recorded(c), AtFront(c), Judged(todo, c), Pends(c))
      BY Zenon DEF Once
    <2>2. Judged(todo, c)
      BY <1>1, Zenon
    <2>3. ~Pends(c)
      BY <2>1, <2>2, Zenon DEF Exactly
    <2> QED
      BY <1>4, <2>3, Zenon DEF Pends
  <1>9. Distinct(pending)'
    <2> SUFFICES ASSUME NEW a \in 1 .. Len(pending'), NEW b \in 1 .. Len(pending'),
                        pending'[a] = pending'[b]
                 PROVE  a = b
      BY DEF Distinct
    <2>1. CASE a \in 1 .. n /\ b \in 1 .. n
      <3>1. pending[a] = pending[b]
        BY <1>6, <2>1
      <3>2. Distinct(pending)
        BY <1>2, <1>4, Zenon
      <3> QED
        BY <1>5, <2>1, <3>1, <3>2, Zenon DEF Distinct
    <2>2. CASE a = n + 1 /\ b \in 1 .. n
      BY <1>5, <1>6, <1>8, <2>2
    <2>3. CASE a \in 1 .. n /\ b = n + 1
      BY <1>5, <1>6, <1>8, <2>3
    <2> QED
      BY <1>6, <2>1, <2>2, <2>3
  <1>10. ASSUME NEW d \in Client
         PROVE  Exactly(Recorded(d), AtFront(d), Judged(todo, d), Pends(d))'
    <2>1. Recorded(d)' <=> Recorded(d)
      BY DEF Recorded
    <2>2. ~AtFront(d)
      BY <1>3, Zenon DEF AtFront
    <2>3. ~AtFront(d)'
      BY <1>1, <1>2, Zenon DEF AtFront
    <2>4. /\ Judged(todo, d)' <=> Judged(Tail(todo), d)
          /\ Judged(todo, d) <=> c = d \/ Judged(Tail(todo), d)
          /\ ~Judged(Tail(todo), c)
      BY <1>1, <1>2, Zenon DEF Judged
    <2>5. Pends(d)' <=> d = c \/ Pends(d)
      BY <1>4, <1>7, Zenon DEF Pends
    <2>6. Exactly(Recorded(d), AtFront(d), Judged(todo, d), Pends(d))
      BY Zenon DEF Once
    <2> QED
      BY <2>1, <2>2, <2>3, <2>4, <2>5, <2>6, Zenon DEF Exactly
  <1> QED
    BY <1>4, <1>9, <1>10, Zenon DEF Once

(* The record is kept.                                                       *)
Longer(old, k, new) ==
    /\ \A x : (\E r \in 1 .. Len(new) : new[r] = x) <=> x = k \/ \E r \in 1 .. Len(old) : old[r] = x
    /\ Distinct(old) /\ ~(\E r \in 1 .. Len(old) : old[r] = k) => Distinct(new)
    /\ \A r \in 1 .. Len(new) : new[r] = k \/ \E a \in 1 .. Len(old) : new[r] = old[a]

LEMMA RecordedNow ==
  ASSUME NEW old \in Seq(Keys), NEW k, NEW new, new = Append(old, k)
  PROVE  Longer(old, k, new)
  <1>1. PICK n : n = Len(old)
    OBVIOUS
  <1>2. /\ n \in Nat /\ Len(new) = n + 1 /\ new[n + 1] = k
        /\ \A p \in 1 .. n : new[p] = old[p]
    BY <1>1
  <1>3. ASSUME NEW x
        PROVE  (\E r \in 1 .. Len(new) : new[r] = x) <=> x = k \/ \E r \in 1 .. Len(old) : old[r] = x
    <2>1. ASSUME NEW p \in 1 .. Len(new), new[p] = x
          PROVE  x = k \/ \E r \in 1 .. Len(old) : old[r] = x
      BY <1>1, <1>2, <2>1
    <2>2. \E p \in 1 .. Len(new) : new[p] = k
      BY <1>2
    <2>3. ASSUME NEW p \in 1 .. Len(old) PROVE p \in 1 .. Len(new) /\ new[p] = old[p]
      BY <1>1, <1>2
    <2> QED
      BY <2>1, <2>2, <2>3, Zenon
  <1>4. ASSUME Distinct(old), ~(\E r \in 1 .. Len(old) : old[r] = k)
        PROVE  Distinct(new)
    <2> SUFFICES ASSUME NEW a \in 1 .. Len(new), NEW b \in 1 .. Len(new), new[a] = new[b]
                 PROVE  a = b
      BY DEF Distinct
    <2>1. CASE a \in 1 .. n /\ b \in 1 .. n
      <3>1. old[a] = old[b]
        BY <1>2, <2>1
      <3> QED
        BY <1>1, <1>4, <2>1, <3>1, Zenon DEF Distinct
    <2>2. CASE a = n + 1 /\ b \in 1 .. n
      BY <1>1, <1>2, <1>4, <2>2
    <2>3. CASE a \in 1 .. n /\ b = n + 1
      BY <1>1, <1>2, <1>4, <2>3
    <2> QED
      BY <1>2, <2>1, <2>2, <2>3
  <1>5. \A r \in 1 .. Len(new) : new[r] = k \/ \E a \in 1 .. Len(old) : new[r] = old[a]
    BY <1>3, Zenon
  <1> QED
    BY <1>3, <1>4, <1>5 DEF Longer

LEMMA RecordOnce ==
  ASSUME Typed, Fronts, Once, scenario > 0, S!Record
  PROVE  Once'
  <1>1. /\ stage = "try" /\ todo \in Seq(Calls) /\ todo # << >> /\ todo[1].do = "record"
        /\ todo[1].on \in Client /\ todo' = Tail(todo)
        /\ records' = Append(records, <<scenario, todo[1].on>>)
        /\ UNCHANGED <<stage, scenario, pending>>
    BY RecordFacts, Zenon
  <1>2. PICK c : c = todo[1].on
    OBVIOUS
  <1>3. PICK k : k = <<scenario, c>>
    OBVIOUS
  <1>4. records \in Seq(Keys) /\ records' = Append(records, k)
    BY <1>1, <1>2, <1>3, Zenon DEF Typed
  <1>5. /\ \A d : Judged(todo, d) <=> (todo[1].do \in Judges /\ todo[1].on = d) \/ Judged(Tail(todo), d)
        /\ Waits(todo) <=> todo[1].do = "measure" \/ Waits(Tail(todo))
        /\ Apart(todo) => Apart(Tail(todo))
        /\ OnlyAtFront(todo) => /\ OnlyAtFront(Tail(todo))
                                /\ Tail(todo) # << >> => Tail(todo)[1].do # "record"
    BY <1>1, TailOf, Zenon
  <1>6. /\ OnlyAtFront(todo) /\ Apart(todo)
        /\ Waits(todo) => Distinct(pending)
    BY <1>1, Zenon DEF Once
  <1>7. todo[1].do # "measure" /\ todo[1].do \notin Judges
    BY <1>1 DEF Judges
  <1>8. /\ Apart(todo)' /\ OnlyAtFront(todo)'
        /\ Waits(todo)' <=> Waits(todo)
    BY <1>1, <1>5, <1>6, <1>7, Zenon DEF Apart, OnlyAtFront, Waits
  <1>9. Distinct(pending)' <=> Distinct(pending)
    BY <1>1, Zenon DEF Distinct
  <1>10. \A x : (\E r \in 1 .. Len(records') : records'[r] = x)
                   <=> x = k \/ \E r \in 1 .. Len(records) : records[r] = x
    <2>1. Longer(records, k, records')
      BY <1>4, RecordedNow
    <2> QED
      BY <2>1, Zenon DEF Longer
  <1>11. ASSUME NEW d \in Client
         PROVE  Exactly(Recorded(d), AtFront(d), Judged(todo, d), Pends(d))'
    <2>1. <<scenario, d>> = k <=> c = d
      BY <1>3
    <2>2. Recorded(d)' <=> c = d \/ Recorded(d)
      BY <1>1, <1>10, <2>1, Zenon DEF Recorded
    <2>3. AtFront(d) <=> c = d
      BY <1>1, <1>2, Zenon DEF AtFront
    <2>4. ~AtFront(d)'
      BY <1>1, <1>5, <1>6, Zenon DEF AtFront
    <2>5. Judged(todo, d)' <=> Judged(todo, d)
      BY <1>1, <1>5, <1>7, ZenonT(40) DEF Judged
    <2>6. Pends(d)' <=> Pends(d)
      BY <1>1, <1>8, Zenon DEF Pends
    <2>7. Exactly(Recorded(d), AtFront(d), Judged(todo, d), Pends(d))
      BY <1>1, Zenon DEF Once
    <2> QED
      BY <2>2, <2>3, <2>4, <2>5, <2>6, <2>7, Zenon DEF Exactly
  <1> QED
    BY <1>6, <1>8, <1>9, <1>11, Zenon DEF Once

LEMMA MeasureOnce ==
  ASSUME S!IsFiniteSet(Client), Typed, Place, Once, S!Measure
  PROVE  Once'
  <1>1. /\ stage = "try" /\ todo \in Seq(Calls) /\ todo # << >> /\ todo[1].do = "measure"
    BY Due, Zenon DEF S!Measure
  <1>2. /\ UNCHANGED <<pending, records, stage, scenario>>
        /\ todo' = (IF pending = << >> THEN << >> ELSE S!Measurement(pending)) \o S!Ending
    BY DEF S!Measure, S!Rest
  <1>3. pending \in Seq(Client) /\ S!Ending \in Seq(Calls) /\ Plain(S!Ending)
    BY PlainPlans DEF Typed
  <1>4. PICK s : s = S!SCENARIOS[scenario]
    OBVIOUS
  <1>5. PICK k : k = Injected(s)
    OBVIOUS
  <1>6. todo[1].do \in {"prepare", "workload", "measure"}
    BY <1>1
  <1>7. /\ scenario > 0
        /\ \E cases \in S!SetToSeqs(Client), i \in Nat :
              Before(cases, i) /\ InPass(S!Episode(s, cases), cases, i, s, k)
    BY <1>1, <1>4, <1>5, <1>6, AtCall, Zenon
  <1>8. PICK cases \in S!SetToSeqs(Client), i \in Nat :
           Before(cases, i) /\ InPass(S!Episode(s, cases), cases, i, s, k)
    BY <1>7
  <1>9. PICK plan : plan = S!Episode(s, cases)
    OBVIOUS
  <1>10. InPass(plan, cases, i, s, k)
    BY <1>8, <1>9, Zenon
  <1>11. Len(todo) = 1
    <2>1. i = Len(plan) /\ From(todo, plan, i)
      BY <1>1, <1>10, Zenon DEF InPass, At
    <2>2. Len(todo) = Len(plan) + 1 - i /\ i \in Nat
      BY <2>1, Zenon DEF From
    <2> QED
      BY <2>1, <2>2
  <1>12. ASSUME NEW c PROVE ~AtFront(c) /\ ~Judged(todo, c)
    <2>1. \A j \in 1 .. Len(todo) : j = 1
      BY <1>11
    <2>2. todo[1].do \notin {"workload", "probe"} /\ todo[1].do # "record"
      BY <1>1
    <2> QED
      BY <2>1, <2>2, Zenon DEF AtFront, Judged
  <1>13. Waits(todo)
    <2>1. 1 \in 1 .. Len(todo)
      BY <1>11
    <2> QED
      BY <1>1, <2>1, Zenon DEF Waits
  <1>14. Distinct(pending)
    BY <1>1, <1>7, <1>13, Zenon DEF Once
  <1>15. ASSUME NEW c \in Client
         PROVE  Recorded(c)' <=> ~ \E p \in 1 .. Len(pending) : pending[p] = c
    <2>1. Exactly(Recorded(c), AtFront(c), Judged(todo, c), Pends(c))
      BY <1>1, <1>7, Zenon DEF Once
    <2>2. Recorded(c)' <=> Recorded(c)
      BY <1>2, Zenon DEF Recorded
    <2>3. Pends(c) <=> \E p \in 1 .. Len(pending) : pending[p] = c
      BY <1>13, Zenon DEF Pends
    <2> QED
      BY <1>12, <2>1, <2>2, <2>3, Zenon DEF Exactly
  <1>16. /\ Apart(todo)' /\ OnlyAtFront(todo)' /\ ~Waits(todo)'
         /\ todo' # << >> => todo'[1].do # "record"
         /\ \A c : Judged(todo, c)' <=> \E p \in 1 .. Len(pending) : pending[p] = c
    <2>1. CASE pending = << >>
      <3>1. PICK e : e = S!Ending
        OBVIOUS
      <3>2. e \in Seq(Calls) /\ Plain(e) /\ << >> \o e = e
        BY <1>3, <3>1
      <3>3. todo' = e
        BY <1>2, <2>1, <3>1, <3>2, Zenon
      <3>4. /\ \A c : ~Judged(e, c)
            /\ ~Waits(e) /\ Apart(e) /\ OnlyAtFront(e)
            /\ e # << >> => e[1].do # "record"
        BY <3>2, PlainJudges, Zenon
      <3>5. \A p \in 1 .. Len(pending) : FALSE
        BY <2>1
      <3> QED
        BY <3>3, <3>4, <3>5, Zenon DEF Judged, Waits, Apart, OnlyAtFront
    <2>2. CASE pending # << >>
      <3>1. PICK m : m = S!Measurement(pending) \o S!Ending
        OBVIOUS
      <3>2. todo' = m
        BY <1>2, <2>2, <3>1, Zenon
      <3>3. Measuring(m, pending)
        BY <1>3, <3>1, MeasurementShape, Zenon
      <3>4. /\ Distinct(pending) => Apart(m)
            /\ \A c : Judged(m, c) <=> \E j \in 1 .. Len(pending) : pending[j] = c
            /\ ~Waits(m) /\ OnlyAtFront(m)
            /\ \A j \in 1 .. Len(m) : m[j].do # "record"
        BY <1>3, <3>3, MeasurementJudges, Zenon
      <3>5. 1 \in 1 .. Len(m)
        <4>1. m \in Seq(Calls) /\ Len(pending) \in Nat /\ Len(m) > 4 + Len(pending)
          BY <3>3, Zenon DEF Measuring
        <4> QED
          BY <4>1
      <3> QED
        BY <1>14, <3>2, <3>4, <3>5, Zenon DEF Judged, Waits, Apart, OnlyAtFront
    <2> QED
      BY <2>1, <2>2
  <1>17. ASSUME NEW c \in Client
         PROVE  Exactly(Recorded(c), AtFront(c), Judged(todo, c), Pends(c))'
    <2>1. ~AtFront(c)' /\ ~Pends(c)'
      BY <1>16, Zenon DEF AtFront, Pends
    <2> QED
      BY <1>15, <1>16, <2>1, Zenon DEF Exactly
  <1> QED
    BY <1>16, <1>17, Zenon DEF Once

LEMMA NextScenarioOnce ==
  ASSUME S!IsFiniteSet(Client), Typed, Kept, S!NextScenario
  PROVE  Once'
  <1>1. /\ stage = "try" /\ scenario \in 0 .. 2 /\ scenario' = scenario + 1
        /\ pending' = << >> /\ UNCHANGED <<stage, records>>
        /\ \E cases : NewPass(S!SCENARIOS[scenario + 1], cases)
    BY NextScenarioFacts, Zenon
  <1>2. PICK s : s = S!SCENARIOS[scenario + 1]
    OBVIOUS
  <1>3. PICK cases : NewPass(s, cases)
    BY <1>1, <1>2, Zenon
  <1>4. PICK plan : plan = S!Episode(s, cases)
    OBVIOUS
  <1>5. cases \in S!SetToSeqs(Client) /\ todo' = plan
    BY <1>3, <1>4, Zenon DEF NewPass
  <1>6. s \in {"normal", "node_stop", "partition"}
    <2>1. scenario + 1 \in 1 .. 3
      BY <1>1
    <2> QED
      BY <1>2, <2>1, ScenarioNamed, Zenon
  <1>7. Passing(plan, cases, s)
    BY <1>4, <1>5, <1>6, PassingShape, Zenon
  <1>8. /\ Apart(plan) /\ \A c \in Client : Judged(plan, c)
        /\ OnlyAtFront(plan) /\ \A j \in 1 .. Len(plan) : plan[j].do # "record"
    BY <1>5, <1>7, PassJudges, Zenon
  <1>9. plan # << >> => 1 \in 1 .. Len(plan)
    <2>1. plan \in Seq(Calls)
      BY <1>7, Zenon DEF Passing
    <2> QED
      BY <2>1
  <1>10. /\ Apart(todo)' /\ OnlyAtFront(todo)'
         /\ \A c \in Client : Judged(todo, c)'
    BY <1>5, <1>8, Zenon DEF Apart, OnlyAtFront, Judged
  <1>11. Distinct(pending)' /\ \A p \in 1 .. Len(pending') : FALSE
    BY <1>1 DEF Distinct
  <1>12. ASSUME NEW c \in Client PROVE ~Recorded(c)'
    <2>1. \A r \in 1 .. Len(records) : records[r][1] <= scenario
      BY Zenon DEF Kept
    <2>2. <<scenario', c>>[1] = scenario + 1 /\ ~(scenario + 1 <= scenario)
      BY <1>1
    <2>3. \A r \in 1 .. Len(records) : records[r] # <<scenario', c>>
      BY <2>1, <2>2, Zenon
    <2> QED
      BY <1>1, <2>3, Zenon DEF Recorded
  <1>13. ASSUME NEW c \in Client
         PROVE  Exactly(Recorded(c), AtFront(c), Judged(todo, c), Pends(c))'
    <2>1. ~AtFront(c)'
      BY <1>5, <1>8, <1>9, Zenon DEF AtFront
    <2>2. ~Pends(c)'
      BY <1>11, Zenon DEF Pends
    <2> QED
      BY <1>10, <1>12, <2>1, <2>2, Zenon DEF Exactly
  <1> QED
    BY <1>10, <1>11, <1>13, Zenon DEF Once

-----------------------------------------------------------------------------
(* What the files hold *)

LEMMA CountRecords ==
  ASSUME S!IsFiniteSet(Client), records \in Seq(Keys), Distinct(records),
         \A k \in Keys : \E r \in 1 .. Len(records) : records[r] = k
  PROVE  Len(records) = 3 * Trials
  <1>1. PICK n : n = Len(records)
    OBVIOUS
  <1>2. n \in Nat /\ records \in [1 .. n -> Keys]
    BY <1>1
  <1>3. records \in Facts!Bijection(1 .. n, Keys)
    <2>1. \A a, b \in 1 .. n : records[a] = records[b] => a = b
      BY <1>1, Zenon DEF Distinct
    <2>2. \A k \in Keys : \E r \in 1 .. n : records[r] = k
      BY <1>1, Zenon
    <2> QED
      BY <1>2, <2>1, <2>2
         DEF Facts!Bijection, Facts!Injection, Facts!Surjection, Facts!IsInjective
  <1>4. Facts!IsFiniteSet(1 .. n) /\ Facts!Cardinality(1 .. n) = n
    BY <1>2, Facts!FS_Interval
  <1>5. Facts!Cardinality(Keys) = n
    <2>1. Facts!ExistsBijection(1 .. n, Keys)
      BY <1>3 DEF Facts!ExistsBijection
    <2> QED
      BY <1>4, <2>1, Facts!FS_Bijection
  <1>6. Facts!IsFiniteSet(1 .. 3) /\ Facts!Cardinality(1 .. 3) = 3
    <2>1. PICK m : m = 3
      OBVIOUS
    <2>3. m \in Nat
      BY <2>1
    <2>2. Facts!IsFiniteSet(1 .. m) /\ Facts!Cardinality(1 .. m) = m
      BY <2>3, Facts!FS_Interval
    <2> QED
      BY <2>1, <2>2
  <1>7. Facts!Cardinality(Keys) = 3 * Trials
    <2>1. Facts!IsFiniteSet(Client) /\ Facts!Cardinality(Client) = Trials
      BY Finite
    <2>2. Facts!Cardinality((1 .. 3) \X Client) = Facts!Cardinality(1 .. 3) * Facts!Cardinality(Client)
      BY <1>6, <2>1, Facts!FS_Product
    <2> QED
      BY <1>6, <2>1, <2>2 DEF Keys
  <1> QED
    BY <1>1, <1>5, <1>7

AtEnd == S!Now("next scenario")

LEMMA AtNext ==
  ASSUME S!IsFiniteSet(Client), Typed, Place, AtEnd
  PROVE  Plain(todo)
  <1>1. stage = "try" /\ todo \in Seq(Calls) /\ todo # << >> /\ todo[1].do = "next scenario"
    BY Due, Zenon DEF AtEnd
  <1>2. todo[1].do # "record"
    BY <1>1, Zenon
  <1>3. CASE scenario > 0 /\ \E cases \in S!SetToSeqs(Client), i \in Nat : Before(cases, i)
    <2>1. PICK cases \in S!SetToSeqs(Client), i \in Nat : Before(cases, i)
      BY <1>3
    <2>2. PICK s : s = S!SCENARIOS[scenario]
      OBVIOUS
    <2>3. PICK k : k = Injected(s)
      OBVIOUS
    <2>4. PICK plan : plan = S!Episode(s, cases)
      OBVIOUS
    <2>5. InPass(plan, cases, i, s, k)
      BY <1>1, <1>2, <1>3, <2>1, <2>2, <2>3, <2>4, PassAt, Zenon
    <2>6. s \in {"normal", "node_stop", "partition"} /\ i \in 1 .. Len(plan) /\ todo[1] = plan[i]
      BY <2>5, Zenon DEF InPass
    <2>7. plan[i].do # "next scenario"
      BY <2>4, <2>6, PassNames, Zenon
    <2> QED
      BY <1>1, <2>6, <2>7, Zenon
  <1>4. CASE scenario > 0 /\ \E i \in Nat : Behind(i)
    <2>1. PICK i \in Nat : Behind(i)
      BY <1>4
    <2>2. PICK plan : plan = S!Measurement(pending) \o S!Ending
      OBVIOUS
    <2>3. InProbes(plan, i)
      BY <1>1, <1>2, <2>1, <2>2, ProbesAt, Zenon
    <2> QED
      BY <1>1, <2>3, Zenon DEF InProbes, AtProbes
  <1> QED
    BY <1>1, <1>3, <1>4, Zenon DEF Place

LEMMA AllRecorded ==
  ASSUME S!IsFiniteSet(Client), Typed, Place, Once, Kept, AtEnd,
         NEW s \in 1 .. scenario, NEW c \in Client
  PROVE  \E r \in 1 .. Len(records) : records[r] = <<s, c>>
  <1>1. stage = "try" /\ todo \in Seq(Calls) /\ todo # << >> /\ Plain(todo)
    BY Due, AtNext, Zenon DEF AtEnd
  <1>2. scenario \in 0 .. 3
    BY DEF Typed
  <1>3. CASE s \in 1 .. scenario - 1
    BY <1>1, <1>3, Zenon DEF Kept
  <1>4. CASE s = scenario
    <2>1. scenario > 0
      BY <1>2
    <2>2. Exactly(Recorded(c), AtFront(c), Judged(todo, c), Pends(c))
      BY <1>1, <2>1, Zenon DEF Once
    <2>3. /\ \A d : ~Judged(todo, d)
          /\ ~Waits(todo) /\ todo[1].do # "record"
      BY <1>1, PlainJudges, Zenon
    <2>4. Recorded(c)
      BY <2>2, <2>3, Zenon DEF Exactly, AtFront, Pends
    <2> QED
      BY <1>4, <2>4, Zenon DEF Recorded
  <1> QED
    BY <1>2, <1>3, <1>4

LEMMA QuietKept ==
  ASSUME Kept, stage # "complete", UNCHANGED <<stage, scenario, records, lines, completion>>
  PROVE  Kept'
  BY Zenon DEF Kept, Distinct

(* One more record of the scenario.                                          *)
LEMMA MoreRecords ==
  ASSUME Typed, Kept, stage = "try", NEW c \in Client, ~Recorded(c),
         records' = Append(records, <<scenario, c>>), scenario' = scenario
  PROVE  /\ Distinct(records)' /\ \A r \in 1 .. Len(records') : records'[r][1] <= scenario'
         /\ \A x : (\E r \in 1 .. Len(records) : records[r] = x)
                      => \E r \in 1 .. Len(records') : records'[r] = x
  <1>1. PICK k : k = <<scenario, c>>
    OBVIOUS
  <1>2. records \in Seq(Keys) /\ records' = Append(records, k)
    BY <1>1, Zenon DEF Typed
  <1>3. Longer(records, k, records')
    BY <1>2, RecordedNow
  <1>4. Distinct(records) /\ \A r \in 1 .. Len(records) : records[r][1] <= scenario
    BY Zenon DEF Kept
  <1>5. ~ \E r \in 1 .. Len(records) : records[r] = k
    BY <1>1, Zenon DEF Recorded
  <1>6. Distinct(records')
    BY <1>3, <1>4, <1>5, Zenon DEF Longer
  <1>7. k[1] = scenario /\ scenario <= scenario
    BY <1>1 DEF Typed
  <1>8. \A r \in 1 .. Len(records') : records'[r][1] <= scenario
    BY <1>3, <1>4, <1>7, Zenon DEF Longer
  <1> QED
    BY <1>3, <1>6, <1>8, Zenon DEF Longer, Distinct

LEMMA RecordKept ==
  ASSUME Typed, Place, Fronts, Once, Kept, scenario > 0, S!Record
  PROVE  Kept'
  <1>1. /\ stage = "try" /\ todo # << >> /\ todo[1].do = "record"
        /\ todo[1].on \in Client
        /\ records' = Append(records, <<scenario, todo[1].on>>)
        /\ lines' = Append(lines, <<scenario, todo[1].on>>)
        /\ UNCHANGED <<stage, scenario, completion>>
    BY RecordFacts, Zenon
  <1>2. ~Recorded(todo[1].on)
    <2>1. AtFront(todo[1].on)
      BY <1>1, Zenon DEF AtFront
    <2>2. \A c \in Client : Exactly(Recorded(c), AtFront(c), Judged(todo, c), Pends(c))
      BY <1>1, Zenon DEF Once
    <2> QED
      BY <1>1, <2>1, <2>2, Zenon DEF Exactly
  <1>3. /\ Distinct(records)' /\ \A r \in 1 .. Len(records') : records'[r][1] <= scenario'
        /\ \A x : (\E r \in 1 .. Len(records) : records[r] = x)
                      => \E r \in 1 .. Len(records') : records'[r] = x
    BY <1>1, <1>2, MoreRecords, Zenon
  <1>4. /\ \A s \in 1 .. scenario - 1, c \in Client :
              \E r \in 1 .. Len(records) : records[r] = <<s, c>>
        /\ lines = records /\ completion.status = "none"
    BY <1>1, Zenon DEF Kept
  <1>5. \A s \in 1 .. scenario' - 1, c \in Client :
              \E r \in 1 .. Len(records') : records'[r] = <<s, c>>
    BY <1>1, <1>3, <1>4, Zenon
  <1>6. lines' = records' /\ completion'.status = "none" /\ stage' = "try"
    BY <1>1, <1>4, Zenon
  <1>7. "none" # "complete" /\ "try" # "complete"
    OBVIOUS
  <1> QED
    BY <1>3, <1>5, <1>6, <1>7, Zenon DEF Kept

LEMMA NextScenarioKept ==
  ASSUME S!IsFiniteSet(Client), Typed, Place, Once, Kept, S!NextScenario
  PROVE  Kept'
  <1>1. /\ stage = "try" /\ scenario \in 0 .. 2 /\ scenario' = scenario + 1
        /\ UNCHANGED <<stage, records, lines, completion>>
    BY NextScenarioFacts, Zenon
  <1>2. AtEnd
    BY Zenon DEF S!NextScenario, AtEnd
  <1>3. scenario' - 1 = scenario
    BY <1>1
  <1>4. \A s \in 1 .. scenario, c \in Client : \E r \in 1 .. Len(records) : records[r] = <<s, c>>
    BY <1>2, AllRecorded, Zenon
  <1>5. \A s \in 1 .. scenario' - 1, c \in Client :
              \E r \in 1 .. Len(records') : records'[r] = <<s, c>>
    BY <1>1, <1>3, <1>4, Zenon
  <1>6. \A r \in 1 .. Len(records') : records'[r][1] <= scenario'
    <2>1. \A r \in 1 .. Len(records) : records[r][1] <= scenario
      BY Zenon DEF Kept
    <2>2. \A r \in 1 .. Len(records) : records[r][1] \in Nat
      <3>1. \A r \in 1 .. Len(records) : records[r] \in Keys
        BY DEF Typed
      <3>2. \A k \in Keys : k[1] \in Nat
        BY DEF Keys
      <3> QED
        BY <3>1, <3>2, Zenon
    <2>3. \A x \in Nat : x <= scenario => x <= scenario'
      BY <1>1
    <2> QED
      BY <1>1, <2>1, <2>2, <2>3, Zenon
  <1>7. Distinct(records)'
    BY <1>1, Zenon DEF Kept, Distinct
  <1> QED
    BY <1>1, <1>5, <1>6, <1>7, Zenon DEF Kept

LEMMA CompleteKept ==
  ASSUME S!IsFiniteSet(Client), Typed, Place, Once, Kept, S!Complete
  PROVE  Kept'
  <1>0. AtEnd
    BY Zenon DEF S!Complete, AtEnd
  <1>1. /\ scenario = 3 /\ stage' = "complete" /\ todo' = << >>
        /\ completion' = [status |-> "complete", histories |-> Len(records)]
        /\ UNCHANGED <<scenario, records, lines>>
    BY DEF S!Complete, S!SCENARIOS
  <1>2. stage = "try"
    BY <1>0, Due, Zenon DEF AtEnd
  <1>3. \A s \in 1 .. scenario, c \in Client : \E r \in 1 .. Len(records) : records[r] = <<s, c>>
    BY <1>0, AllRecorded, Zenon
  <1>4. \A k \in Keys : \E r \in 1 .. Len(records) : records[r] = k
    <2> TAKE k \in Keys
    <2>1. k[1] \in 1 .. 3 /\ k[2] \in Client /\ k = <<k[1], k[2]>>
      BY DEF Keys
    <2>2. PICK a \in 1 .. scenario, b \in Client : k = <<a, b>>
      BY <1>1, <2>1, Zenon
    <2>3. \E r \in 1 .. Len(records) : records[r] = <<a, b>>
      BY <1>3, Zenon
    <2> QED
      BY <2>2, <2>3, Zenon
  <1>5. records \in Seq(Keys) /\ Distinct(records) /\ lines = records
    BY <1>2, Zenon DEF Typed, Kept
  <1>6. Len(records) = 3 * Trials
    BY <1>4, <1>5, CountRecords
  <1>7. completion'.status = "complete" /\ completion'.histories = Len(records)
    BY <1>1
  <1>8. stage' # "try"
    BY <1>1
  <1>9. Distinct(records)' /\ \A r \in 1 .. Len(records') : records'[r][1] <= scenario'
    BY <1>1, Zenon DEF Kept, Distinct
  <1>10. lines' = records' /\ Len(records') = 3 * Trials
    BY <1>1, <1>5, <1>6, Zenon
  <1> QED
    BY <1>1, <1>7, <1>8, <1>9, <1>10, Zenon DEF Kept

(* An exception may keep a record without its line.                          *)
LEMMA RaiseKept ==
  ASSUME Typed, Place, Fronts, Once, Kept, S!Raise
  PROVE  Kept'
  <1>1. /\ UNCHANGED <<scenario, lines, completion>>
        /\ stage \in {"try", "complete"} /\ stage' = "except"
        /\ \/ UNCHANGED records
           \/ S!Now("record") /\ records' = Append(records, <<scenario, S!t>>)
    BY DEF S!Raise
  <1>2. lines = records
    BY <1>1, Zenon DEF Kept
  <1>3. stage' # "try" /\ stage' # "complete"
    BY <1>1
  <1>4. CASE UNCHANGED records
    <2>1. /\ completion'.status # "none" => completion'.histories = Len(records')
          /\ completion'.status = "complete" => lines' = records' /\ Len(records') = 3 * Trials
      BY <1>1, <1>2, <1>4, Zenon DEF Kept
    <2>2. Distinct(records)' /\ \A r \in 1 .. Len(records') : records'[r][1] <= scenario'
      BY <1>1, <1>4, Zenon DEF Kept, Distinct
    <2>3. lines' = records'
      BY <1>1, <1>2, <1>4, Zenon
    <2>4. stage' \notin {"try", "complete"}
      BY <1>3
    <2> QED
      BY <1>3, <2>1, <2>2, <2>3, <2>4, Zenon DEF Kept
  <1>5. CASE S!Now("record") /\ records' = Append(records, <<scenario, S!t>>)
    <2>1. /\ stage = "try" /\ todo \in Seq(Calls) /\ todo # << >> /\ todo[1].do = "record"
          /\ S!t = todo[1].on
      BY <1>5, Due, Zenon
    <2>2. PICK c : c = S!t
      OBVIOUS
    <2>3. c \in Client /\ AtFront(c) /\ scenario > 0
      <3>1. 1 \in 1 .. Len(todo)
        BY <2>1
      <3>2. ~Plain(todo)
        BY <2>1, <3>1 DEF Plain, Special
      <3> QED
        BY <2>1, <2>2, <3>2, Zenon DEF Fronts, AtFront, Place
    <2>4. ~Recorded(c)
      <3>1. \A d \in Client : Exactly(Recorded(d), AtFront(d), Judged(todo, d), Pends(d))
        BY <2>1, <2>3, Zenon DEF Once
      <3> QED
        BY <2>3, <3>1, Zenon DEF Exactly
    <2>5. records' = Append(records, <<scenario, c>>) /\ scenario' = scenario
      BY <1>1, <1>5, <2>2, Zenon
    <2>6. Distinct(records)' /\ \A r \in 1 .. Len(records') : records'[r][1] <= scenario'
      BY <2>1, <2>3, <2>4, <2>5, MoreRecords, Zenon
    <2>7. lines' = SubSeq(records', 1, Len(records') - 1)
      <3>1. PICK k : k = <<scenario, c>>
        OBVIOUS
      <3>2. records \in Seq(Keys)
        BY DEF Typed
      <3>3. \A old \in Seq(Keys) : SubSeq(Append(old, k), 1, Len(Append(old, k)) - 1) = old
        <4> TAKE old \in Seq(Keys)
        <4>1. PICK n : n = Len(old)
          OBVIOUS
        <4>2. n \in Nat /\ Len(Append(old, k)) - 1 = n
          BY <4>1
        <4>3. SubSeq(Append(old, k), 1, n) = old
          BY <4>1, <4>2
        <4> QED
          BY <4>2, <4>3, Zenon
      <3> QED
        BY <1>1, <1>2, <2>5, <3>1, <3>2, <3>3, Zenon
    <2>8. completion'.status = "none"
      BY <1>1, <2>1, Zenon DEF Kept
    <2>9. "none" # "complete" /\ stage' \notin {"try", "complete"}
      BY <1>3
    <2> QED
      BY <1>3, <2>6, <2>7, <2>8, <2>9, Zenon DEF Kept
  <1> QED
    BY <1>1, <1>4, <1>5

LEMMA EndingKept ==
  ASSUME Typed, Kept, S!Except \/ S!Finally \/ S!RaiseFinally \/ S!End
  PROVE  Kept'
  <1>1. /\ UNCHANGED <<scenario, records, lines>>
        /\ stage' \notin {"try", "complete"}
        /\ \/ completion' = [status |-> "incomplete", histories |-> Len(records)]
           \/ UNCHANGED completion
    BY DEF S!Except, S!Finally, S!RaiseFinally, S!End
  <1>2. Distinct(records)' /\ \A r \in 1 .. Len(records') : records'[r][1] <= scenario'
    BY <1>1, Zenon DEF Kept, Distinct
  <1>3. lines' \in {records', SubSeq(records', 1, Len(records') - 1)}
    BY <1>1, Zenon DEF Kept
  <1>4. /\ completion'.status # "none" => completion'.histories = Len(records')
        /\ completion'.status = "complete" => lines' = records' /\ Len(records') = 3 * Trials
    <2>1. CASE completion' = [status |-> "incomplete", histories |-> Len(records)]
      <3>1. completion'.status # "complete" /\ completion'.histories = Len(records)
        BY <2>1
      <3> QED
        BY <1>1, <3>1, Zenon
    <2>2. CASE UNCHANGED completion
      BY <1>1, <2>2, Zenon DEF Kept
    <2> QED
      BY <1>1, <2>1, <2>2
  <1>5. stage' # "try" /\ stage' # "complete"
    BY <1>1
  <1> QED
    BY <1>1, <1>2, <1>3, <1>4, <1>5, Zenon DEF Kept

-----------------------------------------------------------------------------
(* Every action *)

LEMMA OnceKept ==
  ASSUME S!IsFiniteSet(Client), Typed, Place, Fronts, Once, Kept, S!Next
  PROVE  Once' /\ Kept'
  <1>0. ~ S!Control /\ stage' # "try" => Once'
    BY Zenon DEF Once
  <1>1. CASE S!Control
    <2>1. /\ todo \in Seq(Calls) /\ todo # << >> /\ todo[1].do \notin Special
          /\ todo[1].do # "record" /\ todo' = Tail(todo)
      BY <1>1, ControlPlain, Zenon
    <2>2. /\ UNCHANGED <<records, pending, scenario, stage, lines, completion>>
          /\ stage # "complete"
      BY <1>1 DEF S!Control, S!Rest
    <2>3. todo[1].do \notin Judges /\ todo[1].do # "measure"
      BY <2>1 DEF Judges, Special
    <2>4. stage = "try" => Once'
      BY <2>1, <2>2, <2>3, PassesOnce, Zenon
    <2>5. stage # "try" => Once'
      BY <2>2, Zenon DEF Once
    <2> QED
      BY <2>2, <2>4, <2>5, QuietKept, Zenon
  <1>2. CASE S!Prepare
    <2>1. stage = "try" /\ todo \in Seq(Calls) /\ todo # << >> /\ todo[1].do = "prepare"
      BY <1>2, Due, Zenon DEF S!Prepare
    <2>2. /\ todo' = Tail(todo)
          /\ UNCHANGED <<records, pending, scenario, stage, lines, completion>>
      BY <1>2 DEF S!Prepare, S!Rest
    <2>3. /\ todo[1].do \notin Judges /\ todo[1].do # "measure" /\ todo[1].do # "record"
          /\ stage # "complete"
      BY <2>1 DEF Judges
    <2> QED
      BY <2>1, <2>2, <2>3, PassesOnce, QuietKept, Zenon
  <1>3. CASE S!Workload
    <2>1. stage = "try" /\ todo \in Seq(Calls) /\ todo # << >> /\ todo[1].do = "workload"
          /\ S!t = todo[1].on
      BY <1>3, Due, Zenon DEF S!Workload
    <2>2. PICK c : c = S!t
      OBVIOUS
    <2>3. c \in Client
      BY <1>3, <2>2, WorkloadKeeps, Zenon
    <2>4. /\ UNCHANGED <<records, scenario, stage, lines, completion>>
          /\ \/ todo' = << S!Call("record", c) >> \o Tail(todo) /\ UNCHANGED pending
             \/ todo' = Tail(todo) /\ pending' = Append(pending, c)
      BY <1>3, <2>2, Zenon DEF S!Workload, S!Rest
    <2>5. todo[1].do \in Judges /\ stage # "complete"
      BY <2>1 DEF Judges
    <2>6. pending \in Seq(Client)
      BY DEF Typed
    <2>7. PICK s : s = S!SCENARIOS[scenario]
      OBVIOUS
    <2>8. PICK k : k = Injected(s)
      OBVIOUS
    <2>9. todo[1].do \in {"prepare", "workload", "measure"}
      BY <2>1
    <2>10. /\ scenario > 0
           /\ \E cases \in S!SetToSeqs(Client), i \in Nat :
                 Before(cases, i) /\ InPass(S!Episode(s, cases), cases, i, s, k)
      BY <2>1, <2>7, <2>8, <2>9, AtCall, Zenon
    <2>11. Waits(Tail(todo))
      <3>1. PICK cases \in S!SetToSeqs(Client), i \in Nat :
               Before(cases, i) /\ InPass(S!Episode(s, cases), cases, i, s, k)
        BY <2>10
      <3>2. PICK plan : plan = S!Episode(s, cases)
        OBVIOUS
      <3>3. InPass(plan, cases, i, s, k)
        BY <3>1, <3>2, Zenon
      <3>4. i + 1 \in Nat /\ i < Len(plan)
        BY <2>1, <3>3 DEF InPass, At
      <3>5. Passing(plan, cases, s) /\ From(Tail(todo), plan, i + 1) /\ Tail(todo) \in Seq(Calls)
        BY <2>1, <3>3, <3>4, Dropped, Zenon DEF InPass
      <3> QED
        BY <3>4, <3>5, FromWaits, Zenon
    <2>12. Once'
      BY <2>1, <2>2, <2>3, <2>4, <2>5, <2>6, <2>10, <2>11, JudgedOnce, PendingOnce, Zenon
    <2> QED
      BY <2>4, <2>5, <2>12, QuietKept, Zenon
  <1>4. CASE S!Measure
    <2>1. UNCHANGED <<records, scenario, stage, lines, completion>> /\ stage # "complete"
      BY <1>4 DEF S!Measure, S!Rest, S!Now
    <2> QED
      BY <1>4, <2>1, MeasureOnce, QuietKept, Zenon
  <1>5. CASE S!Probe
    <2>1. stage = "try" /\ todo \in Seq(Calls) /\ todo # << >> /\ todo[1].do = "probe"
          /\ S!t = todo[1].on
      BY <1>5, Due, Zenon DEF S!Probe
    <2>2. PICK c : c = S!t
      OBVIOUS
    <2>3. c \in Client
      BY <1>5, <2>2, ProbeKeeps, Zenon
    <2>4. /\ UNCHANGED <<records, pending, scenario, stage, lines, completion>>
          /\ todo' = << S!Call("record", c) >> \o Tail(todo)
      BY <1>5, <2>2, Zenon DEF S!Probe, S!Rest
    <2>5. todo[1].do \in Judges /\ stage # "complete"
      BY <2>1 DEF Judges
    <2>6. scenario > 0
      BY <2>1, AtProbe, Zenon
    <2>7. Once'
      BY <2>1, <2>2, <2>3, <2>4, <2>5, <2>6, JudgedOnce, Zenon
    <2> QED
      BY <2>4, <2>5, <2>7, QuietKept, Zenon
  <1>6. CASE S!Record
    <2>1. stage = "try" /\ todo \in Seq(Calls) /\ todo # << >> /\ todo[1].do = "record"
      BY <1>6, RecordFacts, Zenon
    <2>2. ~Plain(todo)
      <3>1. 1 \in 1 .. Len(todo)
        BY <2>1
      <3> QED
        BY <2>1, <3>1 DEF Plain, Special
    <2>3. scenario > 0
      BY <2>1, <2>2, Zenon DEF Place
    <2> QED
      BY <1>6, <2>3, RecordOnce, RecordKept, Zenon
  <1>7. CASE S!NextScenario
    BY <1>7, NextScenarioOnce, NextScenarioKept, Zenon
  <1>8. CASE S!Complete
    BY <1>8, CompleteKept, OthersKeep, Zenon DEF Once
  <1>9. CASE S!Raise
    BY <1>9, RaiseKept, OthersKeep, Zenon DEF Once
  <1>10. CASE S!Except \/ S!Finally \/ S!RaiseFinally \/ S!End
    BY <1>10, EndingKept, OthersKeep, Zenon DEF Once
  <1> QED
    BY <1>1, <1>2, <1>3, <1>4, <1>5, <1>6, <1>7, <1>8, <1>9, <1>10, Zenon DEF S!Next

LEMMA OnceStays ==
  ASSUME Once, Kept, UNCHANGED suiteVars
  PROVE  Once' /\ Kept'
  <1>0. UNCHANGED <<stage, todo, scenario, pending, records, lines, completion>>
    BY DEF suiteVars
  <1>1. Once'
    <2>1. /\ Waits(todo)' <=> Waits(todo)
          /\ Distinct(pending)' <=> Distinct(pending)
          /\ Apart(todo)' <=> Apart(todo)
          /\ OnlyAtFront(todo)' <=> OnlyAtFront(todo)
      BY <1>0, Zenon DEF Waits, Distinct, Apart, OnlyAtFront
    <2>2. ASSUME NEW c
          PROVE  Exactly(Recorded(c), AtFront(c), Judged(todo, c), Pends(c))'
                    <=> Exactly(Recorded(c), AtFront(c), Judged(todo, c), Pends(c))
      <3>1. /\ Recorded(c)' <=> Recorded(c)
            /\ AtFront(c)' <=> AtFront(c)
            /\ Judged(todo, c)' <=> Judged(todo, c)
            /\ Pends(c)' <=> Pends(c)
        BY <1>0, <2>1, Zenon DEF Recorded, AtFront, Judged, Pends
      <3> QED
        BY <3>1, Zenon DEF Exactly
    <2> QED
      BY <1>0, <2>1, <2>2, Zenon DEF Once
  <1>2. Kept'
    BY <1>0, Zenon DEF Kept, Distinct
  <1> QED
    BY <1>1, <1>2

LEMMA OnceBegins ==
  ASSUME S!Init
  PROVE  Once /\ Kept
  <1>1. /\ records = << >> /\ lines = << >> /\ scenario = 0
        /\ completion = [status |-> "none", histories |-> 0]
    BY Zenon DEF S!Init
  <1>2. PICK r : r = S!Preflight \o << S!Call("connect", "N1"), S!Call("next scenario", "N1") >>
    OBVIOUS
  <1>3. r \in Seq(Calls) /\ Plain(r)
    BY <1>2, PlainPlans, Zenon
  <1>4. stage = "try" => todo = r
    <2>1. CASE \A n \in S!Node : lab[n] # "down"
      <3>1. todo = S!Preflight \o << S!Call("connect", "N1"), S!Call("next scenario", "N1") >>
        BY <2>1 DEF S!Init
      <3> QED
        BY <1>2, <3>1, Zenon
    <2>2. CASE ~ \A n \in S!Node : lab[n] # "down"
      <3>1. stage = "died"
        BY <2>2, Zenon DEF S!Init
      <3> QED
        BY <3>1
    <2> QED
      BY <2>1, <2>2
  <1>5. Once
    <2>1. OnlyAtFront(r)
      BY <1>3, PlainJudges, Zenon
    <2>2. ~(scenario > 0)
      BY <1>1
    <2> QED
      BY <1>4, <2>1, <2>2, Zenon DEF Once
  <1>6. Kept
    <2>1. stage # "complete"
      <3>1. stage \in {"try", "died"}
        BY DEF S!Init
      <3> QED
        BY <3>1
    <2>2. /\ \A j \in 1 .. Len(records) : FALSE
          /\ \A s \in 1 .. scenario - 1 : FALSE
          /\ completion.status = "none" /\ "none" # "complete" /\ lines = records
      BY <1>1
    <2> QED
      BY <2>1, <2>2, Zenon DEF Kept, Distinct
  <1> QED
    BY <1>5, <1>6

(* Every history is recorded once; histories.jsonl lacks at most the last    *)
(* one, and none when completion.json says complete, which counts all trials *)
(* of all scenarios (main() of run_real_experiments.py).                     *)
THEOREM HistoriesOnce ==
  ASSUME S!IsFiniteSet(Client)
  PROVE  JobSpec => []RecordedOnce
  <1>1. JobInit => SuiteInv
    BY SuiteBegins, OnceBegins, Zenon DEF JobInit, SuiteInv
  <1>2. SuiteInv /\ [JobNext]_<<vars, suiteVars, measureVars, job>> => SuiteInv'
    <2> SUFFICES ASSUME SuiteInv, [JobNext]_<<vars, suiteVars, measureVars, job>>
                 PROVE  SuiteInv'
      OBVIOUS
    <2>1. CASE S!Next
      BY <2>1, SuiteKeeps, OnceKept, Zenon DEF SuiteInv
    <2>2. CASE UNCHANGED suiteVars
      BY <2>2, SuiteStays, OnceStays, Zenon DEF SuiteInv
    <2> QED
      BY <2>1, <2>2, SuiteStep, Zenon
  <1>3. SuiteInv => RecordedOnce
    <2> SUFFICES ASSUME SuiteInv PROVE RecordedOnce
      OBVIOUS
    <2>1. S!IsInjective(records)
      <3>1. DOMAIN records = 1 .. Len(records)
        BY DEF SuiteInv, Typed
      <3>2. Distinct(records)
        BY Zenon DEF SuiteInv, Kept
      <3> QED
        BY <3>1, <3>2, Zenon DEF S!IsInjective, Distinct
    <2>2. /\ lines \in {records, SubSeq(records, 1, Len(records) - 1)}
          /\ completion.status # "none" => completion.histories = Len(records)
          /\ completion.status = "complete" => lines = records /\ Len(records) = 3 * Trials
      BY Zenon DEF SuiteInv, Kept
    <2>3. Len(S!SCENARIOS) = 3
      BY DEF S!SCENARIOS
    <2> QED
      BY <2>1, <2>2, <2>3, Zenon DEF RecordedOnce, S!RecordedOnce, Trials
  <1> QED
    BY <1>1, <1>2, <1>3, PTL DEF JobSpec

-----------------------------------------------------------------------------
(* The measurements: multiposition.py and summarize_multiposition.py *)

Cases == {"serial", "task", "many"}
Phases == {"pilot", "full", "baseline", "scaling"}
Launching == [case : Cases, trial : 0 .. 3]
Depths == Nat \cup Explicit
Row == [job : Nat, phase : Phases, case : Cases, depth : Depths, trial : 0 .. 3,
        ok : BOOLEAN, score : {"right", "wrong", "none"}]

MeasureTyped ==
    /\ rows \in Seq(Row) /\ batch \in Nat /\ phase \in Phases \cup {"idle"}
    /\ depth \in Depths /\ launches \in Seq(Launching)
    /\ phase = "idle" => launches = << >>
    /\ phase = "pilot" => depth \in Nat
    /\ phase # "pilot" => \A x \in 1 .. Len(launches) : launches[x].trial # 0
    /\ \A i \in 1 .. Len(rows) : rows[i].ok => rows[i].score # "none"
    /\ \A i \in 1 .. Len(rows) : rows[i].phase # "pilot" => rows[i].trial # 0

(* A job has one phase.                                                      *)
OnePhase ==
    /\ \A i \in 1 .. Len(rows) : rows[i].job <= batch
    /\ \A i \in 1 .. Len(rows) : rows[i].job = batch /\ phase # "idle" => rows[i].phase = phase
    /\ \A i, j \in 1 .. Len(rows) : rows[i].job = rows[j].job => rows[i].phase = rows[j].phase

(* A job that PBS did not run again launches each trial of a case once.      *)
SameTrial(i, j) == /\ rows[i].job = rows[j].job /\ rows[i].case = rows[j].case
                   /\ rows[i].trial = rows[j].trial

LaunchedOnce ==
    /\ \A i, j \in 1 .. Len(rows) :
          SameTrial(i, j) /\ rows[i].phase # "pilot" /\ rows[i].job \notin requeued => i = j
    /\ phase # "pilot" /\ batch \notin requeued =>
          /\ \A x, y \in 1 .. Len(launches) : launches[x] = launches[y] => x = y
          /\ \A i \in 1 .. Len(rows), x \in 1 .. Len(launches) :
                rows[i].job = batch =>
                   ~(rows[i].case = launches[x].case /\ rows[i].trial = launches[x].trial)

MeasureInv == MeasureTyped /\ OnePhase /\ LaunchedOnce

LEMMA LaunchesShape ==
  ASSUME NEW c \in Cases
  PROVE  /\ M!Launches(c) \in Seq(Launching) /\ Len(M!Launches(c)) = 3
         /\ \A x \in 1 .. 3 : M!Launches(c)[x] = [case |-> c, trial |-> x]
  <1>1. M!Launches(c) \in [1 .. 3 -> Launching]
    BY DEF M!Launches, M!Trials, Launching
  <1>2. M!Launches(c) \in Seq(Launching) /\ Len(M!Launches(c)) = 3
    BY <1>1, FunctionSeq
  <1> QED
    BY <1>2 DEF M!Launches, M!Trials

(* A plan launches each trial of a case once.                                *)
Planned(q, p) ==
    /\ q \in Seq(Launching)
    /\ p # "pilot" => \A x \in 1 .. Len(q) : q[x].trial # 0
    /\ \A x, y \in 1 .. Len(q) : q[x] = q[y] => x = y

LEMMA ThreeAndThree ==
  ASSUME NEW s \in Seq(Launching), NEW u \in Seq(Launching), Len(s) = 3, Len(u) = 3
  PROVE  /\ s \o u \in Seq(Launching) /\ Len(s \o u) = 6
         /\ \A x \in 1 .. 3 : (s \o u)[x] = s[x]
         /\ \A x \in 4 .. 6 : (s \o u)[x] = u[x - 3]
  <1>1. /\ s \o u \in Seq(Launching) /\ Len(s \o u) = Len(s) + Len(u)
        /\ \A x \in 1 .. Len(s) + Len(u) :
              (s \o u)[x] = IF x <= Len(s) THEN s[x] ELSE u[x - Len(s)]
    BY ConcatProperties
  <1>0. 3 + 3 = 6
    OBVIOUS
  <1>2. /\ s \o u \in Seq(Launching) /\ Len(s \o u) = 6
        /\ \A x \in 1 .. 6 : (s \o u)[x] = IF x <= 3 THEN s[x] ELSE u[x - 3]
    BY <1>0, <1>1, Zenon
  <1>3. /\ \A x \in 1 .. 3 : x \in 1 .. 6 /\ x <= 3
        /\ \A x \in 4 .. 6 : x \in 1 .. 6 /\ ~(x <= 3)
    OBVIOUS
  <1> QED
    BY <1>2, <1>3, Zenon

LEMMA PlanShape ==
  ASSUME NEW p \in Phases
  PROVE  Planned(M!Plan(p), p)
  <1>1. ASSUME NEW c \in Cases PROVE Planned(M!Launches(c), p)
    <2>1. PICK s : s = M!Launches(c)
      OBVIOUS
    <2>2. s \in Seq(Launching) /\ Len(s) = 3 /\ \A x \in 1 .. 3 : s[x] = [case |-> c, trial |-> x]
      BY <1>1, <2>1, LaunchesShape, Zenon
    <2>3. \A x \in 1 .. 3 : s[x].trial = x
      BY <2>2
    <2>4. /\ \A x \in 1 .. 3 : s[x].trial # 0
          /\ \A x, y \in 1 .. 3 : s[x] = s[y] => x = y
      BY <2>3
    <2>5. Planned(s, p)
      BY <2>2, <2>4, Zenon DEF Planned
    <2> QED
      BY <2>1, <2>5, Zenon
  <1>2. CASE p = "pilot"
    <2>1. PICK l : l = [case |-> "serial", trial |-> 0]
      OBVIOUS
    <2>2. l \in Launching
      BY <2>1 DEF Launching, Cases
    <2>3. <<l>> \in Seq(Launching) /\ Len(<<l>>) = 1
      BY <2>2
    <2>4. Planned(<<l>>, p)
      BY <1>2, <2>3 DEF Planned
    <2>5. M!Plan(p) = <<l>>
      BY <1>2, <2>1 DEF M!Plan
    <2> QED
      BY <2>4, <2>5, Zenon
  <1>3. CASE p \in {"baseline", "scaling"}
    <2>1. "task" \in Cases /\ "many" \in Cases
      BY DEF Cases
    <2>2. M!Plan(p) \in {M!Launches("task"), M!Launches("many")}
      BY <1>3 DEF M!Plan
    <2> QED
      BY <1>1, <2>1, <2>2, Zenon
  <1>4. CASE p = "full"
    <2>1. PICK s : s = M!Launches("serial")
      OBVIOUS
    <2>2. PICK u : u = M!Launches("task")
      OBVIOUS
    <2>3. "serial" \in Cases /\ "task" \in Cases
      BY DEF Cases
    <2>4. /\ s \in Seq(Launching) /\ Len(s) = 3
          /\ \A x \in 1 .. 3 : s[x] = [case |-> "serial", trial |-> x]
      BY <2>1, <2>3, LaunchesShape, Zenon
    <2>5. /\ u \in Seq(Launching) /\ Len(u) = 3
          /\ \A x \in 1 .. 3 : u[x] = [case |-> "task", trial |-> x]
      BY <2>2, <2>3, LaunchesShape, Zenon
    <2>6. PICK q : q = s \o u
      OBVIOUS
    <2>7. /\ q \in Seq(Launching) /\ Len(q) = 6
          /\ \A x \in 1 .. 3 : q[x] = s[x]
          /\ \A x \in 4 .. 6 : q[x] = u[x - 3]
      BY <2>4, <2>5, <2>6, ThreeAndThree, ZenonT(40)
    <2>8. /\ \A x \in 1 .. 3 : q[x] = [case |-> "serial", trial |-> x]
          /\ \A x \in 4 .. 6 : q[x] = [case |-> "task", trial |-> x - 3]
      BY <2>4, <2>5, <2>7
    <2>9. /\ \A x \in 1 .. 3 : q[x].case = "serial" /\ q[x].trial = x
          /\ \A x \in 4 .. 6 : q[x].case = "task" /\ q[x].trial = x - 3
      BY <2>8
    <2>10. \A x \in 1 .. 6 : q[x].trial # 0
      BY <2>9
    <2>11. \A x, y \in 1 .. 6 : q[x] = q[y] => x = y
      <3> SUFFICES ASSUME NEW x \in 1 .. 6, NEW y \in 1 .. 6,
                          q[x].case = q[y].case, q[x].trial = q[y].trial
                   PROVE  x = y
        BY Zenon
      <3>1. CASE x \in 1 .. 3
        BY <2>9, <3>1
      <3>2. CASE x \in 4 .. 6
        BY <2>9, <3>2
      <3> QED
        BY <3>1, <3>2
    <2>12. Planned(q, p)
      BY <2>7, <2>10, <2>11, Zenon DEF Planned
    <2>13. M!Plan(p) = M!Launches("serial") \o M!Launches("task")
      BY <1>4 DEF M!Plan
    <2> QED
      BY <2>1, <2>2, <2>6, <2>12, <2>13, Zenon
  <1> QED
    BY <1>2, <1>3, <1>4 DEF Phases

(* What is left after a launch is the end of the list.                       *)
LeftOf(u, q) ==
    /\ u \in Seq(Launching)
    /\ \E b \in Nat \ {0} : \A x \in 1 .. Len(u) : x + b \in 1 .. Len(q) /\ u[x] = q[x + b]

LEMMA AfterLaunch ==
  ASSUME launches \in Seq(Launching), launches # << >>, NEW ok
  PROVE  LeftOf(M!After(ok), launches)
  <1>1. PICK n : n = Len(launches)
    OBVIOUS
  <1>2. PICK h : h = Head(launches)
    OBVIOUS
  <1>3. n \in Nat /\ n >= 1 /\ h.trial \in 0 .. 3
    <2>1. n \in Nat /\ n >= 1 /\ h \in Launching
      BY <1>1, <1>2
    <2>2. h.trial \in 0 .. 3
      BY <2>1, Zenon DEF Launching
    <2> QED
      BY <2>1, <2>2
  <1>4. CASE ok
    <2>1. PICK u : u = Tail(launches)
      OBVIOUS
    <2>2. /\ u \in Seq(Launching) /\ Len(u) = n - 1
          /\ \A x \in 1 .. n - 1 : u[x] = launches[x + 1]
      BY <1>1, <2>1
    <2>3. \A x \in 1 .. Len(u) : x + 1 \in 1 .. n /\ u[x] = launches[x + 1]
      BY <1>3, <2>2
    <2>4. 1 \in Nat \ {0}
      OBVIOUS
    <2>5. LeftOf(u, launches)
      BY <1>1, <2>2, <2>3, <2>4, Zenon DEF LeftOf
    <2> QED
      BY <1>4, <2>1, <2>5, Zenon DEF M!After
  <1>5. CASE ~ok
    <2>1. PICK a : a = 1 + (4 - h.trial)
      OBVIOUS
    <2>2. a \in Nat /\ a >= 2
      BY <1>3, <2>1
    <2>3. PICK u : u = SubSeq(launches, a, n)
      OBVIOUS
    <2>4. /\ u \in Seq(Launching) /\ Len(u) \in Nat
          /\ \A x \in 1 .. Len(u) : x <= n + 1 - a /\ u[x] = launches[a + x - 1]
      <3>1. CASE a <= n
        BY <1>1, <1>3, <2>2, <2>3, <3>1
      <3>2. CASE a > n
        <4>1. u = << >>
          BY <1>1, <1>3, <2>2, <2>3, <3>2
        <4> QED
          BY <4>1
      <3> QED
        BY <1>3, <2>2, <3>1, <3>2
    <2>5. a - 1 \in Nat \ {0} /\ \A x \in Nat : a + x - 1 = x + (a - 1)
      BY <2>2
    <2>6. \A x \in 1 .. Len(u) : x + (a - 1) \in 1 .. n
      BY <1>3, <2>2, <2>4
    <2>7. \A x \in 1 .. Len(u) : x \in Nat
      BY <2>4
    <2>8. \A x \in 1 .. Len(u) : u[x] = launches[x + (a - 1)]
      BY <2>4, <2>5, <2>7, Zenon
    <2>9. LeftOf(u, launches)
      BY <1>1, <2>4, <2>5, <2>6, <2>8, Zenon DEF LeftOf
    <2> QED
      BY <1>1, <1>2, <1>5, <2>1, <2>3, <2>9, Zenon DEF M!After
  <1> QED
    BY <1>4, <1>5

LEMMA SameLaunch ==
  ASSUME NEW l \in Launching, NEW h \in Launching, l.case = h.case, l.trial = h.trial
  PROVE  l = h
  BY DEF Launching

LEMMA MeasureBegins ==
  ASSUME M!Init
  PROVE  MeasureInv
  <1>1. rows = << >> /\ batch = 0 /\ phase = "idle" /\ depth = 0 /\ launches = << >>
    BY Zenon DEF M!Init
  <1>2. MeasureTyped
    BY <1>1 DEF MeasureTyped, Depths
  <1>3. OnePhase
    BY <1>1 DEF OnePhase
  <1>4. LaunchedOnce
    BY <1>1 DEF LaunchedOnce
  <1> QED
    BY <1>2, <1>3, <1>4 DEF MeasureInv

LEMMA MeasureStays ==
  ASSUME MeasureInv, UNCHANGED measureVars
  PROVE  MeasureInv'
  <1>1. /\ rows' = rows /\ batch' = batch /\ phase' = phase /\ depth' = depth
        /\ launches' = launches /\ requeued' = requeued
    BY Zenon DEF measureVars
  <1>2. MeasureTyped'
    BY <1>1, Zenon DEF MeasureInv, MeasureTyped
  <1>3. OnePhase'
    BY <1>1, Zenon DEF MeasureInv, OnePhase
  <1>4. LaunchedOnce'
    BY <1>1, Zenon DEF MeasureInv, LaunchedOnce, SameTrial
  <1> QED
    BY <1>2, <1>3, <1>4, Zenon DEF MeasureInv

LEMMA SubmitMeasures ==
  ASSUME MeasureInv, M!Submit
  PROVE  MeasureInv'
  <1>0. MeasureTyped /\ OnePhase /\ LaunchedOnce
    BY Zenon DEF MeasureInv
  <1>1. /\ batch' = batch + 1 /\ launches' = M!Plan(phase') /\ rows' = rows
        /\ requeued' = requeued /\ phase' \in Phases
        /\ phase' = "pilot" => depth' = 1
        /\ phase' # "pilot" => depth' \in M!Selected \cup Explicit
    BY DEF M!Submit, Phases
  <1>2. depth' \in Depths
    <2>1. rows \in Seq(Row)
      BY <1>0 DEF MeasureTyped
    <2>2. \A i \in DOMAIN rows : rows[i].depth \in Depths
      <3>1. \A i \in DOMAIN rows : rows[i] \in Row
        BY <2>1
      <3> QED
        BY <3>1 DEF Row
    <2>3. M!Selected \subseteq Depths
      BY <2>2, Zenon DEF M!Selected
    <2>4. Explicit \subseteq Depths /\ 1 \in Depths
      BY DEF Depths
    <2> QED
      BY <1>1, <2>3, <2>4, Zenon
  <1>3. PICK p : p = phase'
    OBVIOUS
  <1>4. Planned(M!Plan(p), p)
    BY <1>1, <1>3, PlanShape, Zenon
  <1>5. PICK q : q = M!Plan(p)
    OBVIOUS
  <1>6. /\ q \in Seq(Launching) /\ launches' = q
        /\ p # "pilot" => \A x \in 1 .. Len(q) : q[x].trial # 0
        /\ \A x, y \in 1 .. Len(q) : q[x] = q[y] => x = y
    BY <1>1, <1>3, <1>4, <1>5, ZenonT(40) DEF Planned
  <1>7. /\ rows \in Seq(Row) /\ batch \in Nat /\ batch + 1 \in Nat
        /\ \A i \in 1 .. Len(rows) : rows[i].ok => rows[i].score # "none"
        /\ \A i \in 1 .. Len(rows) : rows[i].phase # "pilot" => rows[i].trial # 0
    BY <1>0 DEF MeasureTyped
  <1>8. MeasureTyped'
    <2>1. p = "pilot" => depth' \in Nat
      BY <1>1, <1>3
    <2>2. p \in Phases /\ p # "idle" /\ p \in Phases \cup {"idle"}
      BY <1>1, <1>3 DEF Phases
    <2> QED
      BY <1>1, <1>2, <1>3, <1>6, <1>7, <2>1, <2>2, Zenon DEF MeasureTyped
  <1>9. \A i \in 1 .. Len(rows) : rows[i].job <= batch + 1 /\ rows[i].job # batch + 1
    <2>1. \A i \in 1 .. Len(rows) : rows[i].job <= batch
      BY <1>0 DEF OnePhase
    <2>2. \A i \in 1 .. Len(rows) : rows[i].job \in Nat
      <3>1. \A i \in 1 .. Len(rows) : rows[i] \in Row
        BY <1>7
      <3> QED
        BY <3>1 DEF Row
    <2> QED
      BY <1>7, <2>1, <2>2
  <1>10. OnePhase'
    BY <1>0, <1>1, <1>9, Zenon DEF OnePhase
  <1>11. LaunchedOnce'
    BY <1>0, <1>1, <1>6, <1>9, Zenon DEF LaunchedOnce, SameTrial
  <1> QED
    BY <1>8, <1>10, <1>11, Zenon DEF MeasureInv

LEMMA EndMeasures ==
  ASSUME MeasureInv, M!EndJob
  PROVE  MeasureInv'
  <1>1. /\ phase' = "idle" /\ launches' = << >> /\ rows' = rows /\ batch' = batch
        /\ depth' = depth /\ requeued' = requeued
    BY Zenon DEF M!EndJob
  <1>2. MeasureTyped'
    BY <1>1 DEF MeasureInv, MeasureTyped
  <1>3. OnePhase'
    BY <1>1, Zenon DEF MeasureInv, OnePhase
  <1>4. LaunchedOnce'
    <2>1. \A x \in 1 .. Len(launches') : FALSE
      BY <1>1
    <2> QED
      BY <1>1, <2>1, Zenon DEF MeasureInv, LaunchedOnce, SameTrial
  <1> QED
    BY <1>2, <1>3, <1>4, Zenon DEF MeasureInv

LEMMA RequeueMeasures ==
  ASSUME MeasureInv, M!Requeue
  PROVE  MeasureInv'
  <1>0. MeasureTyped /\ OnePhase /\ LaunchedOnce
    BY Zenon DEF MeasureInv
  <1>1. /\ requeued' = requeued \cup {batch} /\ launches' = M!Plan(phase)
        /\ phase # "idle" /\ rows' = rows /\ batch' = batch /\ phase' = phase
        /\ depth' = 1 \/ depth' = depth
    BY DEF M!Requeue
  <1>2. /\ rows \in Seq(Row) /\ batch \in Nat /\ phase \in Phases /\ depth \in Depths
        /\ phase = "pilot" => depth \in Nat
        /\ \A i \in 1 .. Len(rows) : rows[i].ok => rows[i].score # "none"
        /\ \A i \in 1 .. Len(rows) : rows[i].phase # "pilot" => rows[i].trial # 0
    BY <1>0, <1>1 DEF MeasureTyped
  <1>3. Planned(launches', phase)
    BY <1>1, <1>2, PlanShape, Zenon
  <1>4. /\ launches' \in Seq(Launching)
        /\ phase # "pilot" => \A x \in 1 .. Len(launches') : launches'[x].trial # 0
    BY <1>3, Zenon DEF Planned
  <1>5. depth' \in Depths /\ (phase = "pilot" => depth' \in Nat)
    BY <1>1, <1>2 DEF Depths
  <1>6. MeasureTyped'
    <2>1. phase \in Phases \cup {"idle"}
      BY <1>2
    <2> QED
      BY <1>1, <1>2, <1>4, <1>5, <2>1, Zenon DEF MeasureTyped
  <1>7. OnePhase'
    BY <1>0, <1>1, Zenon DEF OnePhase
  <1>8. LaunchedOnce'
    <2>1. batch' \in requeued' /\ \A d : d \notin requeued' => d \notin requeued
      BY <1>1
    <2> QED
      BY <1>0, <1>1, <2>1, Zenon DEF LaunchedOnce, SameTrial
  <1> QED
    BY <1>6, <1>7, <1>8, Zenon DEF MeasureInv

(* A launch appends a row of the first launch to come.                       *)
Logged(r) ==
    /\ r \in Row /\ rows' = Append(rows, r)
    /\ r.job = batch /\ r.phase = phase /\ (r.ok => r.score # "none")
    /\ r.case = Head(launches).case /\ r.trial = Head(launches).trial

LEMMA LaunchLogs ==
  ASSUME MeasureInv, M!Launch
  PROVE  /\ \E r \in Row : Logged(r)
         /\ launches # << >> /\ launches \in Seq(Launching) /\ phase \in Phases
         /\ batch' = batch /\ phase' = phase /\ requeued' = requeued
         /\ depth' \in Depths /\ (phase = "pilot" => depth' \in Nat)
         /\ phase = "pilot" => launches' \in {launches, << >>}
         /\ phase # "pilot" => LeftOf(launches', launches)
  <1>1. PICK h : h = Head(launches)
    OBVIOUS
  <1>2. PICK ok \in BOOLEAN, score \in {"right", "wrong", "none"} :
            /\ ok => score # "none"
            /\ rows' = Append(rows, [job |-> batch, phase |-> phase, case |-> h.case,
                                     depth |-> depth, trial |-> h.trial,
                                     ok |-> ok, score |-> score])
            /\ IF phase = "pilot"
                 THEN \/ ok /\ depth < MaxDepth /\ depth' = depth + 1 /\ launches' = launches
                      \/ depth' = depth /\ launches' = << >>
                 ELSE depth' = depth /\ launches' = M!After(ok)
    BY <1>1, Zenon DEF M!Launch
  <1>3. /\ launches \in Seq(Launching) /\ batch \in Nat /\ phase \in Phases \cup {"idle"}
        /\ phase = "idle" => launches = << >>
        /\ depth \in Depths /\ (phase = "pilot" => depth \in Nat)
    BY DEF MeasureInv, MeasureTyped
  <1>4. launches # << >>
    BY Zenon DEF M!Launch
  <1>5. phase \in Phases
    BY <1>3, <1>4
  <1>6. h.case \in Cases /\ h.trial \in 0 .. 3
    <2>1. h \in Launching
      BY <1>1, <1>3, <1>4
    <2> QED
      BY <2>1, Zenon DEF Launching
  <1>7. \E r \in Row : Logged(r)
    <2>1. PICK r : r = [job |-> batch, phase |-> phase, case |-> h.case, depth |-> depth,
                        trial |-> h.trial, ok |-> ok, score |-> score]
      OBVIOUS
    <2>2. r \in Row
      BY <1>2, <1>3, <1>5, <1>6, <2>1 DEF Row
    <2>3. /\ r.job = batch /\ r.phase = phase /\ r.case = h.case /\ r.trial = h.trial
          /\ r.ok = ok /\ r.score = score
      BY <2>1
    <2>4. rows' = Append(rows, r)
      BY <1>2, <2>1, Zenon
    <2>5. Logged(r)
      BY <1>1, <1>2, <2>2, <2>3, <2>4, Zenon DEF Logged
    <2> QED
      BY <2>2, <2>5, Zenon
  <1>8. batch' = batch /\ phase' = phase /\ requeued' = requeued
    BY Zenon DEF M!Launch
  <1>9. CASE phase = "pilot"
    <2>1. \/ depth' = depth + 1 /\ launches' = launches
          \/ depth' = depth /\ launches' = << >>
      BY <1>2, <1>9
    <2>2. depth' \in Nat /\ depth' \in Depths /\ launches' \in {launches, << >>}
      BY <1>3, <1>9, <2>1 DEF Depths
    <2> QED
      BY <1>3, <1>4, <1>5, <1>7, <1>8, <1>9, <2>2, Zenon
  <1>10. CASE phase # "pilot"
    <2>1. depth' = depth /\ launches' = M!After(ok)
      BY <1>2, <1>10
    <2>2. LeftOf(M!After(ok), launches)
      BY <1>3, <1>4, AfterLaunch, Zenon
    <2> QED
      BY <1>3, <1>4, <1>5, <1>7, <1>8, <1>10, <2>1, <2>2, Zenon
  <1> QED
    BY <1>9, <1>10

(* How the rows have grown.                                                  *)
LEMMA RowsGrow ==
  ASSUME NEW r \in Row, rows \in Seq(Row), rows' = Append(rows, r)
  PROVE  /\ rows' \in Seq(Row)
         /\ \A i \in 1 .. Len(rows) : rows'[i] = rows[i]
         /\ rows'[Len(rows) + 1] = r
         /\ \A i \in 1 .. Len(rows') : i \in 1 .. Len(rows) \/ i = Len(rows) + 1
         /\ ~(Len(rows) + 1 \in 1 .. Len(rows))
  OBVIOUS

LEMMA LaunchMeasures ==
  ASSUME MeasureInv, M!Launch
  PROVE  MeasureInv'
  <1>0. MeasureTyped /\ OnePhase /\ LaunchedOnce
    BY Zenon DEF MeasureInv
  <1>1. PICK r \in Row : Logged(r)
    BY LaunchLogs, Zenon
  <1>2. /\ launches # << >> /\ launches \in Seq(Launching) /\ phase \in Phases
        /\ batch' = batch /\ phase' = phase /\ requeued' = requeued
        /\ depth' \in Depths /\ (phase = "pilot" => depth' \in Nat)
        /\ phase = "pilot" => launches' \in {launches, << >>}
        /\ phase # "pilot" => LeftOf(launches', launches)
    BY LaunchLogs, Zenon
  <1>3. /\ rows \in Seq(Row) /\ batch \in Nat
        /\ phase # "pilot" => \A x \in 1 .. Len(launches) : launches[x].trial # 0
        /\ \A i \in 1 .. Len(rows) : rows[i].ok => rows[i].score # "none"
        /\ \A i \in 1 .. Len(rows) : rows[i].phase # "pilot" => rows[i].trial # 0
    BY <1>0, Zenon DEF MeasureTyped
  <1>4. PICK n : n = Len(rows)
    OBVIOUS
  <1>5. /\ rows' \in Seq(Row)
        /\ \A i \in 1 .. n : rows'[i] = rows[i]
        /\ rows'[n + 1] = r
        /\ \A i \in 1 .. Len(rows') : i \in 1 .. n \/ i = n + 1
        /\ ~(n + 1 \in 1 .. n)
    BY <1>1, <1>3, <1>4, RowsGrow, Zenon DEF Logged
  <1>6. PICK h : h = launches[1]
    OBVIOUS
  <1>7. h \in Launching /\ 1 \in 1 .. Len(launches) /\ h = Head(launches)
    BY <1>2, <1>6
  <1>8. /\ r.job = batch /\ r.phase = phase /\ (r.ok => r.score # "none")
        /\ r.case = h.case /\ r.trial = h.trial
    BY <1>1, <1>7, Zenon DEF Logged
  <1>9. phase # "pilot" => LeftOf(launches', launches) /\ h.trial # 0
    BY <1>2, <1>3, <1>6, <1>7, Zenon
  <1>10. launches' \in Seq(Launching)
    <2>0. << >> \in Seq(Launching)
      OBVIOUS
    <2>1. phase = "pilot" => launches' \in Seq(Launching)
      BY <1>2, <2>0, Zenon
    <2>2. phase # "pilot" => launches' \in Seq(Launching)
      BY <1>9, Zenon DEF LeftOf
    <2> QED
      BY <2>1, <2>2
  <1>11. phase # "pilot" => \A x \in 1 .. Len(launches') :
            \E y \in 1 .. Len(launches) : y # 1 /\ launches'[x] = launches[y]
    <2> SUFFICES ASSUME phase # "pilot", NEW x \in 1 .. Len(launches')
                 PROVE  \E y \in 1 .. Len(launches) : y # 1 /\ launches'[x] = launches[y]
      BY Zenon
    <2>1. PICK b \in Nat \ {0} : \A z \in 1 .. Len(launches') :
                z + b \in 1 .. Len(launches) /\ launches'[z] = launches[z + b]
      BY <1>9, Zenon DEF LeftOf
    <2>2. x + b # 1
      BY <1>10
    <2> QED
      BY <2>1, <2>2, Zenon
  <1>12. MeasureTyped'
    <2>1. phase' \in Phases \cup {"idle"} /\ phase' # "idle"
      BY <1>2 DEF Phases
    <2>2. phase' # "pilot" => \A x \in 1 .. Len(launches') : launches'[x].trial # 0
      BY <1>2, <1>3, <1>11, Zenon
    <2>3. \A i \in 1 .. Len(rows') : rows'[i].ok => rows'[i].score # "none"
      BY <1>3, <1>4, <1>5, <1>8, Zenon
    <2>4. \A i \in 1 .. Len(rows') : rows'[i].phase # "pilot" => rows'[i].trial # 0
      BY <1>3, <1>4, <1>5, <1>8, <1>9, Zenon
    <2> QED
      BY <1>2, <1>3, <1>5, <1>10, <2>1, <2>2, <2>3, <2>4, Zenon DEF MeasureTyped
  <1>13. OnePhase'
    <2>1. /\ \A i \in 1 .. n : rows[i].job <= batch
          /\ \A i \in 1 .. n : rows[i].job = batch => rows[i].phase = phase
          /\ \A i, j \in 1 .. n : rows[i].job = rows[j].job => rows[i].phase = rows[j].phase
      <3>1. phase # "idle"
        BY <1>2 DEF Phases
      <3> QED
        BY <1>0, <1>4, <3>1, Zenon DEF OnePhase
    <2>2. batch <= batch
      BY <1>3
    <2>3. \A i \in 1 .. Len(rows') : rows'[i].job <= batch
      BY <1>5, <1>8, <2>1, <2>2, Zenon
    <2>4. \A i \in 1 .. Len(rows') : rows'[i].job = batch => rows'[i].phase = phase
      BY <1>5, <1>8, <2>1, Zenon
    <2>5. \A i, j \in 1 .. Len(rows') : rows'[i].job = rows'[j].job
                                           => rows'[i].phase = rows'[j].phase
      <3> SUFFICES ASSUME NEW i \in 1 .. Len(rows'), NEW j \in 1 .. Len(rows'),
                          rows'[i].job = rows'[j].job
                   PROVE  rows'[i].phase = rows'[j].phase
        BY Zenon
      <3>1. CASE i = n + 1 \/ j = n + 1
        BY <1>5, <1>8, <2>4, <3>1, Zenon
      <3>2. CASE i \in 1 .. n /\ j \in 1 .. n
        BY <1>5, <2>1, <3>2, Zenon
      <3> QED
        BY <1>5, <3>1, <3>2, Zenon
    <2> QED
      BY <1>2, <2>3, <2>4, <2>5, Zenon DEF OnePhase
  <1>14. LaunchedOnce'
    <2>1. \A i, j \in 1 .. n :
             /\ rows[i].job = rows[j].job /\ rows[i].case = rows[j].case
             /\ rows[i].trial = rows[j].trial
             /\ rows[i].phase # "pilot" /\ rows[i].job \notin requeued
             => i = j
      BY <1>0, <1>4, Zenon DEF LaunchedOnce, SameTrial
    <2>2. phase # "pilot" /\ batch \notin requeued =>
             /\ \A x, y \in 1 .. Len(launches) : launches[x] = launches[y] => x = y
             /\ \A i \in 1 .. n, x \in 1 .. Len(launches) :
                   rows[i].job = batch =>
                      ~(rows[i].case = launches[x].case /\ rows[i].trial = launches[x].trial)
      BY <1>0, <1>4, Zenon DEF LaunchedOnce
    <2>3. phase # "pilot" /\ batch \notin requeued =>
             \A i \in 1 .. n : ~(/\ rows[i].job = batch /\ rows[i].case = h.case
                                 /\ rows[i].trial = h.trial)
      BY <1>6, <1>7, <2>2, Zenon
    <2>4. \A i, j \in 1 .. Len(rows') :
             /\ rows'[i].job = rows'[j].job /\ rows'[i].case = rows'[j].case
             /\ rows'[i].trial = rows'[j].trial
             /\ rows'[i].phase # "pilot" /\ rows'[i].job \notin requeued
             => i = j
      <3> SUFFICES ASSUME NEW i \in 1 .. Len(rows'), NEW j \in 1 .. Len(rows'),
                          rows'[i].job = rows'[j].job, rows'[i].case = rows'[j].case,
                          rows'[i].trial = rows'[j].trial,
                          rows'[i].phase # "pilot", rows'[i].job \notin requeued
                   PROVE  i = j
        BY Zenon
      <3>1. CASE i \in 1 .. n /\ j \in 1 .. n
        <4>1. rows'[i] = rows[i] /\ rows'[j] = rows[j]
          BY <1>5, <3>1, Zenon
        <4> QED
          BY <2>1, <3>1, <4>1, Zenon
      <3>2. CASE i \in 1 .. n /\ j = n + 1
        <4>1. rows'[i] = rows[i] /\ rows'[j] = r
          BY <1>5, <3>2, Zenon
        <4>2. rows[i].job = batch
          BY <1>8, <4>1, Zenon
        <4>3. rows[i].phase = phase
          <5>1. phase # "idle"
            BY <1>2 DEF Phases
          <5> QED
            BY <1>0, <1>4, <3>2, <4>2, <5>1, Zenon DEF OnePhase
        <4> QED
          BY <1>8, <2>3, <3>2, <4>1, <4>2, <4>3, Zenon
      <3>3. CASE i = n + 1 /\ j \in 1 .. n
        <4>1. rows'[j] = rows[j] /\ rows'[i] = r
          BY <1>5, <3>3, Zenon
        <4> QED
          BY <1>8, <2>3, <3>3, <4>1, Zenon
      <3> QED
        BY <1>5, <3>1, <3>2, <3>3, Zenon
    <2>5. phase # "pilot" /\ batch \notin requeued =>
             \A x, y \in 1 .. Len(launches') : launches'[x] = launches'[y] => x = y
      <3> SUFFICES ASSUME phase # "pilot", batch \notin requeued,
                          NEW x \in 1 .. Len(launches'), NEW y \in 1 .. Len(launches'),
                          launches'[x] = launches'[y]
                   PROVE  x = y
        BY Zenon
      <3>1. PICK b \in Nat \ {0} : \A z \in 1 .. Len(launches') :
                  z + b \in 1 .. Len(launches) /\ launches'[z] = launches[z + b]
        BY <1>9, Zenon DEF LeftOf
      <3>2. x + b = y + b
        BY <2>2, <3>1, ZenonT(40)
      <3> QED
        BY <1>10, <3>2
    <2>6. phase # "pilot" /\ batch \notin requeued =>
             \A i \in 1 .. Len(rows'), x \in 1 .. Len(launches') :
                rows'[i].job = batch =>
                   ~(rows'[i].case = launches'[x].case /\ rows'[i].trial = launches'[x].trial)
      <3> SUFFICES ASSUME phase # "pilot", batch \notin requeued,
                          NEW i \in 1 .. Len(rows'), NEW x \in 1 .. Len(launches'),
                          rows'[i].job = batch,
                          rows'[i].case = launches'[x].case,
                          rows'[i].trial = launches'[x].trial
                   PROVE  FALSE
        BY Zenon
      <3>1. PICK y \in 1 .. Len(launches) : y # 1 /\ launches'[x] = launches[y]
        BY <1>11, Zenon
      <3>2. CASE i \in 1 .. n
        <4>1. rows'[i] = rows[i]
          BY <1>5, <3>2, Zenon
        <4> QED
          BY <2>2, <3>1, <3>2, <4>1, Zenon
      <3>3. CASE i = n + 1
        <4>1. rows'[i] = r
          BY <1>5, <3>3, Zenon
        <4>2. launches[y] \in Launching
          BY <1>2
        <4>3. launches[y] = h
          BY <1>7, <1>8, <3>1, <4>1, <4>2, SameLaunch, Zenon
        <4> QED
          BY <1>6, <1>7, <2>2, <3>1, <4>3, Zenon
      <3> QED
        BY <1>5, <3>2, <3>3, Zenon
    <2> QED
      BY <1>2, <2>4, <2>5, <2>6, Zenon DEF LaunchedOnce, SameTrial
  <1> QED
    BY <1>12, <1>13, <1>14, Zenon DEF MeasureInv

LEMMA MeasureStep ==
  ASSUME MeasureInv, [JobNext]_<<vars, suiteVars, measureVars, job>>
  PROVE  MeasureInv'
  <1>1. M!Next \/ UNCHANGED measureVars
    BY Zenon DEF JobNext
  <1> QED
    BY <1>1, SubmitMeasures, LaunchMeasures, EndMeasures, RequeueMeasures, MeasureStays,
       Zenon DEF M!Next

(* Three members that take three values of three take each value once.       *)
LEMMA ThreeOfThree ==
  ASSUME NEW G, NEW f \in [G -> 1 .. 3], Facts!IsFiniteSet(G), Facts!Cardinality(G) = 3,
         Facts!Cardinality({f[x] : x \in G}) = 3
  PROVE  /\ \A x, y \in G : f[x] = f[y] => x = y
         /\ \A t \in 1 .. 3 : \E x \in G : f[x] = t
  <1>1. PICK T : T = {f[x] : x \in G}
    OBVIOUS
  <1>2. f \in Facts!Surjection(G, T)
    BY <1>1 DEF Facts!Surjection
  <1>3. Facts!Cardinality(T) = Facts!Cardinality(G)
    BY <1>1, Zenon
  <1>4. f \in Facts!Injection(G, T)
    BY <1>2, <1>3, Facts!FS_Surjection
  <1>5. \A x, y \in G : f[x] = f[y] => x = y
    BY <1>4, Zenon DEF Facts!Injection, Facts!IsInjective
  <1>6. Facts!IsFiniteSet(1 .. 3) /\ Facts!Cardinality(1 .. 3) = 3
    <2>1. PICK m : m = 3
      OBVIOUS
    <2>3. m \in Nat
      BY <2>1
    <2>2. Facts!IsFiniteSet(1 .. m) /\ Facts!Cardinality(1 .. m) = m
      BY <2>3, Facts!FS_Interval
    <2> QED
      BY <2>1, <2>2
  <1>7. T \in SUBSET (1 .. 3)
    BY <1>1
  <1>8. T = 1 .. 3
    BY <1>1, <1>6, <1>7, Facts!FS_Subset, Zenon
  <1>9. \A t \in 1 .. 3 : \E x \in G : f[x] = t
    BY <1>1, <1>8, Zenon
  <1> QED
    BY <1>5, <1>9

(* What PASS says of a group.                                                *)
LEMMA PassSays ==
  ASSUME NEW k \in M!Passed
  PROVE  /\ Facts!Cardinality(M!Group(k)) = 3 /\ Facts!Cardinality(M!TrialsOf(k)) = 3
         /\ Facts!Cardinality(M!Reference(k.depth)) = 1
         /\ M!ScoresOf(M!Group(k)) = M!Reference(k.depth)
  <1>1. M!Status(k) = "PASS"
    BY Zenon DEF M!Passed
  <1>2. M!ThreeTrials(k)
    BY <1>1 DEF M!Status
  <1>3. /\ M!Cardinality(M!Reference(k.depth)) = 1
        /\ M!ScoresOf(M!Group(k)) = M!Reference(k.depth)
    BY <1>1, <1>2 DEF M!Status
  <1>4. M!Cardinality(M!Group(k)) = 3 /\ M!Cardinality(M!TrialsOf(k)) = 3
    BY <1>2, Zenon DEF M!ThreeTrials
  <1> QED
    BY <1>3, <1>4, Zenon DEF M!Cardinality, Facts!Cardinality

LEMMA FormalRows ==
  ASSUME MeasureTyped
  PROVE  /\ DOMAIN rows = 1 .. Len(rows)
         /\ M!Formal \subseteq 1 .. Len(rows) /\ Facts!IsFiniteSet(1 .. Len(rows))
         /\ \A i \in M!Formal : /\ rows[i].ok /\ rows[i].phase # "pilot"
                                /\ rows[i].trial \in 1 .. 3
                                /\ rows[i].score \in {"right", "wrong"}
         /\ \A i \in 1 .. Len(rows) : rows[i].trial \in 0 .. 3
  <1>1. /\ rows \in Seq(Row) /\ Len(rows) \in Nat /\ DOMAIN rows = 1 .. Len(rows)
        /\ \A i \in 1 .. Len(rows) : rows[i] \in Row
        /\ \A i \in 1 .. Len(rows) : rows[i].ok => rows[i].score # "none"
        /\ \A i \in 1 .. Len(rows) : rows[i].phase # "pilot" => rows[i].trial # 0
    BY DEF MeasureTyped
  <1>2. \A i \in 1 .. Len(rows) : /\ rows[i].trial \in 0 .. 3
                                  /\ rows[i].score \in {"right", "wrong", "none"}
    BY <1>1, Zenon DEF Row
  <1>3. \A i \in 1 .. Len(rows) : /\ rows[i].trial # 0 => rows[i].trial \in 1 .. 3
                                  /\ rows[i].score # "none" => rows[i].score \in {"right", "wrong"}
    BY <1>2
  <1>4. \A i \in M!Formal : i \in 1 .. Len(rows) /\ rows[i].phase # "pilot" /\ rows[i].ok
    BY <1>1, Zenon DEF M!Formal
  <1>5. Facts!IsFiniteSet(1 .. Len(rows))
    BY <1>1, Facts!FS_Interval
  <1> QED
    BY <1>1, <1>2, <1>3, <1>4, <1>5, Zenon

(* Each trial is in exactly one row of a group that passes.                  *)
LEMMA OneRowEach ==
  ASSUME MeasureTyped, NEW k \in M!Passed
  PROVE  /\ Facts!IsFiniteSet(M!Group(k))
         /\ \A t \in 1 .. 3 : \E i \in M!Group(k) :
               /\ rows[i].trial = t
               /\ \A j \in M!Group(k) : rows[j].trial = t => j = i
  <1>1. PICK G : G = M!Group(k)
    OBVIOUS
  <1>2. G \subseteq M!Formal
    BY <1>1, Zenon DEF M!Group
  <1>3. Facts!IsFiniteSet(G)
    <2>1. G \in SUBSET (1 .. Len(rows))
      BY <1>2, FormalRows, Zenon
    <2> QED
      BY <2>1, FormalRows, Facts!FS_Subset, Zenon
  <1>4. PICK f : f = [i \in G |-> rows[i].trial]
    OBVIOUS
  <1>5. \A i \in G : rows[i].trial \in 1 .. 3
    BY <1>2, FormalRows, Zenon
  <1>6. f \in [G -> 1 .. 3] /\ \A i \in G : f[i] = rows[i].trial
    BY <1>4, <1>5, Zenon
  <1>7. M!TrialsOf(k) = {f[i] : i \in G}
    BY <1>1, <1>6 DEF M!TrialsOf
  <1>8. Facts!Cardinality(G) = 3 /\ Facts!Cardinality({f[i] : i \in G}) = 3
    BY <1>1, <1>7, PassSays, Zenon
  <1>9. /\ \A x, y \in G : f[x] = f[y] => x = y
        /\ \A t \in 1 .. 3 : \E x \in G : f[x] = t
    BY <1>3, <1>6, <1>8, ThreeOfThree
  <1>10. ASSUME NEW t \in 1 .. 3
         PROVE  \E i \in G : /\ rows[i].trial = t
                              /\ \A j \in G : rows[j].trial = t => j = i
    <2>1. PICK i \in G : f[i] = t
      BY <1>9, Zenon
    <2>2. \A j \in G : rows[j].trial = f[j]
      BY <1>6, Zenon
    <2>3. \A j \in G : rows[j].trial = t => j = i
      BY <1>9, <2>1, <2>2, ZenonT(40)
    <2> QED
      BY <2>1, <2>2, <2>3, Zenon
  <1> QED
    BY <1>1, <1>3, <1>10, Zenon

(* Its searches, and every serial search at its depth, found one score.      *)
LEMMA OneScore ==
  ASSUME MeasureTyped, NEW k \in M!Passed
  PROVE  \E score \in {"right", "wrong"} : M!Reference(k.depth) = {score}
  <1>1. PICK G : G = M!Group(k)
    OBVIOUS
  <1>2. PICK R : R = M!Reference(k.depth)
    OBVIOUS
  <1>3. R = {rows[i].score : i \in G}
    BY <1>1, <1>2, PassSays, Zenon DEF M!ScoresOf
  <1>4. PICK f : f = [i \in G |-> rows[i].score]
    OBVIOUS
  <1>5. f \in Facts!Surjection(G, R)
    BY <1>3, <1>4 DEF Facts!Surjection
  <1>6. Facts!IsFiniteSet(G)
    BY <1>1, OneRowEach, Zenon
  <1>7. Facts!IsFiniteSet(R)
    BY <1>5, <1>6, Facts!FS_Surjection
  <1>8. PICK score : R = {score}
    BY <1>2, <1>7, PassSays, Facts!FS_Singleton, Zenon
  <1>9. score \in {"right", "wrong"}
    <2>1. PICK i \in G : rows[i].score = score
      BY <1>3, <1>8, Zenon
    <2>2. i \in M!Formal
      BY <1>1, <2>1, Zenon DEF M!Group
    <2> QED
      BY <2>1, <2>2, FormalRows, Zenon
  <1> QED
    BY <1>2, <1>8, <1>9, Zenon

LEMMA InvMeasures ==
  ASSUME MeasureInv
  PROVE  PassIsMeasured
  <1>0. MeasureTyped /\ OnePhase /\ LaunchedOnce
    BY Zenon DEF MeasureInv
  <1> SUFFICES ASSUME NEW k \in M!Passed
               PROVE  /\ \A t \in M!Trials :
                            M!Cardinality({i \in M!Group(k) : rows[i].trial = t}) = 1
                      /\ k.job \notin requeued =>
                            \A i \in DOMAIN rows : M!Key(i) = k => rows[i].ok
                      /\ k.case = "many" =>
                            \E score \in {"right", "wrong"} :
                               /\ \A s \in M!Scaled(k) : M!ScoresOf(M!Group(s)) = {score}
                               /\ \A i \in M!Formal :
                                     rows[i].case = "serial" /\ rows[i].depth = k.depth =>
                                         rows[i].score = score
    BY Zenon DEF PassIsMeasured, M!PassIsMeasured
  <1>1. ASSUME NEW t \in M!Trials
        PROVE  M!Cardinality({i \in M!Group(k) : rows[i].trial = t}) = 1
    <2>1. t \in 1 .. 3
      BY <1>1, Zenon DEF M!Trials
    <2>2. PICK i \in M!Group(k) : /\ rows[i].trial = t
                                  /\ \A j \in M!Group(k) : rows[j].trial = t => j = i
      BY <1>0, <2>1, OneRowEach, Zenon
    <2>3. {j \in M!Group(k) : rows[j].trial = t} = {i}
      BY <2>2, Zenon
    <2>4. Facts!Cardinality({i}) = 1
      BY Facts!FS_Singleton, Zenon
    <2>5. Facts!Cardinality({j \in M!Group(k) : rows[j].trial = t}) = 1
      BY <2>3, <2>4, Zenon
    <2> QED
      BY <2>5, Zenon DEF M!Cardinality, Facts!Cardinality
  <1>2. ASSUME k.job \notin requeued, NEW i \in DOMAIN rows, M!Key(i) = k
        PROVE  rows[i].ok
    <2>1. i \in 1 .. Len(rows)
      BY <1>0, <1>2, FormalRows, Zenon
    <2>2. \A j \in M!Group(k) : /\ M!Key(j) = M!Key(i) /\ j \in 1 .. Len(rows)
                                /\ rows[j].phase # "pilot" /\ rows[j].ok
                                /\ rows[j].trial \in 1 .. 3
      BY <1>0, <1>2, FormalRows, Zenon DEF M!Group
    <2>3. k.job = rows[i].job
      BY <1>2 DEF M!Key
    <2>4. \A j \in M!Group(k) : rows[j].job = rows[i].job /\ rows[j].case = rows[i].case
      BY <2>2 DEF M!Key
    <2>5. PICK a \in M!Group(k) : TRUE
      <3>1. 1 \in 1 .. 3
        OBVIOUS
      <3> QED
        BY <1>0, <3>1, OneRowEach, Zenon
    <2>6. rows[i].phase # "pilot"
      BY <1>0, <2>1, <2>2, <2>4, <2>5, Zenon DEF OnePhase
    <2>7. rows[i].trial \in 1 .. 3
      <3>1. rows[i].trial \in 0 .. 3
        BY <1>0, <2>1, FormalRows, Zenon
      <3>2. rows[i].trial # 0
        BY <1>0, <2>1, <2>6, Zenon DEF MeasureTyped
      <3> QED
        BY <3>1, <3>2
    <2>8. PICK j \in M!Group(k) : rows[j].trial = rows[i].trial
      BY <1>0, <2>7, OneRowEach, Zenon
    <2>9. SameTrial(i, j)
      BY <2>4, <2>8, Zenon DEF SameTrial
    <2>10. i = j
      BY <1>0, <1>2, <2>1, <2>2, <2>3, <2>6, <2>8, <2>9, Zenon DEF LaunchedOnce
    <2> QED
      BY <2>2, <2>8, <2>10, Zenon
  <1>3. ASSUME k.case = "many"
        PROVE  \E score \in {"right", "wrong"} :
                  /\ \A s \in M!Scaled(k) : M!ScoresOf(M!Group(s)) = {score}
                  /\ \A i \in M!Formal :
                        rows[i].case = "serial" /\ rows[i].depth = k.depth =>
                            rows[i].score = score
    <2>1. PICK score \in {"right", "wrong"} : M!Reference(k.depth) = {score}
      BY <1>0, OneScore, Zenon
    <2>2. \A s \in M!Scaled(k) : s \in M!Passed /\ s.depth = k.depth
      BY Zenon DEF M!Scaled
    <2>3. \A s \in M!Scaled(k) : M!ScoresOf(M!Group(s)) = {score}
      BY <2>1, <2>2, PassSays, Zenon
    <2>4. ASSUME NEW i \in M!Formal, rows[i].case = "serial", rows[i].depth = k.depth
          PROVE  rows[i].score = score
      <3>1. rows[i].score \in M!Reference(k.depth)
        BY <2>4, Zenon DEF M!Reference, M!ScoresOf
      <3> QED
        BY <2>1, <3>1
    <2> QED
      BY <2>1, <2>3, <2>4, Zenon
  <1> QED
    BY <1>1, <1>2, <1>3, Zenon

(* A PASS of summarize_multiposition.py is three distinct successful         *)
(* launches of one job of multiposition.py, which met no failure unless PBS  *)
(* ran it again, and the searches that strong_scaling.csv relates found one  *)
(* score.                                                                    *)
THEOREM PassMeasured == JobSpec => []PassIsMeasured
  <1>1. JobInit => MeasureInv
    BY MeasureBegins, Zenon DEF JobInit
  <1>2. MeasureInv /\ [JobNext]_<<vars, suiteVars, measureVars, job>> => MeasureInv'
    BY MeasureStep, Zenon
  <1>3. MeasureInv => PassIsMeasured
    BY InvMeasures, Zenon
  <1> QED
    BY <1>1, <1>2, <1>3, PTL DEF JobSpec

-----------------------------------------------------------------------------
(* The Cassandra executor, for any lab, any clients, any way of setting     *)
(* options and variables and trajectories of any length.                     *)

(* What execute() returns.                                                   *)
Entry == [op : {"connect", "request", "audit_order", "partition", "heal", "stop", "start"},
          status : {"ok", "error", "skipped", "unsupported"},
          client : Client \union {Absent},
          given : Names \union {Absent}, node : Names \union {Absent},
          coordinator : Known \union {Absent}]

RunTyped == history \in Seq(Entry) /\ up \subseteq Known

(* Before the constructor has returned no step was executed.                 *)
Quiet == pc \in {"parse", "construct"} =>
            history = << >> /\ client_nodes = << >> /\ sessions = << >>

(* A kept session is the session of its node.                                *)
SessionsFit == /\ pc = "run" => session = Hosts("N1")
               /\ \A n \in DOMAIN sessions : sessions[n] = Hosts(n)

ConnectsOf(c) == {j \in 1 .. Len(history) : history[j].op = "connect" /\ history[j].client = c}

(* client_nodes is where each client connected last.                         *)
LastConnect ==
    \A c \in Client :
       /\ c \notin DOMAIN client_nodes => ConnectsOf(c) = {}
       /\ c \in DOMAIN client_nodes =>
             \E j \in ConnectsOf(c) : /\ \A k \in ConnectsOf(c) : k <= j
                                     /\ history[j].given = client_nodes[c]

RunInv == RunTyped /\ Quiet /\ SessionsFit /\ LastConnect /\ NeverRerouted

-----------------------------------------------------------------------------
LEMMA GreatestExists ==
  ASSUME NEW n \in Nat, NEW W, W \subseteq 1 .. n, W # {}
  PROVE  \E x \in W : \A y \in W : y <= x
  <1> DEFINE T == {n - x : x \in W}
             R == {p \in Nat \X Nat : p[1] < p[2]}
  <1>1. T \subseteq Nat /\ T # {}
    <2>1. \A x \in 1 .. n : n - x \in Nat
      OBVIOUS
    <2> QED
      BY <2>1
  <1>2. IsWellFoundedOn(R, Nat)
    BY NatLessThanWellFounded DEF OpToRel
  <1>3. PICK m \in T : \A y \in T : ~ (<<y, m>> \in R)
    <2> HIDE DEF R, T
    <2> QED
      BY <1>1, <1>2, WFMin
  <1>4. \A y \in T : m <= y
    <2> TAKE y \in T
    <2>1. m \in Nat /\ y \in Nat
      BY <1>1
    <2>2. ~ (y < m)
      BY <1>3, <2>1
    <2> QED
      BY <2>1, <2>2
  <1>5. PICK x \in W : m = n - x
    OBVIOUS
  <1>6. \A y \in W : n - x <= n - y
    BY <1>4, <1>5
  <1>7. \A y \in W : y <= x
    <2> TAKE y \in W
    <2>1. x \in 1 .. n /\ y \in 1 .. n
      OBVIOUS
    <2>2. n - x <= n - y
      BY <1>6
    <2> QED
      BY <2>1, <2>2
  <1> QED
    BY <1>7

(* Where a step has to go depends on the steps before it only.               *)
LEMMA RequestedStable ==
  ASSUME RunTyped, NEW e \in Entry, history' = Append(history, e),
         NEW i \in DOMAIN history
  PROVE  Requested(i)' = Requested(i) /\ history'[i] = history[i]
  <1>1. /\ history \in Seq(Entry) /\ Len(history) \in Nat
        /\ i \in 1 .. Len(history)
        /\ \A j \in 1 .. Len(history) : history'[j] = history[j]
    BY DEF RunTyped
  <1>2. history'[i] = history[i]
    BY <1>1
  <1>3. {j \in 1 .. (i - 1) : history'[j].op = "connect" /\ history'[j].client = history'[i].client}
      = {j \in 1 .. (i - 1) : history[j].op = "connect" /\ history[j].client = history[i].client}
    BY <1>1
  <1> DEFINE mine == {j \in 1 .. (i - 1) : history[j].op = "connect"
                                           /\ history[j].client = history[i].client}
             last == CHOOSE j \in mine : \A k \in mine : k <= j
  <1>4. mine # {} => history'[last] = history[last]
    <2> SUFFICES ASSUME mine # {} PROVE history'[last] = history[last]
      OBVIOUS
    <2>1. mine \subseteq 1 .. Len(history)
      BY <1>1
    <2>2. \E j \in mine : \A k \in mine : k <= j
      <3> HIDE DEF mine
      <3> QED
        BY <2>1, <1>1, GreatestExists
    <2>3. last \in mine
      <3> HIDE DEF mine
      <3> QED
        BY <2>2
    <2> QED
      BY <1>1, <2>1, <2>3
  <1>5. history'[i].given = history[i].given
    BY <1>2
  <1>6. Requested(i) = IF history[i].given # Absent THEN history[i].given
                       ELSE IF mine = {} THEN "N1" ELSE history[last].given
    BY DEF Requested
  <1>7. Requested(i)' = IF history'[i].given # Absent THEN history'[i].given
                        ELSE IF mine = {} THEN "N1" ELSE history'[last].given
    <2> DEFINE new == {j \in 1 .. (i - 1) : history'[j].op = "connect"
                                            /\ history'[j].client = history'[i].client}
    <2>1. Requested(i)' = IF history'[i].given # Absent THEN history'[i].given
                          ELSE IF new = {} THEN "N1"
                          ELSE history'[CHOOSE j \in new : \A k \in new : k <= j].given
      BY Zenon DEF Requested
    <2>2. new = mine
      BY <1>3
    <2> HIDE DEF new
    <2> QED
      BY <2>1, <2>2
  <1> HIDE DEF mine, last
  <1>8. Requested(i)' = Requested(i)
    <2>1. CASE history[i].given # Absent
      BY <1>5, <1>6, <1>7, <2>1
    <2>2. CASE history[i].given = Absent /\ mine = {}
      BY <1>5, <1>6, <1>7, <2>2
    <2>3. CASE history[i].given = Absent /\ mine # {}
      <3>1. history'[last].given = history[last].given
        BY <1>4, <2>3
      <3> QED
        BY <1>5, <1>6, <1>7, <2>3, <3>1
    <2> QED
      BY <2>1, <2>2, <2>3
  <1> QED
    BY <1>2, <1>8

(* _node() finds the node the steps so far ask for.                          *)
LEMMA RequestedNew ==
  ASSUME RunTyped, LastConnect, NEW e \in Entry, history' = Append(history, e),
         e.client \in Client, NEW i, i = Len(history) + 1
  PROVE  Requested(i)' = TheNode(e.client, e.given)
  <1> DEFINE n == Len(history)
             mine == ConnectsOf(e.client)
             last == CHOOSE j \in mine : \A k \in mine : k <= j
             new == {j \in 1 .. (i - 1) : /\ history'[j].op = "connect"
                                          /\ history'[j].client = history'[i].client}
  <1>1. /\ n \in Nat /\ i - 1 = n /\ history'[i] = e
        /\ \A j \in 1 .. n : history'[j] = history[j]
    BY DEF RunTyped
  <1>2. new = mine
    BY <1>1 DEF ConnectsOf
  <1>3. mine \subseteq 1 .. n
    BY DEF ConnectsOf
  <1>4. mine # {} => last \in mine /\ \A k \in mine : k <= last
    <2> SUFFICES ASSUME mine # {} PROVE last \in mine /\ \A k \in mine : k <= last
      OBVIOUS
    <2> HIDE DEF mine
    <2>1. \E j \in mine : \A k \in mine : k <= j
      BY <1>1, <1>3, GreatestExists
    <2> QED
      BY <2>1
  <1>5. mine # {} => history'[last] = history[last]
    BY <1>1, <1>3, <1>4
  <1>6. mine = {} => e.client \notin DOMAIN client_nodes
    BY DEF LastConnect
  <1>7. mine # {} => /\ e.client \in DOMAIN client_nodes
                     /\ history[last].given = client_nodes[e.client]
    <2> SUFFICES ASSUME mine # {}
                 PROVE  /\ e.client \in DOMAIN client_nodes
                        /\ history[last].given = client_nodes[e.client]
      OBVIOUS
    <2>1. e.client \in DOMAIN client_nodes
      BY DEF LastConnect
    <2>2. PICK j \in mine : /\ \A k \in mine : k <= j
                            /\ history[j].given = client_nodes[e.client]
      BY <2>1 DEF LastConnect
    <2>3. j = last
      <3>1. j <= last /\ last <= j
        BY <1>4, <2>2
      <3>2. j \in 1 .. n /\ last \in 1 .. n
        BY <1>3, <1>4
      <3> HIDE DEF last, mine
      <3> QED
        BY <3>1, <3>2, <1>1
    <2> QED
      BY <2>1, <2>2, <2>3
  <1>8. Requested(i)' = IF e.given # Absent THEN e.given
                        ELSE IF mine = {} THEN "N1" ELSE history'[last].given
    <2>1. Requested(i)' = IF history'[i].given # Absent THEN history'[i].given
                          ELSE IF new = {} THEN "N1"
                          ELSE history'[CHOOSE j \in new : \A k \in new : k <= j].given
      BY Zenon DEF Requested
    <2> HIDE DEF new
    <2> QED
      BY <1>1, <1>2, <2>1
  <1> HIDE DEF mine, last
  <1> QED
    BY <1>5, <1>6, <1>7, <1>8 DEF TheNode

(* A step that is no connect leaves client_nodes right; if it is a request   *)
(* its answer has to come from a host of its node.                           *)
LEMMA AppendStep ==
  ASSUME RunInv, NEW e \in Entry, history' = Append(history, e),
         UNCHANGED <<client_nodes, config>>, e.op # "connect",
         e.op = "request" /\ e.status = "ok" =>
            /\ e.client \in Client
            /\ Served(TheNode(e.client, e.given))
            /\ e.coordinator \in Hosts(TheNode(e.client, e.given))
  PROVE  LastConnect' /\ NeverRerouted' /\ history' \in Seq(Entry)
  <1> DEFINE n == Len(history)
  <1>1. /\ n \in Nat /\ history'[n + 1] = e /\ Len(history') = n + 1
        /\ history' \in Seq(Entry) /\ DOMAIN history = 1 .. n
        /\ DOMAIN history' = 1 .. (n + 1)
        /\ \A j \in 1 .. n : history'[j] = history[j]
    BY DEF RunInv, RunTyped
  <1>2. \A c : ConnectsOf(c)' = ConnectsOf(c)
    BY <1>1 DEF ConnectsOf
  <1>3. LastConnect'
    <2>1. \A c : \A j \in ConnectsOf(c) : history'[j].given = history[j].given
      BY <1>1 DEF ConnectsOf
    <2> QED
      BY <1>2, <2>1 DEF LastConnect, RunInv
  <1>4. ASSUME NEW i \in DOMAIN history',
               history'[i].op = "request", history'[i].status = "ok"
        PROVE  /\ Served(Requested(i))'
               /\ (history[i].coordinator \in Hosts(Requested(i)))'
    <2>1. \A m : (Served(m) <=> Served(m)') /\ Hosts(m)' = Hosts(m)
      BY DEF Served, Hosts
    <2>2. CASE i \in 1 .. n
      <3>1. Requested(i)' = Requested(i) /\ history'[i] = history[i]
        BY <1>1, <2>2, RequestedStable DEF RunInv
      <3>2. Served(Requested(i)) /\ history[i].coordinator \in Hosts(Requested(i))
        BY <1>1, <1>4, <2>2, <3>1 DEF RunInv, NeverRerouted
      <3>3. Served(Requested(i))' <=> Served(Requested(i)')
        BY DEF Served
      <3>4. Hosts(Requested(i))' = Hosts(Requested(i)')
        BY DEF Hosts
      <3> QED
        BY <2>1, <3>1, <3>2, <3>3, <3>4
    <2>3. CASE i = n + 1
      <3>1. history'[i] = e
        BY <1>1, <2>3
      <3>2. Requested(i)' = TheNode(e.client, e.given)
        BY <1>4, <2>3, <3>1, RequestedNew DEF RunInv
      <3>3. Served(Requested(i))' <=> Served(Requested(i)')
        BY DEF Served
      <3>4. Hosts(Requested(i))' = Hosts(Requested(i)')
        BY DEF Hosts
      <3> QED
        BY <1>4, <2>1, <3>1, <3>2, <3>3, <3>4
    <2> QED
      BY <1>1, <2>2, <2>3
  <1>5. NeverRerouted'
    BY <1>4 DEF NeverRerouted
  <1> QED
    BY <1>1, <1>3, <1>5

-----------------------------------------------------------------------------
LEMMA InitInv == Init => RunInv
  <1> SUFFICES ASSUME Init PROVE RunInv
    OBVIOUS
  <1>1. RunTyped /\ Quiet /\ SessionsFit /\ NeverRerouted
    BY DEF Init, RunTyped, Quiet, SessionsFit, NeverRerouted
  <1>2. LastConnect
    BY DEF Init, LastConnect, ConnectsOf
  <1> QED
    BY <1>1, <1>2 DEF RunInv

(* A step that executes no operation of the trajectory and keeps config.     *)
LEMMA SilentStep ==
  ASSUME RunInv, UNCHANGED <<history, client_nodes, config, up>>
  PROVE  RunTyped' /\ LastConnect' /\ NeverRerouted'
  <1>1. RunTyped'
    BY DEF RunInv, RunTyped
  <1>2. \A c : ConnectsOf(c)' = ConnectsOf(c)
    BY DEF ConnectsOf
  <1>3. LastConnect'
    BY <1>2 DEF LastConnect, RunInv
  <1>4. \A i : Requested(i)' = Requested(i)
    <2>1. history' = history
      OBVIOUS
    <2> QED
      BY <2>1 DEF Requested
  <1>5. \A i : /\ Served(Requested(i))' <=> Served(Requested(i))
               /\ Hosts(Requested(i))' = Hosts(Requested(i))
    BY <1>4 DEF Served, Hosts
  <1>6. NeverRerouted'
    BY <1>5 DEF NeverRerouted, RunInv
  <1> QED
    BY <1>1, <1>3, <1>6

LEMMA StartInv == RunInv /\ Start => RunInv'
  <1> SUFFICES ASSUME RunInv, Start PROVE RunInv'
    OBVIOUS
  <1>1. /\ history = << >> /\ client_nodes = << >> /\ sessions = << >>
        /\ UNCHANGED <<history, client_nodes, sessions, up>>
        /\ pc' # "run"
    BY DEF RunInv, Quiet, Start, labVars
  <1>2. RunTyped' /\ Quiet' /\ SessionsFit' /\ NeverRerouted'
    BY <1>1 DEF RunInv, RunTyped, Quiet, SessionsFit, NeverRerouted
  <1>3. LastConnect'
    BY <1>1 DEF LastConnect, ConnectsOf
  <1> QED
    BY <1>2, <1>3 DEF RunInv

LEMMA ConstructInv == RunInv /\ Construct => RunInv'
  <1> SUFFICES ASSUME RunInv, Construct PROVE RunInv'
    OBVIOUS
  <1>1. /\ UNCHANGED <<history, client_nodes, config, sessions, up>>
        /\ \/ pc' = "run" /\ session' = Hosts("N1")
           \/ pc' = "died"
    BY DEF Construct, labVars
  <1>2. RunTyped' /\ LastConnect' /\ NeverRerouted'
    BY <1>1, SilentStep
  <1>3. \A m : Hosts(m)' = Hosts(m)
    BY <1>1 DEF Hosts
  <1>4. Quiet' /\ SessionsFit'
    BY <1>1, <1>3 DEF RunInv, Quiet, SessionsFit
  <1> QED
    BY <1>2, <1>4 DEF RunInv

LEMMA EndInv == RunInv /\ (Finish \/ Close) => RunInv'
  <1> SUFFICES ASSUME RunInv, Finish \/ Close PROVE RunInv'
    OBVIOUS
  <1>1. /\ UNCHANGED <<history, client_nodes, config, up>>
        /\ pc' \in {"close", "ended"}
        /\ sessions' = sessions \/ sessions' = << >>
    BY DEF Finish, Close, labVars
  <1>2. RunTyped' /\ LastConnect' /\ NeverRerouted'
    BY <1>1, SilentStep
  <1>3. \A m : Hosts(m)' = Hosts(m)
    BY <1>1 DEF Hosts
  <1>4. Quiet' /\ SessionsFit'
    BY <1>1, <1>3 DEF RunInv, Quiet, SessionsFit
  <1> QED
    BY <1>2, <1>4 DEF RunInv

LEMMA ConnectInv == RunInv /\ Connect => RunInv'
  <1> SUFFICES ASSUME RunInv, NEW c \in Client, NEW m \in Names, Step,
                      UNCHANGED <<session, sessions, labVars>>,
                      client_nodes' = [x \in DOMAIN client_nodes \union {c} |->
                                          IF x = c THEN m ELSE client_nodes[x]],
                      Observe("connect", "ok", c, m, m, Absent)
               PROVE  RunInv'
    BY DEF Connect
  <1> DEFINE n == Len(history)
             e == [op |-> "connect", status |-> "ok", client |-> c,
                   given |-> m, node |-> m, coordinator |-> Absent]
  <1>1. history' = Append(history, e) /\ UNCHANGED <<pc, config, up>> /\ pc = "run"
    BY DEF Observe, Step, labVars
  <1>2. e \in Entry /\ e.op = "connect" /\ e.client = c /\ e.given = m
    BY DEF Entry
  <1> HIDE DEF e
  <1>3. /\ n \in Nat /\ history'[n + 1] = e /\ Len(history') = n + 1
        /\ history' \in Seq(Entry) /\ DOMAIN history = 1 .. n
        /\ DOMAIN history' = 1 .. (n + 1)
        /\ \A j \in 1 .. n : history'[j] = history[j]
    BY <1>1, <1>2 DEF RunInv, RunTyped
  <1>4. RunTyped' /\ Quiet'
    BY <1>1, <1>3 DEF RunInv, RunTyped, Quiet
  <1>5. SessionsFit'
    <2>1. \A x : Hosts(x)' = Hosts(x)
      BY <1>1 DEF Hosts
    <2> QED
      BY <1>1, <2>1 DEF RunInv, SessionsFit
  <1>6. ASSUME NEW d \in Client
        PROVE  /\ d \notin DOMAIN client_nodes' => ConnectsOf(d)' = {}
               /\ d \in DOMAIN client_nodes' =>
                     \E j \in ConnectsOf(d)' : /\ \A k \in ConnectsOf(d)' : k <= j
                                              /\ history'[j].given = client_nodes'[d]
    <2>1. CASE d = c
      <3>1. n + 1 \in ConnectsOf(d)'
        BY <1>2, <1>3, <2>1 DEF ConnectsOf
      <3>2. \A k \in ConnectsOf(d)' : k <= n + 1
        BY <1>3 DEF ConnectsOf
      <3>3. d \in DOMAIN client_nodes' /\ client_nodes'[d] = m
        BY <2>1
      <3> QED
        BY <1>2, <1>3, <3>1, <3>2, <3>3
    <2>2. CASE d # c
      <3>1. ConnectsOf(d)' = ConnectsOf(d)
        BY <1>2, <1>3, <2>2 DEF ConnectsOf
      <3>2. \A j \in ConnectsOf(d) : history'[j] = history[j]
        BY <1>3 DEF ConnectsOf
      <3>3. /\ d \in DOMAIN client_nodes' <=> d \in DOMAIN client_nodes
            /\ d \in DOMAIN client_nodes => client_nodes'[d] = client_nodes[d]
        BY <2>2
      <3> QED
        BY <3>1, <3>2, <3>3 DEF RunInv, LastConnect
    <2> QED
      BY <2>1, <2>2
  <1>7. LastConnect'
    BY <1>6 DEF LastConnect
  <1>8. ASSUME NEW i \in DOMAIN history',
               history'[i].op = "request", history'[i].status = "ok"
        PROVE  /\ Served(Requested(i))'
               /\ (history[i].coordinator \in Hosts(Requested(i)))'
    <2>1. i \in 1 .. n
      BY <1>2, <1>3, <1>8
    <2>2. Requested(i)' = Requested(i) /\ history'[i] = history[i]
      BY <1>1, <1>2, <1>3, <2>1, RequestedStable DEF RunInv
    <2>3. Served(Requested(i)) /\ history[i].coordinator \in Hosts(Requested(i))
      BY <1>3, <1>8, <2>1, <2>2 DEF RunInv, NeverRerouted
    <2>4. /\ Served(Requested(i))' <=> Served(Requested(i))
          /\ Hosts(Requested(i))' = Hosts(Requested(i))
      BY <1>1, <2>2 DEF Served, Hosts
    <2> QED
      BY <2>2, <2>3, <2>4
  <1>9. NeverRerouted'
    BY <1>8 DEF NeverRerouted
  <1> QED
    BY <1>4, <1>5, <1>7, <1>9 DEF RunInv

(* A request, through a session that was kept or is new, or through none.    *)
LEMMA RequestEntry ==
  ASSUME RunInv, ReadOrWrite
  PROVE  \E e \in Entry :
            /\ history' = Append(history, e) /\ e.op = "request" /\ e.client \in Client
            /\ e.status = "ok" => /\ Served(TheNode(e.client, e.given))
                                  /\ e.coordinator \in Hosts(TheNode(e.client, e.given))
  <1>1. PICK c \in Client, given \in Names \union {Absent} :
           \E n : /\ n = TheNode(c, given)
                 /\ \/ Observe("request", "error", c, given, n, Absent)
                    \/ /\ Served(n) /\ HasSession(n)
                       /\ Request("request", c, given, n, SessionOf(n))
                    \/ /\ Served(n) /\ Request("request", c, given, n, Hosts(n))
    BY ZenonT(40) DEF ReadOrWrite
  <1> DEFINE n == TheNode(c, given)
  <1>2. HasSession(n) => SessionOf(n) = Hosts(n)
    BY DEF ReadOrWrite, Step, RunInv, SessionsFit, HasSession, SessionOf
  <1>3. PICK status, coordinator :
          /\ Observe("request", status, c, given, n, coordinator)
          /\ \/ status = "error" /\ coordinator = Absent
             \/ /\ status = "ok" /\ Served(n)
                /\ coordinator \in Hosts(n) /\ coordinator \in up
    BY <1>1, <1>2 DEF Request
  <1> DEFINE e == [op |-> "request", status |-> status, client |-> c,
                   given |-> given, node |-> n, coordinator |-> coordinator]
  <1>4. history' = Append(history, e)
    BY <1>3 DEF Observe
  <1>5. n \in Names \union {Absent}
    <2>1. c \in DOMAIN client_nodes => client_nodes[c] \in Names \union {Absent}
      <3>1. \A j \in ConnectsOf(c) : history[j] \in Entry
        BY DEF ConnectsOf, RunInv, RunTyped
      <3> QED
        BY <3>1 DEF RunInv, LastConnect, Entry
    <2> QED
      BY <2>1, ExecutorAssumption DEF TheNode, Names
  <1>6. e \in Entry
    <2>1. status \in {"ok", "error"} /\ coordinator \in Known \union {Absent}
      BY <1>3 DEF RunInv, RunTyped
    <2> QED
      BY <1>5, <2>1 DEF Entry
  <1>7. /\ e.op = "request" /\ e.client \in Client
        /\ e.status = "ok" => /\ Served(TheNode(e.client, e.given))
                              /\ e.coordinator \in Hosts(TheNode(e.client, e.given))
    BY <1>3
  <1> HIDE DEF e
  <1> QED
    BY <1>4, <1>6, <1>7

LEMMA RequestInv == RunInv /\ ReadOrWrite => RunInv'
  <1> SUFFICES ASSUME RunInv, ReadOrWrite PROVE RunInv'
    OBVIOUS
  <1>1. UNCHANGED <<pc, config, client_nodes, session, up>> /\ pc = "run"
    BY DEF ReadOrWrite, Step, labVars
  <1>2. \A x : Hosts(x)' = Hosts(x)
    BY <1>1 DEF Hosts
  <1>3. SessionsFit'
    <2>1. \/ UNCHANGED sessions
          \/ \E n : sessions' = [x \in DOMAIN sessions \union {n} |->
                                  IF x = n THEN Hosts(n) ELSE sessions[x]]
      BY DEF ReadOrWrite
    <2> QED
      BY <1>1, <1>2, <2>1 DEF SessionsFit, RunInv
  <1>4. LastConnect' /\ NeverRerouted' /\ history' \in Seq(Entry)
    <2>1. PICK e \in Entry :
            /\ history' = Append(history, e) /\ e.op = "request" /\ e.client \in Client
            /\ e.status = "ok" => /\ Served(TheNode(e.client, e.given))
                                  /\ e.coordinator \in Hosts(TheNode(e.client, e.given))
      BY RequestEntry
    <2> QED
      BY <1>1, <2>1, AppendStep
  <1>5. RunTyped' /\ Quiet'
    BY <1>1, <1>4 DEF RunInv, RunTyped, Quiet
  <1> QED
    BY <1>3, <1>4, <1>5 DEF RunInv

LEMMA UnsupportedInv == RunInv /\ Unsupported => RunInv'
  <1> SUFFICES ASSUME RunInv, Unsupported PROVE RunInv'
    OBVIOUS
  <1> DEFINE e == [op |-> "audit_order", status |-> "unsupported", client |-> Absent,
                   given |-> Absent, node |-> Absent, coordinator |-> Absent]
  <1>1. /\ UNCHANGED <<pc, config, client_nodes, session, sessions, up>> /\ pc = "run"
        /\ history' = Append(history, e)
    BY DEF Unsupported, Step, Observe, labVars
  <1>2. e \in Entry /\ e.op = "audit_order"
    BY DEF Entry
  <1> HIDE DEF e
  <1>3. LastConnect' /\ NeverRerouted' /\ history' \in Seq(Entry)
    BY <1>1, <1>2, AppendStep
  <1>4. \A x : Hosts(x)' = Hosts(x)
    BY <1>1 DEF Hosts
  <1>5. RunTyped' /\ Quiet' /\ SessionsFit'
    BY <1>1, <1>3, <1>4 DEF RunInv, RunTyped, Quiet, SessionsFit
  <1> QED
    BY <1>3, <1>5 DEF RunInv

LEMMA ControlInv == RunInv /\ Control => RunInv'
  <1> SUFFICES ASSUME RunInv, Control PROVE RunInv'
    OBVIOUS
  <1>1. UNCHANGED <<pc, config, client_nodes, session, sessions>> /\ pc = "run"
    BY DEF Control, Step
  <1>2. PICK op \in {"partition", "heal", "stop", "start"}, m \in Names \union {Absent},
             status \in {"skipped", "error", "ok"} :
          /\ Observe(op, status, Absent, m, m, Absent)
          /\ up' \subseteq Known
    <2> SUFFICES ASSUME NEW op \in {"partition", "heal", "stop", "start"},
                        NEW m \in Names \union {Absent},
                        CASE ~docker ->
                               /\ Observe(op, "skipped", Absent, m, m, Absent)
                               /\ UNCHANGED labVars
                          [] docker /\ m \notin Known ->
                               /\ Observe(op, "error", Absent, m, m, Absent)
                               /\ UNCHANGED labVars
                          [] OTHER ->
                               \E returncode \in {0, 1} :
                                  /\ \/ Possible(op, m) /\ Effect(op, m)
                                     \/ returncode = 1 /\ UNCHANGED labVars
                                  /\ Observe(op, ControlStatus(returncode), Absent, m, m, Absent)
                 PROVE  \E status \in {"skipped", "error", "ok"} :
                           /\ Observe(op, status, Absent, m, m, Absent)
                           /\ up' \subseteq Known
      BY Zenon DEF Control
    <2>1. up \subseteq Known
      BY DEF RunInv, RunTyped
    <2>2. CASE ~docker
      BY <2>1, <2>2 DEF labVars
    <2>3. CASE docker /\ m \notin Known
      BY <2>1, <2>3 DEF labVars
    <2>4. CASE docker /\ m \in Known
      <3>1. PICK returncode \in {0, 1} :
              /\ \/ Effect(op, m)
                 \/ UNCHANGED labVars
              /\ Observe(op, ControlStatus(returncode), Absent, m, m, Absent)
        BY <2>4
      <3>2. up' \subseteq Known
        BY <2>1, <2>4, <3>1 DEF Effect, labVars
      <3>3. ControlStatus(returncode) \in {"error", "ok"}
        BY DEF ControlStatus
      <3> QED
        BY <3>1, <3>2, <3>3
    <2> QED
      BY <2>2, <2>3, <2>4
  <1> DEFINE e == [op |-> op, status |-> status, client |-> Absent,
                   given |-> m, node |-> m, coordinator |-> Absent]
  <1>3. history' = Append(history, e)
    BY <1>2 DEF Observe
  <1>4. e \in Entry /\ e.op = op
    BY DEF Entry
  <1> HIDE DEF e
  <1>5. LastConnect' /\ NeverRerouted' /\ history' \in Seq(Entry)
    BY <1>1, <1>3, <1>4, AppendStep
  <1>6. \A x : Hosts(x)' = Hosts(x)
    BY <1>1 DEF Hosts
  <1>7. RunTyped' /\ Quiet' /\ SessionsFit'
    BY <1>1, <1>2, <1>5, <1>6 DEF RunInv, RunTyped, Quiet, SessionsFit
  <1> QED
    BY <1>5, <1>7 DEF RunInv

-----------------------------------------------------------------------------
LEMMA NextInv == RunInv /\ [Next]_vars => RunInv'
  <1> SUFFICES ASSUME RunInv, [Next]_vars PROVE RunInv'
    OBVIOUS
  <1>1. CASE UNCHANGED vars
    <2>1. UNCHANGED <<history, client_nodes, config, up, pc, session, sessions>>
      BY <1>1 DEF vars, labVars
    <2>2. RunTyped' /\ LastConnect' /\ NeverRerouted'
      BY <2>1, SilentStep
    <2>3. \A x : Hosts(x)' = Hosts(x)
      BY <2>1 DEF Hosts
    <2>4. Quiet' /\ SessionsFit'
      BY <2>1, <2>3 DEF RunInv, Quiet, SessionsFit
    <2> QED
      BY <2>2, <2>4 DEF RunInv
  <1> QED
    BY <1>1, StartInv, ConstructInv, ConnectInv, RequestInv, UnsupportedInv,
       ControlInv, EndInv DEF Next

(* Every successful request is coordinated by a host of the node its         *)
(* trajectory asks for, although clients move and sessions are kept          *)
(* (_session_for_step and _node of cassandra_executor.py).                   *)
THEOREM NeverReroutedHolds == Spec => []NeverRerouted
  <1>1. RunInv => NeverRerouted
    BY DEF RunInv
  <1> QED
    BY <1>1, InitInv, NextInv, PTL DEF Spec

-----------------------------------------------------------------------------
(* A node whose controls all reported ok is as they left it.                 *)
IsAsTold(n) ==
    (\A i \in ControlsOf(n, {"partition", "stop", "start"}) : history[i].status = "ok") =>
       /\ \A i \in DOMAIN history : IsLatest(i, n, {"stop", "start"}) =>
             (n \in up <=> history[i].op = "start")
       /\ n \in isolated =>
             \E i \in DOMAIN history :
                IsLatest(i, n, {"partition", "stop"}) /\ history[i].op = "partition"
       /\ \A i \in DOMAIN history :
             IsLatest(i, n, {"partition", "stop"}) /\ history[i].op = "partition" =>
                n \in isolated \/ \E j \in ControlsOf(n, {"heal"}) : j > i

AsTold == \A n \in Known : IsAsTold(n)

(* What a step that reports e may do to a node.                              *)
MayDo(e, n) ==
    \/ /\ e.op \in {"partition", "stop", "start"} /\ e.node = n /\ e.status # "ok"
    \/ /\ e.op = "stop" /\ e.node = n /\ n \notin up' /\ n \notin isolated'
    \/ /\ e.op = "start" /\ e.node = n /\ n \in up' /\ (n \in isolated' <=> n \in isolated)
    \/ /\ e.op = "partition" /\ e.node = n /\ (n \in up' <=> n \in up) /\ n \in isolated'
    \/ /\ e.op = "heal" /\ e.node = n /\ (n \in up' <=> n \in up)
       /\ n \in isolated' => n \in isolated
    \/ /\ ~(e.op \in {"partition", "stop", "start"} /\ e.node = n)
       /\ n \in up' <=> n \in up
       /\ n \in isolated' <=> n \in isolated

(* The controls of a node after a step that reports e.                       *)
LEMMA ControlsAfter ==
  ASSUME RunTyped, NEW e \in Entry, history' = Append(history, e), NEW n, NEW ops,
         NEW l, l = Len(history)
  PROVE  /\ l \in Nat /\ DOMAIN history = 1 .. l /\ DOMAIN history' = 1 .. (l + 1)
         /\ history'[l + 1] = e /\ \A j \in 1 .. l : history'[j] = history[j]
         /\ ControlsOf(n, ops) \subseteq 1 .. l
         /\ ControlsOf(n, ops)' = IF e.op \in ops /\ e.node = n
                                    THEN ControlsOf(n, ops) \union {l + 1}
                                    ELSE ControlsOf(n, ops)
  <1>1. /\ l \in Nat /\ DOMAIN history = 1 .. l /\ DOMAIN history' = 1 .. (l + 1)
        /\ history'[l + 1] = e /\ \A j \in 1 .. l : history'[j] = history[j]
    BY DEF RunTyped
  <1> QED
    BY <1>1 DEF ControlsOf

(* The latest of some controls after the step: the step, or what it was.     *)
LEMMA LatestAfter ==
  ASSUME RunTyped, NEW e \in Entry, history' = Append(history, e), NEW n, NEW ops,
         NEW l, l = Len(history)
  PROVE  \A i : IF e.op \in ops /\ e.node = n
                 THEN IsLatest(i, n, ops)' <=> i = l + 1
                 ELSE IsLatest(i, n, ops)' <=> IsLatest(i, n, ops)
  <1>1. /\ l \in Nat /\ ControlsOf(n, ops) \subseteq 1 .. l
        /\ ControlsOf(n, ops)' = IF e.op \in ops /\ e.node = n
                                   THEN ControlsOf(n, ops) \union {l + 1}
                                   ELSE ControlsOf(n, ops)
    BY ControlsAfter
  <1> QED
    BY <1>1 DEF IsLatest

LEMMA ToldStep ==
  ASSUME RunTyped, NEW e \in Entry, history' = Append(history, e),
         NEW n \in Known, MayDo(e, n), IsAsTold(n)
  PROVE  IsAsTold(n)'
  <1> PICK l : l = Len(history)
    OBVIOUS
  <1> DEFINE All == {"partition", "stop", "start"}
             Power == {"stop", "start"}
             Cut == {"partition", "stop"}
  <1>1. /\ l \in Nat /\ DOMAIN history = 1 .. l /\ DOMAIN history' = 1 .. (l + 1)
        /\ history'[l + 1] = e /\ \A j \in 1 .. l : history'[j] = history[j]
    BY ControlsAfter
  <1>2. \A i : IF e.op \in Power /\ e.node = n
                 THEN IsLatest(i, n, Power)' <=> i = l + 1
                 ELSE IsLatest(i, n, Power)' <=> IsLatest(i, n, Power)
    BY LatestAfter
  <1>3. \A i : IF e.op \in Cut /\ e.node = n
                 THEN IsLatest(i, n, Cut)' <=> i = l + 1
                 ELSE IsLatest(i, n, Cut)' <=> IsLatest(i, n, Cut)
    BY LatestAfter
  <1>0. ASSUME NEW ops
        PROVE  /\ ControlsOf(n, ops) \subseteq 1 .. l
               /\ ControlsOf(n, ops)' = IF e.op \in ops /\ e.node = n
                                          THEN ControlsOf(n, ops) \union {l + 1}
                                          ELSE ControlsOf(n, ops)
    BY <1>1 DEF ControlsOf
  <1>4. /\ ControlsOf(n, All) \subseteq 1 .. l
        /\ ControlsOf(n, All)' = IF e.op \in All /\ e.node = n
                                   THEN ControlsOf(n, All) \union {l + 1}
                                   ELSE ControlsOf(n, All)
    BY <1>0
  <1>5. /\ ControlsOf(n, {"heal"}) \subseteq 1 .. l
        /\ ControlsOf(n, {"heal"})' = IF e.op \in {"heal"} /\ e.node = n
                                   THEN ControlsOf(n, {"heal"}) \union {l + 1}
                                   ELSE ControlsOf(n, {"heal"})
    BY <1>0
  <1> SUFFICES ASSUME \A i \in ControlsOf(n, All)' : history'[i].status = "ok"
               PROVE  /\ \A i \in DOMAIN history' : IsLatest(i, n, Power)' =>
                            (n \in up' <=> history'[i].op = "start")
                      /\ n \in isolated' =>
                            \E i \in DOMAIN history' :
                               IsLatest(i, n, Cut)' /\ history'[i].op = "partition"
                      /\ \A i \in DOMAIN history' :
                            IsLatest(i, n, Cut)' /\ history'[i].op = "partition" =>
                               n \in isolated' \/ \E j \in ControlsOf(n, {"heal"})' : j > i
    BY Zenon DEF IsAsTold
  <1>6. \A i \in ControlsOf(n, All) : history[i].status = "ok"
    BY <1>1, <1>4
  <1>7. e.op \in All /\ e.node = n => e.status = "ok"
    BY <1>1, <1>4
  <1>8. /\ \A i \in DOMAIN history : IsLatest(i, n, Power) => (n \in up <=> history[i].op = "start")
        /\ n \in isolated =>
              \E i \in DOMAIN history : IsLatest(i, n, Cut) /\ history[i].op = "partition"
        /\ \A i \in DOMAIN history :
              IsLatest(i, n, Cut) /\ history[i].op = "partition" =>
                 n \in isolated \/ \E j \in ControlsOf(n, {"heal"}) : j > i
    BY <1>6, Zenon DEF IsAsTold
  <1>9. \A i, ops : IsLatest(i, n, ops) => i \in DOMAIN history
    BY DEF IsLatest, ControlsOf
  <1>10. \A j \in 1 .. l : l + 1 > j
    BY <1>1
  <1>11. CASE e.op = "stop" /\ e.node = n
    BY <1>1, <1>2, <1>3, <1>7, <1>11 DEF MayDo
  <1>12. CASE e.op = "start" /\ e.node = n
    BY <1>1, <1>2, <1>3, <1>5, <1>7, <1>8, <1>9, <1>12 DEF MayDo
  <1>13. CASE e.op = "partition" /\ e.node = n
    BY <1>1, <1>2, <1>3, <1>7, <1>8, <1>9, <1>13 DEF MayDo
  <1>14. CASE e.op = "heal" /\ e.node = n
    <2>1. (n \in up' <=> n \in up) /\ (n \in isolated' => n \in isolated)
      BY <1>14 DEF MayDo
    <2>2. \A i : /\ IsLatest(i, n, Power)' <=> IsLatest(i, n, Power)
                 /\ IsLatest(i, n, Cut)' <=> IsLatest(i, n, Cut)
      BY <1>2, <1>3, <1>14
    <2>3. l + 1 \in ControlsOf(n, {"heal"})'
      BY <1>5, <1>14
    <2> QED
      BY <1>1, <1>8, <1>9, <1>10, <2>1, <2>2, <2>3
  <1>15. CASE ~(e.op \in {"partition", "stop", "start", "heal"} /\ e.node = n)
    <2>1. (n \in up' <=> n \in up) /\ (n \in isolated' <=> n \in isolated)
      BY <1>15 DEF MayDo
    <2>2. \A i : /\ IsLatest(i, n, Power)' <=> IsLatest(i, n, Power)
                 /\ IsLatest(i, n, Cut)' <=> IsLatest(i, n, Cut)
      BY <1>2, <1>3, <1>15
    <2>3. ControlsOf(n, {"heal"})' = ControlsOf(n, {"heal"})
      BY <1>5, <1>15
    <2> QED
      BY <1>1, <1>8, <1>9, <2>1, <2>2, <2>3
  <1> QED
    BY <1>11, <1>12, <1>13, <1>14, <1>15

LEMMA ToldKept ==
  ASSUME AsTold, UNCHANGED <<history, labVars>>
  PROVE  AsTold'
  <1>1. history' = history /\ up' = up /\ isolated' = isolated
    BY DEF labVars
  <1>2. \A n, ops : ControlsOf(n, ops)' = ControlsOf(n, ops)
    BY <1>1 DEF ControlsOf
  <1>3. \A i, n, ops : IsLatest(i, n, ops)' <=> IsLatest(i, n, ops)
    BY <1>2 DEF IsLatest
  <1> QED
    BY <1>1, <1>2, <1>3 DEF AsTold, IsAsTold

(* A step that is no control leaves the lab alone.                           *)
LEMMA ToldAppend ==
  ASSUME RunTyped, AsTold, NEW e \in Entry, history' = Append(history, e),
         e.op \in {"connect", "request", "audit_order"}, UNCHANGED labVars
  PROVE  AsTold'
  <1>1. \A n \in Known : MayDo(e, n)
    BY DEF MayDo, labVars
  <1>2. \A n \in Known : IsAsTold(n)'
    BY <1>1, ToldStep DEF AsTold
  <1> QED
    BY <1>2 DEF AsTold

LEMMA ControlTold == RunTyped /\ AsTold /\ Control => AsTold'
  <1> SUFFICES ASSUME RunTyped, AsTold,
                      NEW op \in {"partition", "heal", "stop", "start"},
                      NEW m \in Names \union {Absent},
                      CASE ~docker ->
                             /\ Observe(op, "skipped", Absent, m, m, Absent)
                             /\ UNCHANGED labVars
                        [] docker /\ m \notin Known ->
                             /\ Observe(op, "error", Absent, m, m, Absent)
                             /\ UNCHANGED labVars
                        [] OTHER ->
                             \E returncode \in {0, 1} :
                                /\ \/ Possible(op, m) /\ Effect(op, m)
                                   \/ returncode = 1 /\ UNCHANGED labVars
                                /\ Observe(op, ControlStatus(returncode), Absent, m, m, Absent)
               PROVE  AsTold'
    BY Zenon DEF Control
  <1> DEFINE e(status) == [op |-> op, status |-> status, client |-> Absent,
                           given |-> m, node |-> m, coordinator |-> Absent]
  <1>1. PICK status \in {"skipped", "error", "ok"} :
          /\ Observe(op, status, Absent, m, m, Absent)
          /\ Effect(op, m) \/ (status # "ok" /\ UNCHANGED labVars)
    <2>1. CASE ~docker
      BY <2>1
    <2>2. CASE docker /\ m \notin Known
      BY <2>2
    <2>3. CASE docker /\ m \in Known
      <3>1. PICK returncode \in {0, 1} :
              /\ \/ Possible(op, m) /\ Effect(op, m)
                 \/ returncode = 1 /\ UNCHANGED labVars
              /\ Observe(op, ControlStatus(returncode), Absent, m, m, Absent)
        BY <2>3
      <3> QED
        BY <3>1 DEF ControlStatus
    <2> QED
      BY <2>1, <2>2, <2>3
  <1>2. history' = Append(history, e(status)) /\ e(status) \in Entry
    BY <1>1 DEF Observe, Entry
  <1>3. e(status).op = op /\ e(status).node = m /\ e(status).status = status
    OBVIOUS
  <1>4. ASSUME NEW n \in Known PROVE MayDo(e(status), n)
    <2>1. CASE UNCHANGED labVars /\ status # "ok"
      BY <1>3, <2>1 DEF MayDo, labVars
    <2>2. CASE Effect(op, m)
      <3> HIDE DEF e
      <3>1. CASE op = "stop"
        BY <1>3, <2>2, <3>1 DEF MayDo, Effect
      <3>2. CASE op = "start"
        BY <1>3, <2>2, <3>2 DEF MayDo, Effect
      <3>3. CASE op = "partition"
        BY <1>3, <2>2, <3>3 DEF MayDo, Effect
      <3>4. CASE op = "heal"
        BY <1>3, <2>2, <3>4 DEF MayDo, Effect
      <3> QED
        BY <3>1, <3>2, <3>3, <3>4
    <2> QED
      BY <1>1, <2>1, <2>2
  <1> HIDE DEF e
  <1>5. \A n \in Known : IsAsTold(n)'
    BY <1>2, <1>4, ToldStep DEF AsTold
  <1> QED
    BY <1>5 DEF AsTold

LEMMA ToldNext == RunInv /\ AsTold /\ [Next]_vars => AsTold'
  <1> SUFFICES ASSUME RunInv, AsTold, [Next]_vars PROVE AsTold'
    OBVIOUS
  <1>0. RunTyped
    BY DEF RunInv
  <1>1. CASE UNCHANGED <<history, labVars>>
    BY <1>1, ToldKept
  <1>2. CASE Connect
    <2>1. PICK c \in Client, m \in Names : Observe("connect", "ok", c, m, m, Absent)
      BY <1>2 DEF Connect
    <2> DEFINE e == [op |-> "connect", status |-> "ok", client |-> c,
                     given |-> m, node |-> m, coordinator |-> Absent]
    <2>2. history' = Append(history, e) /\ e \in Entry /\ e.op = "connect"
      BY <2>1 DEF Observe, Entry
    <2> HIDE DEF e
    <2> QED
      BY <1>0, <1>2, <2>2, ToldAppend DEF Connect
  <1>3. CASE ReadOrWrite
    <2>1. PICK e \in Entry : history' = Append(history, e) /\ e.op = "request"
      BY <1>3, RequestEntry
    <2>2. UNCHANGED labVars
      BY <1>3 DEF ReadOrWrite
    <2> QED
      BY <1>0, <2>1, <2>2, ToldAppend
  <1>4. CASE Unsupported
    <2> DEFINE e == [op |-> "audit_order", status |-> "unsupported", client |-> Absent,
                     given |-> Absent, node |-> Absent, coordinator |-> Absent]
    <2>1. history' = Append(history, e) /\ e \in Entry /\ e.op = "audit_order"
      BY <1>4 DEF Unsupported, Observe, Entry
    <2> HIDE DEF e
    <2> QED
      BY <1>0, <1>4, <2>1, ToldAppend DEF Unsupported
  <1>5. CASE Control
    BY <1>0, <1>5, ControlTold
  <1>6. CASE Start \/ Construct \/ Finish \/ Close \/ UNCHANGED vars
    <2>1. UNCHANGED <<history, labVars>>
      BY <1>6 DEF Start, Construct, Finish, Close, vars
    <2> QED
      BY <2>1, <1>1
  <1> QED
    BY <1>2, <1>3, <1>4, <1>5, <1>6 DEF Next

-----------------------------------------------------------------------------
LEMMA ToldInit == Init => AsTold
  <1> SUFFICES ASSUME Init PROVE AsTold
    OBVIOUS
  <1>1. DOMAIN history = {} /\ isolated = {}
    BY DEF Init
  <1> QED
    BY <1>1 DEF AsTold, IsAsTold

LEMMA ToldIsEffect == AsTold => ControlsTookEffect
  BY Zenon DEF AsTold, IsAsTold, ControlsTookEffect

(* Unless a control was reported as failed or skipped, a node runs as its    *)
(* last stop or start says, and is isolated only after a partition since     *)
(* which it was not stopped, unless it was healed (apply of                  *)
(* DockerFailureController, failure_control.py).                             *)
THEOREM ControlsHold == Spec => []ControlsTookEffect
  <1>1. Init => RunInv /\ AsTold
    BY InitInv, ToldInit
  <1>2. (RunInv /\ AsTold) /\ [Next]_vars => (RunInv /\ AsTold)'
    BY NextInv, ToldNext
  <1>3. RunInv /\ AsTold => ControlsTookEffect
    BY ToldIsEffect
  <1> QED
    BY <1>1, <1>2, <1>3, PTL DEF Spec
=============================================================================
