--------------------------- MODULE Firewall_proofs ---------------------------
(***************************************************************************)
(* An isolated node drops, and the container's own rules stay untouched,   *)
(* for every set of own rules and any number of failures.                  *)
(***************************************************************************)
EXTENDS Firewall, SequenceTheorems, TLAPS

(* A hook in front of hooks and own rules.                                   *)
LEMMA InsertKeeps ==
    ASSUME NEW s \in Seq(Rule), NEW own \in Seq(OwnRule), HooksThenOthers(s, own)
    PROVE  /\ <<Hook>> \o s \in Seq(Rule)
           /\ HooksThenOthers(<<Hook>> \o s, own)
<1> DEFINE t == <<Hook>> \o s
<1>1. PICK k \in 0 .. Len(s) :
         /\ Len(s) = k + Len(own)
         /\ \A j \in 1 .. k : s[j] = Hook
         /\ \A j \in 1 .. Len(own) : s[k + j] = own[j]
  BY DEF HooksThenOthers
<1>2. t \in Seq(Rule) /\ Len(t) = Len(s) + 1 /\ t[1] = Hook
  <2>1. Hook \in Rule
    BY DEF Rule
  <2>2. <<Hook>> \in Seq(Rule) /\ Len(<<Hook>>) = 1 /\ <<Hook>>[1] = Hook
    BY <2>1
  <2> QED
    BY <2>2
<1>3. \A j \in 1 .. Len(s) : t[j + 1] = s[j]
  OBVIOUS
<1>4. \A j \in 1 .. (k + 1) : t[j] = Hook
  <2> TAKE j \in 1 .. (k + 1)
  <2>1. CASE j = 1
    BY <1>2, <2>1
  <2>2. CASE j # 1
    <3>1. j - 1 \in 1 .. k /\ j - 1 \in 1 .. Len(s) /\ (j - 1) + 1 = j
      BY <1>1, <2>2
    <3> QED
      BY <1>1, <1>3, <3>1
  <2> QED
    BY <2>1, <2>2
<1>5. \A j \in 1 .. Len(own) : t[(k + 1) + j] = own[j]
  <2> TAKE j \in 1 .. Len(own)
  <2>1. k + j \in 1 .. Len(s) /\ (k + j) + 1 = (k + 1) + j
    BY <1>1
  <2> QED
    BY <1>1, <1>3, <2>1
<1>6. k + 1 \in 0 .. Len(t) /\ Len(t) = (k + 1) + Len(own)
  BY <1>1, <1>2
<1> QED
  BY <1>2, <1>4, <1>5, <1>6 DEF HooksThenOthers

(* With hooks and own rules, a rule of ours is the first one.                *)
LEMMA HookIsFirst ==
    ASSUME NEW s \in Seq(Rule), NEW own \in Seq(OwnRule),
           HooksThenOthers(s, own), Contains(s, Hook)
    PROVE  s # <<>> /\ s[1] = Hook
<1>1. PICK k \in 0 .. Len(s) :
         /\ Len(s) = k + Len(own)
         /\ \A j \in 1 .. k : s[j] = Hook
         /\ \A j \in 1 .. Len(own) : s[k + j] = own[j]
  BY DEF HooksThenOthers
<1>2. PICK i \in 1 .. Len(s) : s[i] = Hook
  BY DEF Contains
<1>3. i <= k
  <2> SUFFICES ASSUME ~(i <= k) PROVE FALSE
    OBVIOUS
  <2>1. i - k \in 1 .. Len(own) /\ k + (i - k) = i
    BY <1>1
  <2>2. own[i - k] = Hook
    BY <1>1, <1>2, <2>1
  <2> QED
    BY <2>1, <2>2, HookAssumption
<1>4. 1 \in 1 .. k /\ Len(s) > 0
  BY <1>2, <1>3
<1> QED
  BY <1>1, <1>4

(* -D removes the first rule of ours, which is the first rule.               *)
LEMMA DeleteIsTail ==
    ASSUME NEW s \in Seq(Rule), NEW own \in Seq(OwnRule),
           HooksThenOthers(s, own), Contains(s, Hook)
    PROVE  RemoveFirst(s, Hook) = Tail(s)
<1>1. s # <<>> /\ s[1] = Hook
  BY HookIsFirst
<1> DEFINE I == {i \in 1 .. Len(s) : s[i] = Hook}
<1>2. 1 \in I /\ \A i \in I : i \in Nat /\ 1 <= i
  BY <1>1
<1>3. Min(I) = 1
  BY <1>2 DEF Min
<1>4. RemoveFirst(s, Hook) = RemoveAt(s, 1)
  BY <1>2, <1>3 DEF RemoveFirst, SelectInSeq
<1>5. RemoveAt(s, 1) = SubSeq(s, 1, 0) \o SubSeq(s, 2, Len(s))
  BY DEF RemoveAt
<1>6. SubSeq(s, 1, 0) = <<>> /\ SubSeq(s, 2, Len(s)) = Tail(s)
  BY <1>1
<1> QED
  BY <1>4, <1>5, <1>6

(* Without its first hook, the rest is hooks and own rules.                  *)
LEMMA DeleteKeeps ==
    ASSUME NEW s \in Seq(Rule), NEW own \in Seq(OwnRule),
           HooksThenOthers(s, own), Contains(s, Hook)
    PROVE  /\ RemoveFirst(s, Hook) \in Seq(Rule)
           /\ HooksThenOthers(RemoveFirst(s, Hook), own)
<1> DEFINE t == Tail(s)
<1>1. PICK k \in 0 .. Len(s) :
         /\ Len(s) = k + Len(own)
         /\ \A j \in 1 .. k : s[j] = Hook
         /\ \A j \in 1 .. Len(own) : s[k + j] = own[j]
  BY DEF HooksThenOthers
<1>2. s # <<>> /\ s[1] = Hook
  BY HookIsFirst
<1>3. t \in Seq(Rule) /\ Len(t) = Len(s) - 1
      /\ \A j \in 1 .. Len(t) : t[j] = s[j + 1]
  BY <1>2
<1>4. k >= 1
  <2> SUFFICES ASSUME k = 0 PROVE FALSE
    OBVIOUS
  <2>1. 1 \in 1 .. Len(own) /\ own[1] = s[1]
    BY <1>1, <1>2
  <2> QED
    BY <1>2, <2>1, HookAssumption
<1>5. \A j \in 1 .. (k - 1) : t[j] = Hook
  BY <1>1, <1>3, <1>4
<1>6. \A j \in 1 .. Len(own) : t[(k - 1) + j] = own[j]
  <2> TAKE j \in 1 .. Len(own)
  <2>1. (k - 1) + j \in 1 .. Len(t) /\ ((k - 1) + j) + 1 = k + j
    BY <1>1, <1>3, <1>4
  <2> QED
    BY <1>1, <1>3, <2>1
<1>7. k - 1 \in 0 .. Len(t) /\ Len(t) = (k - 1) + Len(own)
  BY <1>1, <1>3, <1>4
<1>8. HooksThenOthers(t, own)
  BY <1>5, <1>6, <1>7 DEF HooksThenOthers
<1> QED
  BY <1>3, <1>8, DeleteIsTail

-----------------------------------------------------------------------------
(* Appending to the empty chain and to a chain of one rule.                  *)
LEMMA AppendFirst ==
    ASSUME NEW S, NEW v \in S
    PROVE  Append(<<>>, v) = <<v>> /\ <<v>> \in Seq(S)
  OBVIOUS

LEMMA NoRulesYet == <<>> \in Seq(Drop)
  OBVIOUS

LEMMA AppendSecond ==
    ASSUME NEW S, NEW u \in S, NEW v \in S
    PROVE  Append(<<u>>, v) = <<u, v>> /\ <<u, v>> \in Seq(S)
<1>1. Append(<<u>>, v) \in Seq(S) /\ <<u, v>> \in Seq(S)
  OBVIOUS
<1>2. Len(Append(<<u>>, v)) = 2 /\ Len(<<u, v>>) = 2
  OBVIOUS
<1>3. \A i \in 1 .. 2 : Append(<<u>>, v)[i] = <<u, v>>[i]
  OBVIOUS
<1> QED
  BY <1>1, <1>2, <1>3, SeqEqual

-----------------------------------------------------------------------------
LEMMA OwnRules == \A d \in Directions : Others[d] \in Seq(OwnRule)
  BY OthersAssumption

LEMMA InitIInv == Init => IInv
<1> SUFFICES ASSUME Init PROVE IInv
  OBVIOUS
<1>1. rules \in [Directions -> Seq(Rule)]
  BY OthersAssumption DEF Init, Rule
<1>2. OthersUntouched
  <2> SUFFICES ASSUME NEW d \in Directions
               PROVE  HooksThenOthers(rules[d], Others[d])
    BY DEF OthersUntouched
  <2>1. rules[d] = Others[d] /\ Len(Others[d]) \in Nat
    BY OwnRules DEF Init
  <2>2. 0 \in 0 .. Len(rules[d]) /\ Len(rules[d]) = 0 + Len(Others[d])
    BY <2>1
  <2>3. \A j \in 1 .. Len(Others[d]) : rules[d][0 + j] = Others[d][j]
    BY <2>1
  <2> QED
    BY <2>2, <2>3 DEF HooksThenOthers
<1> QED
  BY <1>1, <1>2 DEF Init, IInv, TypeOK, Progress, Lines, Filled

(* Steps that change the rules of one direction.                             *)
LEMMA SetRulesKeeps ==
    ASSUME IInv, NEW d \in Directions, NEW s \in Seq(Rule),
           HooksThenOthers(s, Others[d]), SetRules(d, s)
    PROVE  /\ rules' \in [Directions -> Seq(Rule)]
           /\ OthersUntouched'
<1>1. rules \in [Directions -> Seq(Rule)] /\ rules' = [rules EXCEPT ![d] = s]
  BY DEF IInv, TypeOK, SetRules
<1>2. \A c \in Directions : rules'[c] = IF c = d THEN s ELSE rules[c]
  BY <1>1
<1> QED
  BY <1>1, <1>2 DEF IInv, OthersUntouched

(* Steps that leave the rules of INPUT and OUTPUT.                           *)
LEMMA SameRules ==
    ASSUME IInv, rules' = rules
    PROVE  /\ rules' \in [Directions -> Seq(Rule)]
           /\ OthersUntouched'
           /\ \A d \in Directions : Hooked(d)' = Hooked(d)
  BY DEF IInv, TypeOK, OthersUntouched, Hooked

(* The counters only grow.                                                   *)
LEMMA CountersTyped ==
    ASSUME IInv
    PROVE  /\ Works => (enables' \in Nat /\ lockFailures' \in Nat /\ kills' \in Nat)
           /\ LockFails => (enables' \in Nat /\ lockFailures' \in Nat /\ kills' \in Nat)
  BY DEF IInv, TypeOK, Works, LockFails, counters

(* A script that ends without success leaves the rules in any state.         *)
LEMMA FailIInv ==
    ASSUME IInv, NoChange, Exit("error"), Works \/ LockFails
    PROVE  IInv'
<1>1. TypeOK' /\ OthersUntouched'
  BY SameRules, CountersTyped DEF IInv, TypeOK, NoChange, Exit, Lines
<1> QED
  BY <1>1 DEF IInv, Progress, Exit, Filled

LEMMA CreateIInv == IInv /\ Create => IInv'
<1> SUFFICES ASSUME IInv, Create PROVE IInv'
  OBVIOUS
<1>1. rules' = rules /\ line' = "-F" /\ outcome' = outcome /\ (Works \/ LockFails)
  BY DEF Create, SetChain, NoChange, Goto
<1>2. chain' \in Seq(Drop) \union {NoChain}
  <2>1. chain' \in {chain, <<>>}
    BY DEF Create, SetChain, NoChange
  <2> QED
    BY <2>1, NoRulesYet DEF IInv, TypeOK
<1>3. outcome # "isolated"
  BY DEF Create, IInv, Progress
<1>4. TypeOK' /\ OthersUntouched'
  BY <1>1, <1>2, SameRules, CountersTyped DEF IInv, TypeOK, Lines
<1> QED
  BY <1>1, <1>3, <1>4 DEF IInv, Progress, Filled

(* A command of the first half of the script that changes our chain only.    *)
LEMMA ChainIInv ==
    ASSUME IInv, line # "idle", NEW c \in Seq(Drop) \union {NoChain}, SetChain(c),
           NEW l \in Lines, Goto(l), Works,
           l \in {"-A dports", "-A sports", "-C INPUT", "-X", "-S"},
           l = "-A dports" => c = <<>>,
           l = "-A sports" => c = <<"dports DROP">>,
           l = "-C INPUT" => c = FullChain
    PROVE  IInv'
<1>1. TypeOK' /\ OthersUntouched'
  BY SameRules, CountersTyped DEF IInv, TypeOK, SetChain, Goto
<1>2. outcome # "isolated"
  BY DEF IInv, Progress
<1> QED
  BY <1>1, <1>2 DEF IInv, Progress, SetChain, Goto, Filled

LEMMA FlushIInv == IInv /\ Flush => IInv'
<1> SUFFICES ASSUME IInv, Flush PROVE IInv'
  OBVIOUS
<1>1. CASE Works /\ Exists /\ SetChain(<<>>) /\ Goto("-A dports")
  <2>1. line # "idle" /\ "-A dports" \in Lines /\ <<>> \in Seq(Drop)
    BY NoRulesYet DEF Flush, Command, Lines
  <2> QED
    BY <1>1, <2>1, ChainIInv
<1>2. CASE ((Works /\ ~Exists) \/ LockFails) /\ NoChange /\ Exit("error")
  BY <1>2, FailIInv
<1> QED
  BY <1>1, <1>2 DEF Flush, Command

LEMMA DropToIInv == IInv /\ DropTo => IInv'
<1> SUFFICES ASSUME IInv, DropTo PROVE IInv'
  OBVIOUS
<1>1. CASE /\ Works /\ Exists /\ SetChain(Append(chain, "dports DROP"))
           /\ Goto("-A sports")
  <2>1. line = "-A dports" /\ chain = <<>>
    BY DEF DropTo, Command, IInv, Progress
  <2>2. "dports DROP" \in Drop
    BY DEF Drop
  <2>3. /\ Append(chain, "dports DROP") = <<"dports DROP">>
        /\ <<"dports DROP">> \in Seq(Drop)
    BY <2>1, <2>2, AppendFirst
  <2> QED
    BY <1>1, <2>1, <2>2, <2>3, ChainIInv DEF Lines
<1>2. CASE ((Works /\ ~Exists) \/ LockFails) /\ NoChange /\ Exit("error")
  BY <1>2, FailIInv
<1> QED
  BY <1>1, <1>2 DEF DropTo, Command

LEMMA DropFromIInv == IInv /\ DropFrom => IInv'
<1> SUFFICES ASSUME IInv, DropFrom PROVE IInv'
  OBVIOUS
<1>1. CASE /\ Works /\ Exists /\ SetChain(Append(chain, "sports DROP"))
           /\ Goto("-C INPUT")
  <2>1. line = "-A sports" /\ chain = <<"dports DROP">>
    BY DEF DropFrom, Command, IInv, Progress
  <2>2. "dports DROP" \in Drop /\ "sports DROP" \in Drop
    BY DEF Drop
  <2>3. Append(chain, "sports DROP") = FullChain /\ FullChain \in Seq(Drop)
    BY <2>1, <2>2, AppendSecond DEF FullChain
  <2> QED
    BY <1>1, <2>1, <2>2, <2>3, ChainIInv DEF Lines
<1>2. CASE ((Works /\ ~Exists) \/ LockFails) /\ NoChange /\ Exit("error")
  BY <1>2, FailIInv
<1> QED
  BY <1>1, <1>2 DEF DropFrom, Command

-----------------------------------------------------------------------------
(* A test or a step between lines that changes no rule.                      *)
LEMMA SameIInv ==
    ASSUME IInv, NoChange, NEW l \in Lines, NEW o, line' = l, outcome' = o,
           o \in {"none", "enabling", "isolated", "healing", "healed", "error"},
           Works \/ LockFails,
           l \notin {"-A dports", "-A sports"},
           l \in Filled => line \in Filled,
           l \in {"verify OUTPUT", "-S chain"} => Hooked("INPUT"),
           l = "-S chain" => Hooked("OUTPUT"),
           o = "isolated" => line = "-S chain" /\ l = "idle"
    PROVE  IInv'
<1>1. TypeOK' /\ OthersUntouched'
  BY SameRules, CountersTyped DEF IInv, TypeOK, NoChange
<1>2. chain' = chain /\ \A d \in Directions : Hooked(d)' = Hooked(d)
  BY SameRules DEF NoChange
<1>3. "INPUT" \in Directions /\ "OUTPUT" \in Directions
  BY DEF Directions
<1>4. line \in Filled => chain = FullChain
  BY DEF IInv, Progress
<1>5. line = "-S chain" => line \in Filled /\ Hooked("INPUT") /\ Hooked("OUTPUT")
  BY DEF IInv, Progress, Filled
<1> QED
  BY <1>1, <1>2, <1>3, <1>4, <1>5 DEF IInv, Progress

(* While a script runs, no answer is recorded.                               *)
LEMMA RunningOutcome ==
    ASSUME IInv, line # "idle" PROVE outcome # "isolated"
  BY DEF IInv, Progress
LEMMA CheckInIInv == IInv /\ CheckIn => IInv'
<1> SUFFICES ASSUME IInv, CheckIn PROVE IInv'
  OBVIOUS
<1>1. /\ line # "idle" /\ NoChange /\ outcome' = outcome
      /\ Works \/ LockFails
      /\ line' \in Lines
      /\ line' \in Filled => line \in Filled
      /\ line' \notin {"-A dports", "-A sports", "verify OUTPUT", "-S chain"}
  BY DEF CheckIn, Test, Goto, Lines, Filled
<1> QED
  BY <1>1, RunningOutcome, SameIInv DEF IInv, TypeOK

LEMMA CheckOutIInv == IInv /\ CheckOut => IInv'
<1> SUFFICES ASSUME IInv, CheckOut PROVE IInv'
  OBVIOUS
<1>1. /\ line # "idle" /\ NoChange /\ outcome' = outcome
      /\ Works \/ LockFails
      /\ line' \in Lines
      /\ line' \in Filled => line \in Filled
      /\ line' \notin {"-A dports", "-A sports", "verify OUTPUT", "-S chain"}
  BY DEF CheckOut, Test, Goto, Lines, Filled
<1> QED
  BY <1>1, RunningOutcome, SameIInv DEF IInv, TypeOK

LEMMA FindInIInv == IInv /\ FindIn => IInv'
<1> SUFFICES ASSUME IInv, FindIn PROVE IInv'
  OBVIOUS
<1>1. /\ line # "idle" /\ NoChange /\ outcome' = outcome
      /\ Works \/ LockFails
      /\ line' \in Lines
      /\ line' \in Filled => line \in Filled
      /\ line' \notin {"-A dports", "-A sports", "verify OUTPUT", "-S chain"}
  BY DEF FindIn, Test, Goto, Lines, Filled
<1> QED
  BY <1>1, RunningOutcome, SameIInv DEF IInv, TypeOK

LEMMA FindOutIInv == IInv /\ FindOut => IInv'
<1> SUFFICES ASSUME IInv, FindOut PROVE IInv'
  OBVIOUS
<1>1. /\ line # "idle" /\ NoChange /\ outcome' = outcome
      /\ Works \/ LockFails
      /\ line' \in Lines
      /\ line' \in Filled => line \in Filled
      /\ line' \notin {"-A dports", "-A sports", "verify OUTPUT", "-S chain"}
  BY DEF FindOut, Test, Goto, Lines, Filled
<1> QED
  BY <1>1, RunningOutcome, SameIInv DEF IInv, TypeOK

LEMMA FindChainIInv == IInv /\ FindChain => IInv'
<1> SUFFICES ASSUME IInv, FindChain PROVE IInv'
  OBVIOUS
<1>1. /\ line # "idle" /\ NoChange /\ outcome' = outcome
      /\ Works \/ LockFails
      /\ line' \in Lines
      /\ line' \in Filled => line \in Filled
      /\ line' \notin {"-A dports", "-A sports", "verify OUTPUT", "-S chain"}
  BY DEF FindChain, Test, Goto, Lines, Filled
<1> QED
  BY <1>1, RunningOutcome, SameIInv DEF IInv, TypeOK

LEMMA VerifyInIInv == IInv /\ VerifyIn => IInv'
<1> SUFFICES ASSUME IInv, VerifyIn PROVE IInv'
  OBVIOUS
<1>1. CASE /\ Works /\ Hooked("INPUT") /\ NoChange /\ Goto("verify OUTPUT")
           /\ line = "verify INPUT"
  BY <1>1, RunningOutcome, SameIInv DEF IInv, TypeOK, Goto, Lines, Filled
<1>2. CASE ((Works /\ ~Hooked("INPUT")) \/ LockFails) /\ NoChange /\ Exit("error")
  BY <1>2, FailIInv
<1> QED
  BY <1>1, <1>2 DEF VerifyIn, Command

LEMMA VerifyOutIInv == IInv /\ VerifyOut => IInv'
<1> SUFFICES ASSUME IInv, VerifyOut PROVE IInv'
  OBVIOUS
<1>1. CASE /\ Works /\ Hooked("OUTPUT") /\ NoChange /\ Goto("-S chain")
           /\ line = "verify OUTPUT"
  <2>1. Hooked("INPUT")
    BY <1>1 DEF IInv, Progress
  <2> QED
    BY <1>1, <2>1, RunningOutcome, SameIInv DEF IInv, TypeOK, Goto, Lines, Filled
<1>2. CASE ((Works /\ ~Hooked("OUTPUT")) \/ LockFails) /\ NoChange /\ Exit("error")
  BY <1>2, FailIInv
<1> QED
  BY <1>1, <1>2 DEF VerifyOut, Command

LEMMA ListChainIInv == IInv /\ ListChain => IInv'
<1> SUFFICES ASSUME IInv, ListChain PROVE IInv'
  OBVIOUS
<1>1. CASE Works /\ NoChange /\ Exit("isolated") /\ line = "-S chain"
  BY <1>1, SameIInv DEF Exit, Lines, Filled
<1>2. CASE (Works \/ LockFails) /\ NoChange /\ Exit("error")
  BY <1>2, FailIInv
<1> QED
  BY <1>1, <1>2 DEF ListChain, ListRules

LEMMA ListRestIInv == IInv /\ ListRest => IInv'
<1> SUFFICES ASSUME IInv, ListRest PROVE IInv'
  OBVIOUS
<1>1. CASE Works /\ NoChange /\ Exit("healed") /\ line = "-S"
  BY <1>1, SameIInv DEF Exit, Lines, Filled
<1>2. CASE (Works \/ LockFails) /\ NoChange /\ Exit("error")
  BY <1>2, FailIInv
<1> QED
  BY <1>1, <1>2 DEF ListRest, ListRules

-----------------------------------------------------------------------------
(* A step that changes the rules of one direction.                           *)
LEMMA RulesIInv ==
    ASSUME IInv, line # "idle", Works, NEW d \in Directions,
           NEW s \in Seq(Rule), HooksThenOthers(s, Others[d]), SetRules(d, s),
           NEW l \in {"-C OUTPUT", "verify INPUT", "find OUTPUT", "find chain"},
           Goto(l), l \in Filled => line \in Filled
    PROVE  IInv'
<1>1. rules' \in [Directions -> Seq(Rule)] /\ OthersUntouched'
  BY SetRulesKeeps
<1>2. chain' = chain /\ line' = l /\ outcome' = outcome
  BY DEF SetRules, Goto
<1>3. TypeOK'
  BY <1>1, <1>2, CountersTyped DEF IInv, TypeOK, Lines
<1> QED
  BY <1>1, <1>2, <1>3, RunningOutcome DEF IInv, Progress, Filled

LEMMA InsertInIInv == IInv /\ InsertIn => IInv'
<1> SUFFICES ASSUME IInv, InsertIn PROVE IInv'
  OBVIOUS
<1> DEFINE s == <<Hook>> \o rules["INPUT"]
<1>1. CASE /\ Works /\ SetRules("INPUT", s) /\ Goto("-C OUTPUT")
           /\ line = "-I INPUT"
  <2>1. "INPUT" \in Directions
    BY DEF Directions
  <2>2. /\ rules["INPUT"] \in Seq(Rule) /\ Others["INPUT"] \in Seq(OwnRule)
        /\ HooksThenOthers(rules["INPUT"], Others["INPUT"])
    BY <2>1, OwnRules DEF IInv, TypeOK, OthersUntouched
  <2>3. s \in Seq(Rule) /\ HooksThenOthers(s, Others["INPUT"])
    BY <2>2, InsertKeeps
  <2>4. line # "idle" /\ line \in Filled
    BY <1>1 DEF Filled
  <2> QED
    BY <1>1, <2>1, <2>3, <2>4, RulesIInv
<1>2. CASE (Works \/ LockFails) /\ NoChange /\ Exit("error")
  BY <1>2, FailIInv
<1> QED
  BY <1>1, <1>2 DEF InsertIn, Command

LEMMA InsertOutIInv == IInv /\ InsertOut => IInv'
<1> SUFFICES ASSUME IInv, InsertOut PROVE IInv'
  OBVIOUS
<1> DEFINE s == <<Hook>> \o rules["OUTPUT"]
<1>1. CASE /\ Works /\ SetRules("OUTPUT", s) /\ Goto("verify INPUT")
           /\ line = "-I OUTPUT"
  <2>1. "OUTPUT" \in Directions
    BY DEF Directions
  <2>2. /\ rules["OUTPUT"] \in Seq(Rule) /\ Others["OUTPUT"] \in Seq(OwnRule)
        /\ HooksThenOthers(rules["OUTPUT"], Others["OUTPUT"])
    BY <2>1, OwnRules DEF IInv, TypeOK, OthersUntouched
  <2>3. s \in Seq(Rule) /\ HooksThenOthers(s, Others["OUTPUT"])
    BY <2>2, InsertKeeps
  <2>4. line # "idle" /\ line \in Filled
    BY <1>1 DEF Filled
  <2> QED
    BY <1>1, <2>1, <2>3, <2>4, RulesIInv
<1>2. CASE (Works \/ LockFails) /\ NoChange /\ Exit("error")
  BY <1>2, FailIInv
<1> QED
  BY <1>1, <1>2 DEF InsertOut, Command

LEMMA DeleteInIInv == IInv /\ DeleteIn => IInv'
<1> SUFFICES ASSUME IInv, DeleteIn PROVE IInv'
  OBVIOUS
<1> DEFINE s == RemoveFirst(rules["INPUT"], Hook)
<1>1. CASE /\ Works /\ Hooked("INPUT") /\ SetRules("INPUT", s) /\ Goto("find OUTPUT")
           /\ line = "-D INPUT"
  <2>1. "INPUT" \in Directions
    BY DEF Directions
  <2>2. /\ rules["INPUT"] \in Seq(Rule) /\ Others["INPUT"] \in Seq(OwnRule)
        /\ HooksThenOthers(rules["INPUT"], Others["INPUT"])
        /\ Contains(rules["INPUT"], Hook)
    BY <1>1, <2>1, OwnRules DEF IInv, TypeOK, OthersUntouched, Hooked
  <2>3. s \in Seq(Rule) /\ HooksThenOthers(s, Others["INPUT"])
    BY <2>2, DeleteKeeps
  <2>4. line # "idle" /\ "find OUTPUT" \notin Filled
    BY <1>1 DEF Filled
  <2> QED
    BY <1>1, <2>1, <2>3, <2>4, RulesIInv
<1>2. CASE (Works \/ LockFails) /\ NoChange /\ Exit("error")
  BY <1>2, FailIInv
<1> QED
  BY <1>1, <1>2 DEF DeleteIn, Command

LEMMA DeleteOutIInv == IInv /\ DeleteOut => IInv'
<1> SUFFICES ASSUME IInv, DeleteOut PROVE IInv'
  OBVIOUS
<1> DEFINE s == RemoveFirst(rules["OUTPUT"], Hook)
<1>1. CASE /\ Works /\ Hooked("OUTPUT") /\ SetRules("OUTPUT", s) /\ Goto("find chain")
           /\ line = "-D OUTPUT"
  <2>1. "OUTPUT" \in Directions
    BY DEF Directions
  <2>2. /\ rules["OUTPUT"] \in Seq(Rule) /\ Others["OUTPUT"] \in Seq(OwnRule)
        /\ HooksThenOthers(rules["OUTPUT"], Others["OUTPUT"])
        /\ Contains(rules["OUTPUT"], Hook)
    BY <1>1, <2>1, OwnRules DEF IInv, TypeOK, OthersUntouched, Hooked
  <2>3. s \in Seq(Rule) /\ HooksThenOthers(s, Others["OUTPUT"])
    BY <2>2, DeleteKeeps
  <2>4. line # "idle" /\ "find chain" \notin Filled
    BY <1>1 DEF Filled
  <2> QED
    BY <1>1, <2>1, <2>3, <2>4, RulesIInv
<1>2. CASE (Works \/ LockFails) /\ NoChange /\ Exit("error")
  BY <1>2, FailIInv
<1> QED
  BY <1>1, <1>2 DEF DeleteOut, Command

LEMMA EmptyChainIInv == IInv /\ EmptyChain => IInv'
<1> SUFFICES ASSUME IInv, EmptyChain PROVE IInv'
  OBVIOUS
<1>1. CASE Works /\ SetChain(<<>>) /\ Goto("-X") /\ line = "empty chain"
  <2>1. line # "idle" /\ "-X" \in Lines /\ <<>> \in Seq(Drop) \union {NoChain}
    BY <1>1, NoRulesYet DEF Lines
  <2> QED
    BY <1>1, <2>1, ChainIInv
<1>2. CASE (Works \/ LockFails) /\ NoChange /\ Exit("error")
  BY <1>2, FailIInv
<1> QED
  BY <1>1, <1>2 DEF EmptyChain, Command

LEMMA DeleteChainIInv == IInv /\ DeleteChain => IInv'
<1> SUFFICES ASSUME IInv, DeleteChain PROVE IInv'
  OBVIOUS
<1>1. CASE Works /\ SetChain(NoChain) /\ Goto("-S") /\ line = "-X"
  <2>1. line # "idle" /\ "-S" \in Lines /\ NoChain \in Seq(Drop) \union {NoChain}
    BY <1>1, NoRulesYet DEF Lines
  <2> QED
    BY <1>1, <2>1, ChainIInv
<1>2. CASE (Works \/ LockFails) /\ NoChange /\ Exit("error")
  BY <1>2, FailIInv
<1> QED
  BY <1>1, <1>2 DEF DeleteChain, Command

LEMMA EnableIInv == IInv /\ Enable => IInv'
<1> SUFFICES ASSUME IInv, Enable PROVE IInv'
  OBVIOUS
<1>1. /\ NoChange /\ line' = "-N" /\ outcome' = "enabling"
      /\ enables' \in Nat /\ lockFailures' \in Nat /\ kills' \in Nat
  BY DEF Enable, IInv, TypeOK, counters
<1>2. TypeOK' /\ OthersUntouched'
  BY <1>1, SameRules DEF IInv, TypeOK, NoChange, Lines
<1> QED
  BY <1>1, <1>2 DEF IInv, Progress, Filled

LEMMA HealIInv == IInv /\ Heal => IInv'
<1> SUFFICES ASSUME IInv, Heal PROVE IInv'
  OBVIOUS
<1>1. /\ NoChange /\ line' = "find INPUT" /\ outcome' = "healing"
      /\ enables' \in Nat /\ lockFailures' \in Nat /\ kills' \in Nat
  BY DEF Heal, IInv, TypeOK, counters
<1>2. TypeOK' /\ OthersUntouched'
  BY <1>1, SameRules DEF IInv, TypeOK, NoChange, Lines
<1> QED
  BY <1>1, <1>2 DEF IInv, Progress, Filled

LEMMA KillIInv == IInv /\ Kill => IInv'
<1> SUFFICES ASSUME IInv, Kill PROVE IInv'
  OBVIOUS
<1>1. /\ NoChange /\ line' = "idle" /\ outcome' = "error"
      /\ enables' \in Nat /\ lockFailures' \in Nat /\ kills' \in Nat
  BY DEF Kill, IInv, TypeOK, Exit
<1>2. TypeOK' /\ OthersUntouched'
  BY <1>1, SameRules DEF IInv, TypeOK, NoChange, Lines
<1> QED
  BY <1>1, <1>2 DEF IInv, Progress, Filled

-----------------------------------------------------------------------------
LEMMA NextIInv == IInv /\ [Next]_vars => IInv'
<1> SUFFICES ASSUME IInv, [Next]_vars PROVE IInv'
  OBVIOUS
<1>1. CASE UNCHANGED vars
  BY <1>1 DEF vars, counters, IInv, TypeOK, OthersUntouched, Progress, Hooked
<1>2. CASE EnableScript
  BY <1>2, CreateIInv, FlushIInv, DropToIInv, DropFromIInv, CheckInIInv,
     InsertInIInv, CheckOutIInv, InsertOutIInv, VerifyInIInv, VerifyOutIInv,
     ListChainIInv DEF EnableScript
<1>3. CASE HealScript
  BY <1>3, FindInIInv, DeleteInIInv, FindOutIInv, DeleteOutIInv, FindChainIInv,
     EmptyChainIInv, DeleteChainIInv, ListRestIInv DEF HealScript
<1> QED
  BY <1>1, <1>2, <1>3, EnableIInv, HealIInv, KillIInv DEF Next

-----------------------------------------------------------------------------
(* The inductive invariant of the two scripts.                               *)
THEOREM Inductive == Spec => []IInv
  BY InitIInv, NextIInv, PTL DEF Spec

(* A node the script reports as isolated drops internode requests and        *)
(* responses in both directions, after any failures and retries.             *)
THEOREM IsolationIsComplete == Spec => []IsolatedDrops
<1>1. IInv => IsolatedDrops
  <2> SUFFICES ASSUME IInv, outcome = "isolated", NEW d \in Directions
               PROVE  Drops(d)
    BY DEF IsolatedDrops
  <2>1. chain = FullChain /\ Hooked(d)
    BY DEF IInv, Progress, Directions
  <2>2. /\ rules[d] \in Seq(Rule) /\ Others[d] \in Seq(OwnRule)
        /\ HooksThenOthers(rules[d], Others[d]) /\ Contains(rules[d], Hook)
    BY <2>1, OwnRules DEF IInv, TypeOK, OthersUntouched, Hooked
  <2> QED
    BY <2>1, <2>2, HookIsFirst DEF Drops
<1> QED
  BY <1>1, Inductive, PTL

(* The scripts never move, drop or precede-by-others the container's rules:  *)
(* they only stand behind hooks of ours.                                     *)
THEOREM OwnRulesStay == Spec => []OthersUntouched
<1>1. IInv => OthersUntouched
  BY DEF IInv
<1> QED
  BY <1>1, Inductive, PTL

-----------------------------------------------------------------------------
(* Healing.  While no command missed the lock, a direction has one hook at   *)
(* most and the script knows whether it is there; a chain that does not      *)
(* exist is jumped to by nobody.                                             *)
Single(s) == \A j, k \in 1 .. Len(s) : s[j] = Hook /\ s[k] = Hook => j = k

NoMiss ==
    /\ \A d \in Directions : Single(rules[d])
    /\ line = "-I INPUT" => ~Hooked("INPUT")
    /\ line = "-I OUTPUT" => ~Hooked("OUTPUT")
    /\ line \in {"find OUTPUT", "-D OUTPUT", "find chain"} => ~Hooked("INPUT")
    /\ line = "find chain" => ~Hooked("OUTPUT")

Removed ==
    /\ ~Exists => \A d \in Directions : ~Hooked(d)
    /\ line = "-S" /\ lockFailures <= 1 => \A d \in Directions : Passes(d)
    /\ outcome = "healed" =>
          line = "idle" /\ (lockFailures <= 1 => \A d \in Directions : Passes(d))

HealInv == (lockFailures = 0 => NoMiss) /\ Removed

(* Where NoMiss or Removed says something of the line.                       *)
Knowing == {"-I INPUT", "-I OUTPUT", "find OUTPUT", "-D OUTPUT", "find chain", "-S"}

(* The counter of missed locks.                                              *)
LEMMA Misses ==
    ASSUME IInv
    PROVE  /\ lockFailures \in Nat
           /\ Works => lockFailures' = lockFailures
           /\ LockFails => lockFailures' = lockFailures + 1 /\ lockFailures' # 0
  BY DEF IInv, TypeOK, Works, LockFails, counters

LEMMA NotHealedYet ==
    ASSUME HealInv, line # "idle" PROVE outcome # "healed"
  BY DEF HealInv, Removed

(* Steps that change no rule and come to a line that knows nothing.          *)
LEMMA SameHeal ==
    ASSUME IInv, HealInv, NoChange, line' \notin Knowing, outcome' # "healed",
           lockFailures' \in {lockFailures, lockFailures + 1}
    PROVE  HealInv'
<1>1. lockFailures \in Nat
  BY DEF IInv, TypeOK
<1>2. lockFailures' = 0 => lockFailures = 0
  BY <1>1
<1>3. chain' = chain /\ rules' = rules
  BY DEF NoChange
<1> QED
  BY <1>2, <1>3 DEF HealInv, NoMiss, Removed, Knowing, Hooked, Exists

(* A script that fails.                                                      *)
LEMMA FailHeal ==
    ASSUME IInv, HealInv, NoChange, Exit("error"), Works \/ LockFails
    PROVE  HealInv'
<1>1. line' \notin Knowing /\ outcome' # "healed"
  BY DEF Exit, Knowing
<1> QED
  BY <1>1, SameHeal, Misses

(* Commands that change the chain, and leave one.                            *)
LEMMA ChainHeal ==
    ASSUME IInv, HealInv, line # "idle", rules' = rules, chain' # NoChain,
           line' \notin Knowing, outcome' = outcome, Works \/ LockFails
    PROVE  HealInv'
<1>1. outcome' # "healed"
  BY NotHealedYet
<1>2. lockFailures' = 0 => lockFailures = 0
  BY Misses
<1> QED
  BY <1>1, <1>2 DEF HealInv, NoMiss, Removed, Knowing, Hooked, Exists

(* Tests whose answer, right or missed, leads to a line that knows it.       *)
LEMMA TestHeal ==
    ASSUME IInv, HealInv, line # "idle", NoChange, outcome' = outcome,
           Works \/ LockFails,
           Works /\ lockFailures = 0 => NoMiss', line' # "-S"
    PROVE  HealInv'
<1>1. outcome' # "healed" /\ chain' = chain /\ rules' = rules
  BY NotHealedYet DEF NoChange
<1>2. lockFailures' = 0 => Works /\ lockFailures = 0
  BY Misses
<1>3. Removed'
  BY <1>1 DEF HealInv, Removed, Hooked, Exists
<1> QED
  BY <1>2, <1>3 DEF HealInv

LEMMA ScriptLines ==
    ASSUME NEW l \in {"-N", "-F", "-A dports", "-A sports", "-C INPUT", "-I INPUT",
                      "-C OUTPUT", "-I OUTPUT", "verify INPUT", "verify OUTPUT",
                      "-S chain", "find INPUT", "-D INPUT", "find OUTPUT",
                      "-D OUTPUT", "find chain", "empty chain", "-X", "-S"}
    PROVE  l # "idle"
  OBVIOUS

LEMMA CreateHeal == IInv /\ HealInv /\ Create => HealInv'
<1> SUFFICES ASSUME IInv, HealInv, Create PROVE HealInv'
  OBVIOUS
<1>1. line # "idle" /\ line' \notin Knowing /\ outcome' = outcome /\ rules' = rules
  BY DEF Create, Goto, Knowing, SetChain, NoChange
<1>2. Works \/ LockFails
  BY DEF Create
<1>3. CASE Works /\ SetChain(IF Exists THEN chain ELSE <<>>)
  <2>1. chain' # NoChain
    BY <1>3, NoRulesYet, NoChainAssumption DEF SetChain, Exists
  <2> QED
    BY <1>1, <1>2, <2>1, ChainHeal
<1>4. CASE LockFails /\ NoChange
  <2>1. outcome' # "healed"
    BY <1>1, NotHealedYet
  <2> QED
    BY <1>1, <1>4, <2>1, SameHeal, Misses
<1> QED
  BY <1>3, <1>4 DEF Create

(* A command that changes the chain, or fails.                               *)
LEMMA ChainCommandHeal ==
    ASSUME IInv, HealInv, NEW l, l # "idle", NEW c, c # NoChain, NEW next,
           next \notin Knowing, Command(l, Exists, SetChain(c), next)
    PROVE  HealInv'
<1>1. CASE Works /\ SetChain(c) /\ Goto(next) /\ line = l
  BY <1>1, ChainHeal DEF SetChain, Goto
<1>2. CASE (Works \/ LockFails) /\ NoChange /\ Exit("error")
  BY <1>2, FailHeal
<1> QED
  BY <1>1, <1>2 DEF Command

(* A hook where there was none is the only one.                              *)
LEMMA HookedOnce ==
    ASSUME NEW r \in Seq(Rule), ~Contains(r, Hook)
    PROVE  Single(<<Hook>> \o r)
<1> DEFINE t == <<Hook>> \o r
<1>1. Len(t) = Len(r) + 1 /\ \A j \in 1 .. Len(r) : t[j + 1] = r[j]
  OBVIOUS
<1>2. \A j \in 1 .. Len(r) : r[j] # Hook
  BY DEF Contains
<1>3. \A j \in 1 .. Len(t) : t[j] = Hook => j = 1
  <2> SUFFICES ASSUME NEW j \in 1 .. Len(t), j # 1 PROVE t[j] # Hook
    OBVIOUS
  <2>1. j - 1 \in 1 .. Len(r) /\ (j - 1) + 1 = j
    BY <1>1
  <2> QED
    BY <1>1, <1>2, <2>1
<1> QED
  BY <1>3 DEF Single

(* Without its only hook there is none.                                      *)
LEMMA DeletedOnce ==
    ASSUME NEW s \in Seq(Rule), NEW own \in Seq(OwnRule),
           HooksThenOthers(s, own), Contains(s, Hook), Single(s)
    PROVE  ~Contains(RemoveFirst(s, Hook), Hook) /\ Single(RemoveFirst(s, Hook))
<1> DEFINE t == Tail(s)
<1>1. s # <<>> /\ s[1] = Hook
  BY HookIsFirst
<1>2. Len(t) = Len(s) - 1 /\ \A j \in 1 .. Len(t) : t[j] = s[j + 1]
  BY <1>1
<1>3. \A j \in 1 .. Len(t) : t[j] # Hook
  <2> SUFFICES ASSUME NEW j \in 1 .. Len(t), t[j] = Hook PROVE FALSE
    OBVIOUS
  <2>1. 1 \in 1 .. Len(s) /\ j + 1 \in 1 .. Len(s) /\ j + 1 # 1
    BY <1>1, <1>2
  <2> QED
    BY <1>1, <1>2, <2>1 DEF Single
<1>4. RemoveFirst(s, Hook) = t
  BY DeleteIsTail
<1> QED
  BY <1>3, <1>4 DEF Contains, Single

LEMMA FlushHeal == IInv /\ HealInv /\ Flush => HealInv'
<1>1. <<>> # NoChain /\ "-F" # "idle" /\ "-A dports" \notin Knowing
  BY NoRulesYet, NoChainAssumption DEF Knowing
<1> QED
  BY <1>1, ChainCommandHeal DEF Flush

LEMMA EmptyChainHeal == IInv /\ HealInv /\ EmptyChain => HealInv'
<1>1. <<>> # NoChain /\ "empty chain" # "idle" /\ "-X" \notin Knowing
  BY NoRulesYet, NoChainAssumption DEF Knowing
<1> QED
  BY <1>1, ChainCommandHeal DEF EmptyChain

LEMMA DropToHeal == IInv /\ HealInv /\ DropTo => HealInv'
<1> SUFFICES ASSUME IInv, HealInv, DropTo PROVE HealInv'
  OBVIOUS
<1>1. chain = <<>>
  BY DEF DropTo, Command, IInv, Progress
<1>2. PICK c : c = Append(chain, "dports DROP")
  OBVIOUS
<1>3. "dports DROP" \in Drop
  BY DEF Drop
<1>4. c \in Seq(Drop)
  BY <1>1, <1>2, <1>3, AppendFirst
<1>5. c # NoChain /\ "-A dports" # "idle" /\ "-A sports" \notin Knowing
  BY <1>4, NoChainAssumption DEF Knowing
<1> QED
  BY <1>2, <1>5, ChainCommandHeal DEF DropTo

LEMMA DropFromHeal == IInv /\ HealInv /\ DropFrom => HealInv'
<1> SUFFICES ASSUME IInv, HealInv, DropFrom PROVE HealInv'
  OBVIOUS
<1>1. chain = <<"dports DROP">>
  BY DEF DropFrom, Command, IInv, Progress
<1>2. PICK c : c = Append(chain, "sports DROP")
  OBVIOUS
<1>3. "dports DROP" \in Drop /\ "sports DROP" \in Drop
  BY DEF Drop
<1>4. c \in Seq(Drop)
  BY <1>1, <1>2, <1>3, AppendSecond
<1>5. c # NoChain /\ "-A sports" # "idle" /\ "-C INPUT" \notin Knowing
  BY <1>4, NoChainAssumption DEF Knowing
<1> QED
  BY <1>2, <1>5, ChainCommandHeal DEF DropFrom

(* Nothing but a hook leads to our chain.                                    *)
LEMMA DeleteChainHeal == IInv /\ HealInv /\ DeleteChain => HealInv'
<1> SUFFICES ASSUME IInv, HealInv, DeleteChain PROVE HealInv'
  OBVIOUS
<1>1. CASE /\ Works /\ (\A d \in Directions : ~Hooked(d)) /\ SetChain(NoChain)
           /\ Goto("-S") /\ line = "-X"
  <2>1. /\ \A d \in Directions : ~Hooked(d)'
        /\ line' = "-S" /\ outcome' = outcome /\ outcome # "healed"
    BY <1>1, NotHealedYet DEF SetChain, Goto, Hooked
  <2>2. Removed'
    BY <2>1 DEF Removed, Passes
  <2>3. lockFailures' = 0 => NoMiss'
    BY <1>1, <2>1, Misses DEF HealInv, NoMiss, SetChain
  <2> QED
    BY <2>2, <2>3 DEF HealInv
<1>2. CASE (Works \/ LockFails) /\ NoChange /\ Exit("error")
  BY <1>2, FailHeal
<1> QED
  BY <1>1, <1>2 DEF DeleteChain, Command

LEMMA VerifyInHeal == IInv /\ HealInv /\ VerifyIn => HealInv'
<1> SUFFICES ASSUME IInv, HealInv, VerifyIn PROVE HealInv'
  OBVIOUS
<1>1. /\ NoChange /\ line' \notin Knowing /\ (Works \/ LockFails) /\ line # "idle"
      /\ outcome' \in {outcome, "error"}
  BY DEF VerifyIn, Command, Goto, Exit, Knowing
<1> QED
  BY <1>1, SameHeal, NotHealedYet, Misses

LEMMA VerifyOutHeal == IInv /\ HealInv /\ VerifyOut => HealInv'
<1> SUFFICES ASSUME IInv, HealInv, VerifyOut PROVE HealInv'
  OBVIOUS
<1>1. /\ NoChange /\ line' \notin Knowing /\ (Works \/ LockFails) /\ line # "idle"
      /\ outcome' \in {outcome, "error"}
  BY DEF VerifyOut, Command, Goto, Exit, Knowing
<1> QED
  BY <1>1, SameHeal, NotHealedYet, Misses

LEMMA ListChainHeal == IInv /\ HealInv /\ ListChain => HealInv'
<1> SUFFICES ASSUME IInv, HealInv, ListChain PROVE HealInv'
  OBVIOUS
<1>1. /\ NoChange /\ line' \notin Knowing /\ (Works \/ LockFails)
      /\ outcome' \in {"isolated", "error"}
  BY DEF ListChain, ListRules, Exit, Knowing
<1> QED
  BY <1>1, SameHeal, Misses

LEMMA CheckInHeal == IInv /\ HealInv /\ CheckIn => HealInv'
<1> SUFFICES ASSUME IInv, HealInv, CheckIn PROVE HealInv'
  OBVIOUS
<1>1. /\ NoChange /\ outcome' = outcome /\ (Works \/ LockFails) /\ line # "idle"
      /\ line' # "-S"
  BY DEF CheckIn, Test, Goto
<1>2. ASSUME Works, lockFailures = 0 PROVE NoMiss'
  <2>1. /\ line' = "-I INPUT" => ~Hooked("INPUT")
        /\ line' \notin Knowing \ {"-I INPUT"}
    BY <1>2, Misses DEF CheckIn, Test, Goto, Knowing, IInv, TypeOK, Works, LockFails, counters
  <2>2. rules' = rules /\ NoMiss
    BY <1>1, <1>2 DEF NoChange, HealInv
  <2> QED
    BY <2>1, <2>2 DEF NoMiss, Hooked, Knowing
<1> QED
  BY <1>1, <1>2, TestHeal

LEMMA InsertInHeal == IInv /\ HealInv /\ InsertIn => HealInv'
<1> SUFFICES ASSUME IInv, HealInv, InsertIn PROVE HealInv'
  OBVIOUS
<1>1. CASE /\ Works /\ Exists /\ SetRules("INPUT", <<Hook>> \o rules["INPUT"])
           /\ line = "-I INPUT" /\ line' \notin Knowing /\ outcome' = outcome
  <2>1. rules["INPUT"] \in Seq(Rule) /\ rules \in [Directions -> Seq(Rule)]
    BY DEF IInv, TypeOK, Directions
  <2>2. PICK s : s = <<Hook>> \o rules["INPUT"]
    OBVIOUS
  <2>3. rules' = [rules EXCEPT !["INPUT"] = s] /\ chain' = chain
    BY <1>1, <2>2 DEF SetRules
  <2>4. Removed'
    <3>1. outcome # "healed"
      BY <1>1, NotHealedYet
    <3>2. Exists'
      BY <1>1, <2>3 DEF Exists
    <3> QED
      BY <1>1, <3>1, <3>2 DEF Removed, Knowing
  <2>5. ASSUME lockFailures = 0 PROVE NoMiss'
    <3>1. NoMiss /\ ~Contains(rules["INPUT"], Hook)
      BY <1>1, <2>5 DEF HealInv, NoMiss, Hooked
    <3>2. Single(s)
      BY <2>1, <2>2, <3>1, HookedOnce
    <3>3. \A d \in Directions : Single(rules'[d])
      BY <2>1, <2>3, <3>1, <3>2 DEF NoMiss
    <3> QED
      BY <1>1, <3>3 DEF NoMiss, Knowing
  <2> QED
    BY <1>1, <2>4, <2>5, Misses DEF HealInv
<1>2. CASE (Works \/ LockFails) /\ NoChange /\ Exit("error")
  BY <1>2, FailHeal
<1> QED
  BY <1>1, <1>2 DEF InsertIn, Command, Goto, Knowing

LEMMA CheckOutHeal == IInv /\ HealInv /\ CheckOut => HealInv'
<1> SUFFICES ASSUME IInv, HealInv, CheckOut PROVE HealInv'
  OBVIOUS
<1>1. /\ NoChange /\ outcome' = outcome /\ (Works \/ LockFails) /\ line # "idle"
      /\ line' # "-S"
  BY DEF CheckOut, Test, Goto
<1>2. ASSUME Works, lockFailures = 0 PROVE NoMiss'
  <2>1. /\ line' = "-I OUTPUT" => ~Hooked("OUTPUT")
        /\ line' \notin Knowing \ {"-I OUTPUT"}
    BY <1>2, Misses DEF CheckOut, Test, Goto, Knowing, IInv, TypeOK, Works, LockFails, counters
  <2>2. rules' = rules /\ NoMiss
    BY <1>1, <1>2 DEF NoChange, HealInv
  <2> QED
    BY <2>1, <2>2 DEF NoMiss, Hooked, Knowing
<1> QED
  BY <1>1, <1>2, TestHeal

LEMMA InsertOutHeal == IInv /\ HealInv /\ InsertOut => HealInv'
<1> SUFFICES ASSUME IInv, HealInv, InsertOut PROVE HealInv'
  OBVIOUS
<1>1. CASE /\ Works /\ Exists /\ SetRules("OUTPUT", <<Hook>> \o rules["OUTPUT"])
           /\ line = "-I OUTPUT" /\ line' \notin Knowing /\ outcome' = outcome
  <2>1. rules["OUTPUT"] \in Seq(Rule) /\ rules \in [Directions -> Seq(Rule)]
    BY DEF IInv, TypeOK, Directions
  <2>2. PICK s : s = <<Hook>> \o rules["OUTPUT"]
    OBVIOUS
  <2>3. rules' = [rules EXCEPT !["OUTPUT"] = s] /\ chain' = chain
    BY <1>1, <2>2 DEF SetRules
  <2>4. Removed'
    <3>1. outcome # "healed"
      BY <1>1, NotHealedYet
    <3>2. Exists'
      BY <1>1, <2>3 DEF Exists
    <3> QED
      BY <1>1, <3>1, <3>2 DEF Removed, Knowing
  <2>5. ASSUME lockFailures = 0 PROVE NoMiss'
    <3>1. NoMiss /\ ~Contains(rules["OUTPUT"], Hook)
      BY <1>1, <2>5 DEF HealInv, NoMiss, Hooked
    <3>2. Single(s)
      BY <2>1, <2>2, <3>1, HookedOnce
    <3>3. \A d \in Directions : Single(rules'[d])
      BY <2>1, <2>3, <3>1, <3>2 DEF NoMiss
    <3> QED
      BY <1>1, <3>3 DEF NoMiss, Knowing
  <2> QED
    BY <1>1, <2>4, <2>5, Misses DEF HealInv
<1>2. CASE (Works \/ LockFails) /\ NoChange /\ Exit("error")
  BY <1>2, FailHeal
<1> QED
  BY <1>1, <1>2 DEF InsertOut, Command, Goto, Knowing

LEMMA FindInHeal == IInv /\ HealInv /\ FindIn => HealInv'
<1> SUFFICES ASSUME IInv, HealInv, FindIn PROVE HealInv'
  OBVIOUS
<1>1. /\ NoChange /\ outcome' = outcome /\ (Works \/ LockFails) /\ line = "find INPUT"
      /\ line' \in {"-D INPUT", "find OUTPUT"}
  BY DEF FindIn, Test, Goto
<1>2. ASSUME Works, lockFailures = 0 PROVE NoMiss'
  <2>1. line' = "find OUTPUT" => ~Hooked("INPUT")
    BY <1>2, Misses DEF FindIn, Test, Goto
  <2>2. rules' = rules /\ NoMiss
    BY <1>1, <1>2 DEF NoChange, HealInv
  <2> QED
    BY <1>1, <2>1, <2>2 DEF NoMiss, Hooked
<1> QED
  BY <1>1, <1>2, TestHeal

LEMMA DeleteInHeal == IInv /\ HealInv /\ DeleteIn => HealInv'
<1> SUFFICES ASSUME IInv, HealInv, DeleteIn PROVE HealInv'
  OBVIOUS
<1>1. CASE /\ Works /\ Hooked("INPUT")
           /\ SetRules("INPUT", RemoveFirst(rules["INPUT"], Hook))
           /\ line = "-D INPUT" /\ line' = "find OUTPUT" /\ outcome' = outcome
  <2>1. /\ rules["INPUT"] \in Seq(Rule) /\ rules \in [Directions -> Seq(Rule)]
        /\ Others["INPUT"] \in Seq(OwnRule)
        /\ HooksThenOthers(rules["INPUT"], Others["INPUT"])
        /\ Contains(rules["INPUT"], Hook)
    BY <1>1, OwnRules DEF IInv, TypeOK, OthersUntouched, Directions, Hooked
  <2>2. PICK s : s = RemoveFirst(rules["INPUT"], Hook)
    OBVIOUS
  <2>3. rules' = [rules EXCEPT !["INPUT"] = s] /\ chain' = chain
    BY <1>1, <2>2 DEF SetRules
  <2>4. Removed'
    <3>1. outcome # "healed"
      BY <1>1, NotHealedYet
    <3>2. Exists
      BY <1>1 DEF HealInv, Removed, Directions
    <3>3. Exists'
      BY <2>3, <3>2 DEF Exists
    <3> QED
      BY <1>1, <3>1, <3>3 DEF Removed
  <2>5. ASSUME lockFailures = 0 PROVE NoMiss'
    <3>1. NoMiss /\ Single(rules["INPUT"])
      BY <2>5 DEF HealInv, NoMiss, Directions
    <3>2. Single(s) /\ ~Contains(s, Hook)
      BY <2>1, <2>2, <3>1, DeletedOnce
    <3>3. /\ \A d \in Directions : Single(rules'[d])
          /\ ~Contains(rules'["INPUT"], Hook)
      BY <2>1, <2>3, <3>1, <3>2 DEF NoMiss, Directions
    <3>4. line' # "find chain"
      BY <1>1
    <3> QED
      BY <1>1, <3>3, <3>4 DEF NoMiss, Hooked
  <2> QED
    BY <1>1, <2>4, <2>5, Misses DEF HealInv
<1>2. CASE (Works \/ LockFails) /\ NoChange /\ Exit("error")
  BY <1>2, FailHeal
<1> QED
  BY <1>1, <1>2 DEF DeleteIn, Command, Goto

LEMMA FindOutHeal == IInv /\ HealInv /\ FindOut => HealInv'
<1> SUFFICES ASSUME IInv, HealInv, FindOut PROVE HealInv'
  OBVIOUS
<1>1. /\ NoChange /\ outcome' = outcome /\ (Works \/ LockFails) /\ line = "find OUTPUT"
      /\ line' \in {"-D OUTPUT", "find chain"}
  BY DEF FindOut, Test, Goto
<1>2. ASSUME Works, lockFailures = 0 PROVE NoMiss'
  <2>1. line' = "find chain" => ~Hooked("OUTPUT")
    BY <1>2, Misses DEF FindOut, Test, Goto
  <2>2. rules' = rules /\ NoMiss
    BY <1>1, <1>2 DEF NoChange, HealInv
  <2> QED
    BY <1>1, <2>1, <2>2 DEF NoMiss, Hooked
<1> QED
  BY <1>1, <1>2, TestHeal

LEMMA DeleteOutHeal == IInv /\ HealInv /\ DeleteOut => HealInv'
<1> SUFFICES ASSUME IInv, HealInv, DeleteOut PROVE HealInv'
  OBVIOUS
<1>1. CASE /\ Works /\ Hooked("OUTPUT")
           /\ SetRules("OUTPUT", RemoveFirst(rules["OUTPUT"], Hook))
           /\ line = "-D OUTPUT" /\ line' = "find chain" /\ outcome' = outcome
  <2>1. /\ rules["OUTPUT"] \in Seq(Rule) /\ rules \in [Directions -> Seq(Rule)]
        /\ Others["OUTPUT"] \in Seq(OwnRule)
        /\ HooksThenOthers(rules["OUTPUT"], Others["OUTPUT"])
        /\ Contains(rules["OUTPUT"], Hook)
    BY <1>1, OwnRules DEF IInv, TypeOK, OthersUntouched, Directions, Hooked
  <2>2. PICK s : s = RemoveFirst(rules["OUTPUT"], Hook)
    OBVIOUS
  <2>3. rules' = [rules EXCEPT !["OUTPUT"] = s] /\ chain' = chain
    BY <1>1, <2>2 DEF SetRules
  <2>4. Removed'
    <3>1. outcome # "healed"
      BY <1>1, NotHealedYet
    <3>2. Exists
      BY <1>1 DEF HealInv, Removed, Directions
    <3>3. Exists'
      BY <2>3, <3>2 DEF Exists
    <3> QED
      BY <1>1, <3>1, <3>3 DEF Removed
  <2>5. ASSUME lockFailures = 0 PROVE NoMiss'
    <3>1. NoMiss /\ Single(rules["OUTPUT"])
      BY <2>5 DEF HealInv, NoMiss, Directions
    <3>2. Single(s) /\ ~Contains(s, Hook)
      BY <2>1, <2>2, <3>1, DeletedOnce
    <3>3. /\ \A d \in Directions : Single(rules'[d])
          /\ ~Contains(rules'["OUTPUT"], Hook)
      BY <2>1, <2>3, <3>1, <3>2 DEF NoMiss, Directions
    <3>4. rules'["INPUT"] = rules["INPUT"] /\ ~Contains(rules["INPUT"], Hook)
      BY <1>1, <2>1, <2>3, <3>1 DEF NoMiss, Hooked, Directions
    <3> QED
      BY <1>1, <3>3, <3>4 DEF NoMiss, Hooked
  <2> QED
    BY <1>1, <2>4, <2>5, Misses DEF HealInv
<1>2. CASE (Works \/ LockFails) /\ NoChange /\ Exit("error")
  BY <1>2, FailHeal
<1> QED
  BY <1>1, <1>2 DEF DeleteOut, Command, Goto

(* A chain that is not there, or not found at the first missed lock.         *)
LEMMA FindChainHeal == IInv /\ HealInv /\ FindChain => HealInv'
<1> SUFFICES ASSUME IInv, HealInv, FindChain PROVE HealInv'
  OBVIOUS
<1>1. /\ line = "find chain" /\ chain' = chain /\ rules' = rules /\ outcome' = outcome
      /\ Works \/ LockFails
  BY DEF FindChain, Test, Goto, NoChange
<1>2. outcome # "healed"
  BY <1>1, NotHealedYet
<1>3. CASE Works /\ Exists /\ line' = "empty chain"
  <2>1. line' \notin Knowing
    BY <1>3 DEF Knowing
  <2> QED
    BY <1>1, <1>2, <1>3, <2>1, SameHeal, Misses DEF NoChange
<1>4. CASE Works /\ ~Exists /\ line' = "-S"
  <2>1. \A d \in Directions : ~Hooked(d)
    BY <1>4 DEF HealInv, Removed
  <2>2. \A d \in Directions : ~Hooked(d)'
    BY <1>1, <2>1 DEF Hooked
  <2>3. Removed'
    BY <1>1, <1>2, <2>2 DEF Removed, Passes
  <2>4. lockFailures' = 0 => NoMiss'
    BY <1>1, <1>4, Misses DEF HealInv, NoMiss
  <2> QED
    BY <2>3, <2>4 DEF HealInv
<1>5. CASE LockFails /\ line' = "-S"
  <2>1. lockFailures' # 0 /\ (lockFailures' <= 1 => lockFailures = 0)
    BY <1>5, Misses
  <2>2. lockFailures' <= 1 => \A d \in Directions : ~Hooked(d)
    BY <1>1, <2>1 DEF HealInv, NoMiss, Directions
  <2>3. lockFailures' <= 1 => \A d \in Directions : ~Hooked(d)'
    BY <1>1, <2>2 DEF Hooked
  <2>4. Removed'
    <3>1. ~Exists' => \A d \in Directions : ~Hooked(d)'
      BY <1>1 DEF HealInv, Removed, Hooked, Exists
    <3> QED
      BY <1>1, <1>2, <2>3, <3>1 DEF Removed, Passes
  <2> QED
    BY <2>1, <2>4 DEF HealInv
<1> QED
  BY <1>3, <1>4, <1>5 DEF FindChain, Test, Goto

(* The answer: what held before the last line holds after it.                *)
LEMMA ListRestHeal == IInv /\ HealInv /\ ListRest => HealInv'
<1> SUFFICES ASSUME IInv, HealInv, ListRest PROVE HealInv'
  OBVIOUS
<1>1. CASE Works /\ NoChange /\ line' = "idle" /\ outcome' = "healed" /\ line = "-S"
  <2>1. chain' = chain /\ rules' = rules /\ lockFailures' = lockFailures
    BY <1>1, Misses DEF NoChange
  <2>2. Removed'
    BY <1>1, <2>1 DEF HealInv, Removed, Passes, Hooked, Exists
  <2>3. lockFailures' = 0 => NoMiss'
    BY <1>1, <2>1 DEF HealInv, NoMiss
  <2> QED
    BY <2>2, <2>3 DEF HealInv
<1>2. CASE (Works \/ LockFails) /\ NoChange /\ Exit("error")
  BY <1>2, FailHeal
<1> QED
  BY <1>1, <1>2 DEF ListRest, ListRules, Exit

LEMMA OtherHeal == IInv /\ HealInv /\ (Enable \/ Heal \/ Kill) => HealInv'
<1> SUFFICES ASSUME IInv, HealInv, Enable \/ Heal \/ Kill PROVE HealInv'
  OBVIOUS
<1>1. /\ NoChange /\ lockFailures' = lockFailures /\ line' \notin Knowing
      /\ outcome' # "healed"
  BY DEF Enable, Heal, Kill, Exit, Knowing, counters
<1> QED
  BY <1>1, SameHeal

LEMMA NextHeal == IInv /\ HealInv /\ [Next]_vars => HealInv'
<1> SUFFICES ASSUME IInv, HealInv, [Next]_vars PROVE HealInv'
  OBVIOUS
<1>1. CASE UNCHANGED vars
  BY <1>1 DEF vars, counters, HealInv, NoMiss, Removed, Passes, Hooked, Exists
<1>2. CASE EnableScript
  BY <1>2, CreateHeal, FlushHeal, DropToHeal, DropFromHeal, CheckInHeal,
     InsertInHeal, CheckOutHeal, InsertOutHeal, VerifyInHeal, VerifyOutHeal,
     ListChainHeal DEF EnableScript
<1>3. CASE HealScript
  BY <1>3, FindInHeal, DeleteInHeal, FindOutHeal, DeleteOutHeal, FindChainHeal,
     EmptyChainHeal, DeleteChainHeal, ListRestHeal DEF HealScript
<1> QED
  BY <1>1, <1>2, <1>3, OtherHeal DEF Next

LEMMA InitHeal == Init => HealInv
<1> SUFFICES ASSUME Init PROVE HealInv
  OBVIOUS
<1>1. \A d \in Directions : \A j \in 1 .. Len(rules[d]) : rules[d][j] # Hook
  BY OwnRules, HookAssumption DEF Init
<1>2. \A d \in Directions : ~Hooked(d) /\ Single(rules[d])
  BY <1>1 DEF Hooked, Contains, Single
<1> QED
  BY <1>2 DEF Init, HealInv, NoMiss, Removed

(* A node that firewall_script(False) reports as healed drops nothing, if    *)
(* the lock was missed at most once.                                         *)
THEOREM HealingIsComplete == Spec => []HealedPasses
<1>1. HealInv => HealedPasses
  BY DEF HealInv, Removed, HealedPasses
<1> QED
  BY <1>1, InitIInv, NextIInv, InitHeal, NextHeal, PTL DEF Spec
===============================================================================
