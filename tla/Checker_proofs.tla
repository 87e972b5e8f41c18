---------------------------- MODULE Checker_proofs ----------------------------
(***************************************************************************)
(* The checker.  The loops of check_read_your_writes and                   *)
(* check_monotonic_reads answer what the history says, for every set of    *)
(* clients, keys and histories; which matching cause a dependency names    *)
(* does not matter, comparing neighbours in an application order is        *)
(* enough, and a violation stays one: for every history first, and then    *)
(* for the trajectories of the model, whatever their length.               *)
(***************************************************************************)
EXTENDS MC_Checker, WellFoundedInduction, TLAPS

(* Changing a function at one point keeps its domain and range.              *)
LEMMA ExceptType ==
    ASSUME NEW S, NEW T, NEW f \in [S -> T], NEW p, NEW v \in T
    PROVE  [f EXCEPT ![p] = v] \in [S -> T]
  OBVIOUS

(* A history is a sequence of events, and events have typed fields.          *)
LEMMA EventFields ==
    ASSUME NEW h \in Seq(Event), NEW a \in 1 .. Len(h)
    PROVE  /\ h[a].client \in Client \union {None}
           /\ h[a].key \in Key \union {None}
           /\ h[a].version \in Nat \union {None}
<1>1. h[a] \in Event
  OBVIOUS
<1> QED
  BY <1>1 DEF Event

(* A counted event has a client, a key and a version.                        *)
LEMMA CountedFields ==
    ASSUME NEW h \in Seq(Event), NEW a \in 1 .. Len(h), Counted(h[a])
    PROVE  /\ CK(h[a]) \in Client \X Key
           /\ h[a].version \in Nat
  BY EventFields DEF Counted, CK

(* The domain of a history, as the loop counts it.                           *)
LEMMA HistoryDomain ==
    ASSUME TypeOK
    PROVE  /\ history \in Seq(Event)
           /\ Len(history) \in Nat
           /\ DOMAIN history = 1 .. Len(history)
           /\ i \in Nat \ {0} /\ i <= Len(history) + 1
           /\ Looping => i \in 1 .. Len(history)
  BY DEF TypeOK, Looping

LEMMA InitIInv == Init => IInv
<1> SUFFICES ASSUME Init PROVE IInv
  OBVIOUS
<1>1. history \in Seq(Event)
  BY HistoriesAssumption DEF Init
<1>2. Len(history) \in Nat
  BY <1>1
<1>3. TypeOK
  BY <1>1, <1>2 DEF Init, TypeOK
<1>4. 1 .. (i - 1) = {}
  BY DEF Init
<1>5. Clean /\ PairsCount
  BY <1>4 DEF Init, Clean, PairsCount
<1>6. Remembers
  BY <1>4 DEF Init, Remembers, Seen
<1> QED
  BY <1>3, <1>5, <1>6 DEF Init, IInv, AnswerIsVerdict, WitnessIsFirst

-----------------------------------------------------------------------------
(* The events the loop passed that pair with the read at i are the seen ones. *)
LEMMA PairIsSeen ==
    ASSUME TypeOK, Looping, Counted(e), e.op = "read",
           NEW a \in 1 .. (i - 1)
    PROVE  SessionPair(property, history, a, i) <=> Seen(a, CK(e))
<1>1. a < i /\ i \in 1 .. Len(history) /\ a \in 1 .. Len(history)
  BY HistoryDomain
<1> QED
  BY <1>1 DEF SessionPair, Seen, CK, e

(* One remembered event decides whether the read at i is the second half of   *)
(* a pair, and of a stale one.                                                *)
LEMMA RememberedPair ==
    ASSUME IInv, Looping, Counted(e), e.op = "read"
    PROVE  /\ latest[CK(e)] # 0 <=>
                \E a \in 1 .. (i - 1) : SessionPair(property, history, a, i)
           /\ Older <=>
                \E a \in 1 .. (i - 1) : Stale(property, history, a, i)
           /\ Older => Stale(property, history, latest[CK(e)], i)
<1> DEFINE l == latest[CK(e)]
<1>1. TypeOK /\ Remembers
  BY DEF IInv
<1>2. i \in 1 .. Len(history) /\ history \in Seq(Event)
  BY <1>1, HistoryDomain
<1>3. CK(e) \in Client \X Key /\ e.version \in Nat
  BY <1>2, CountedFields DEF e
<1>4. l # 0 => Seen(l, CK(e)) /\ l \in 1 .. (i - 1)
  BY <1>1, <1>3 DEF Remembers, Seen
<1>5. \A a \in 1 .. (i - 1) :
         SessionPair(property, history, a, i) =>
            l # 0 /\ history[a].version <= history[l].version
  BY <1>1, <1>3, PairIsSeen DEF Remembers
<1>6. l # 0 => SessionPair(property, history, l, i)
  BY <1>1, <1>4, PairIsSeen
<1>7. Older <=> l # 0 /\ e.version < history[l].version
  BY DEF Older
<1>8. Older => Stale(property, history, l, i)
  BY <1>6, <1>7 DEF Stale, e
<1>9. ASSUME NEW a \in 1 .. (i - 1), Stale(property, history, a, i)
      PROVE  Older
  <2>1. SessionPair(property, history, a, i)
    BY <1>9 DEF Stale
  <2>2. l # 0 /\ history[a].version <= history[l].version
    BY <1>5, <2>1
  <2>3. e.version < history[a].version
    BY <1>9 DEF Stale, e
  <2>4. a \in 1 .. Len(history) /\ l \in 1 .. Len(history)
    BY <1>2, <1>4, <2>2
  <2>5. history[a].version \in Nat /\ history[l].version \in Nat
    BY <1>2, <1>4, <2>1, <2>2, <2>4, CountedFields DEF SessionPair, Seen
  <2> QED
    BY <1>3, <1>7, <2>2, <2>3, <2>5
<1>10. l # 0 <=> \E a \in 1 .. (i - 1) : SessionPair(property, history, a, i)
  BY <1>4, <1>5, <1>6
<1>11. Older <=> \E a \in 1 .. (i - 1) : Stale(property, history, a, i)
  BY <1>4, <1>7, <1>8, <1>9
<1> QED
  BY <1>8, <1>10, <1>11

(* An event the loop does not compare is the second half of no pair.          *)
LEMMA NotCompared ==
    ASSUME ~(Counted(e) /\ e.op = "read"), NEW a
    PROVE  ~SessionPair(property, history, a, i)
  BY DEF SessionPair, e

(* The loop stays clean past an event no earlier event makes stale.           *)
LEMMA AdvanceClean ==
    ASSUME TypeOK, Clean, Looping, Advance,
           \A a \in 1 .. (i - 1) : ~Stale(property, history, a, i)
    PROVE  Clean'
<1>1. i \in Nat /\ i' = i + 1 /\ property' = property /\ history' = history
  BY HistoryDomain DEF Advance
<1>2. SUFFICES ASSUME NEW a \in 1 .. i, NEW b \in 1 .. i
               PROVE  ~Stale(property, history, a, b)
  BY <1>1 DEF Clean
<1>3. CASE a < b /\ b = i
  BY <1>1, <1>3
<1>4. CASE a < b /\ b # i
  BY <1>1, <1>4 DEF Clean
<1>5. CASE ~(a < b)
  BY <1>5 DEF Stale, SessionPair
<1> QED
  BY <1>3, <1>4, <1>5

(* The pairs passed are those passed before and those that end at i.          *)
LEMMA AdvancePairs ==
    ASSUME TypeOK, PairsCount, Looping, Advance,
           pairs' \in Nat,
           pairs' > 0 <=>
              \/ pairs > 0
              \/ \E a \in 1 .. (i - 1) : SessionPair(property, history, a, i)
    PROVE  PairsCount'
<1>1. i \in Nat /\ i' = i + 1 /\ property' = property /\ history' = history
  BY HistoryDomain DEF Advance
<1>2. (\E a, b \in 1 .. i : SessionPair(property, history, a, b)) <=>
         \/ \E a, b \in 1 .. (i - 1) : SessionPair(property, history, a, b)
         \/ \E a \in 1 .. (i - 1) : SessionPair(property, history, a, i)
  <2>1. ASSUME NEW a \in 1 .. i, NEW b \in 1 .. i,
               SessionPair(property, history, a, b)
        PROVE  a \in 1 .. (i - 1) /\ (b = i \/ b \in 1 .. (i - 1))
    <3>1. a < b
      BY <2>1 DEF SessionPair
    <3> QED
      BY <1>1, <3>1
  <2>2. 1 .. (i - 1) \subseteq 1 .. i /\ i \in 1 .. i
    BY <1>1, HistoryDomain
  <2> QED
    BY <2>1, <2>2
<1> QED
  BY <1>1, <1>2 DEF PairsCount

-----------------------------------------------------------------------------
(* What `latest' has to satisfy past position i, in terms of the state before. *)
LEMMA AdvanceRemembers ==
    ASSUME TypeOK, Looping, Advance,
           \A ck \in Client \X Key :
              /\ latest'[ck] # 0 =>
                    latest'[ck] \in 1 .. i /\ Seen(latest'[ck], ck)
              /\ \A a \in 1 .. i : Seen(a, ck) =>
                    /\ latest'[ck] # 0
                    /\ history[a].version <= history[latest'[ck]].version
    PROVE  Remembers'
<1>1. i' - 1 = i /\ property' = property /\ history' = history
  BY HistoryDomain DEF Advance
<1> QED
  BY <1>1 DEF Remembers, Seen

(* `latest' may stay as it is past an event it does not remember or one no     *)
(* fresher than what it remembers.                                            *)
LEMMA AdvanceUnremembered ==
    ASSUME TypeOK, Remembers, Looping, Advance, latest' = latest,
           \/ ~(Counted(e) /\ e.op = PriorOp(property))
           \/ /\ latest[CK(e)] # 0
              /\ e.version <= history[latest[CK(e)]].version
    PROVE  Remembers'
<1>1. 1 .. i = (1 .. (i - 1)) \union {i}
  BY HistoryDomain
<1>2. \A ck : Seen(i, ck) =>
         /\ latest[ck] # 0
         /\ history[i].version <= history[latest[ck]].version
  BY DEF Seen, e
<1>3. SUFFICES ASSUME NEW ck \in Client \X Key
               PROVE  /\ latest[ck] # 0 =>
                            latest[ck] \in 1 .. i /\ Seen(latest[ck], ck)
                      /\ \A a \in 1 .. i : Seen(a, ck) =>
                            /\ latest[ck] # 0
                            /\ history[a].version <= history[latest[ck]].version
  BY AdvanceRemembers
<1> QED
  BY <1>1, <1>2 DEF Remembers

(* Remembering an event at least as fresh as the one remembered before.       *)
LEMMA AdvanceRemembered ==
    ASSUME TypeOK, Remembers, Looping, Advance,
           Counted(e), e.op = PriorOp(property),
           latest' = [latest EXCEPT ![CK(e)] = i],
           latest[CK(e)] # 0 => history[latest[CK(e)]].version <= e.version
    PROVE  Remembers'
<1>1. i \in 1 .. Len(history) /\ 1 .. i = (1 .. (i - 1)) \union {i} /\ i # 0
  BY HistoryDomain
<1>2. history \in Seq(Event) /\ latest \in [Client \X Key -> 0 .. Len(history)]
  BY DEF TypeOK
<1>3. CK(e) \in Client \X Key /\ e.version \in Nat
  BY <1>1, <1>2, CountedFields DEF e
<1>4. SUFFICES ASSUME NEW ck \in Client \X Key
               PROVE  /\ latest'[ck] # 0 =>
                            latest'[ck] \in 1 .. i /\ Seen(latest'[ck], ck)
                      /\ \A a \in 1 .. i : Seen(a, ck) =>
                            /\ latest'[ck] # 0
                            /\ history[a].version <= history[latest'[ck]].version
  BY AdvanceRemembers
<1>5. CASE ck # CK(e)
  <2>1. latest'[ck] = latest[ck]
    BY <1>2, <1>5
  <2>2. ~Seen(i, ck)
    BY <1>5 DEF Seen, e
  <2> QED
    BY <1>1, <2>1, <2>2 DEF Remembers
<1>6. CASE ck = CK(e)
  <2>1. latest'[ck] = i
    BY <1>2, <1>6
  <2>2. Seen(i, ck)
    BY <1>6 DEF Seen, e
  <2>3. ASSUME NEW a \in 1 .. i, Seen(a, ck)
        PROVE  history[a].version <= history[i].version
    <3>1. CASE a = i
      BY <1>3, <3>1 DEF e
    <3>2. CASE a # i
      <4>1. a \in 1 .. (i - 1)
        BY <1>1, <3>2
      <4>2. /\ latest[ck] # 0 /\ latest[ck] \in 1 .. (i - 1)
            /\ Seen(latest[ck], ck)
            /\ history[a].version <= history[latest[ck]].version
        BY <2>3, <4>1 DEF Remembers
      <4>3. history[latest[ck]].version <= e.version
        BY <1>6, <4>2
      <4>4. a \in 1 .. Len(history) /\ latest[ck] \in 1 .. Len(history)
        BY <1>1, <1>2, <4>1, <4>2
      <4>5. history[a].version \in Nat /\ history[latest[ck]].version \in Nat
        BY <1>2, <2>3, <4>2, <4>4, CountedFields DEF Seen
      <4> QED
        BY <1>3, <4>2, <4>3, <4>5 DEF e
    <3> QED
      BY <3>1, <3>2
  <2> QED
    BY <1>1, <2>1, <2>2, <2>3
<1> QED
  BY <1>5, <1>6

-----------------------------------------------------------------------------
(* A pass of the loop body that does not return.                              *)
LEMMA PassIInv ==
    ASSUME IInv, Looping, Advance,
           latest' \in [Client \X Key -> 0 .. Len(history)],
           pairs' \in Nat,
           \A a \in 1 .. (i - 1) : ~Stale(property, history, a, i),
           pairs' > 0 <=>
              \/ pairs > 0
              \/ \E a \in 1 .. (i - 1) : SessionPair(property, history, a, i),
           Remembers'
    PROVE  IInv'
<1>1. TypeOK /\ Clean /\ PairsCount
  BY DEF IInv, Looping
<1>2. TypeOK'
  BY <1>1, HistoryDomain DEF TypeOK, Advance, Looping
<1>3. Clean'
  BY <1>1, AdvanceClean
<1>4. PairsCount'
  BY <1>1, AdvancePairs
<1>5. status' = "running"
  BY DEF Advance, Looping
<1> QED
  BY <1>2, <1>3, <1>4, <1>5 DEF IInv, AnswerIsVerdict, WitnessIsFirst

LEMMA SkipIInv == IInv /\ Skip => IInv'
<1> SUFFICES ASSUME IInv, Skip PROVE IInv'
  OBVIOUS
<1>1. TypeOK /\ Remembers /\ Looping /\ Advance /\ latest' = latest /\ pairs' = pairs
  BY DEF IInv, Skip
<1>2. ~(Counted(e) /\ e.op = "read")
  BY DEF Skip, RYW, MR
<1>3. ~(Counted(e) /\ e.op = PriorOp(property))
  BY <1>1 DEF Skip, PriorOp, TypeOK, RYW, MR, MW
<1>4. \A a : ~SessionPair(property, history, a, i)
  BY <1>2, NotCompared
<1>5. Remembers'
  BY <1>1, <1>3, AdvanceUnremembered
<1> QED
  BY <1>1, <1>4, <1>5, PassIInv DEF Stale, TypeOK

LEMMA RememberWriteIInv == IInv /\ RememberWrite => IInv'
<1> SUFFICES ASSUME IInv, RememberWrite PROVE IInv'
  OBVIOUS
<1>1. TypeOK /\ Remembers /\ Looping /\ Advance /\ pairs' = pairs
  BY DEF IInv, RememberWrite
<1>2. Counted(e) /\ e.op = "write" /\ e.op = PriorOp(property)
  BY DEF RememberWrite, PriorOp
<1>3. \A a : ~SessionPair(property, history, a, i)
  BY <1>2, NotCompared
<1>4. i \in 1 .. Len(history) /\ history \in Seq(Event)
      /\ latest \in [Client \X Key -> 0 .. Len(history)]
  BY <1>1, HistoryDomain DEF TypeOK
<1>5. CK(e) \in Client \X Key /\ e.version \in Nat
  BY <1>2, <1>4, CountedFields DEF e
<1>6. latest[CK(e)] # 0 => history[latest[CK(e)]].version \in Nat
  <2>1. ASSUME latest[CK(e)] # 0
        PROVE  Counted(history[latest[CK(e)]]) /\ latest[CK(e)] \in 1 .. Len(history)
    BY <1>1, <1>4, <1>5, <2>1 DEF Remembers, Seen
  <2> QED
    BY <1>4, <2>1, CountedFields
<1>7. CASE latest[CK(e)] = 0 \/ e.version > history[latest[CK(e)]].version
  <2>1. latest' = [latest EXCEPT ![CK(e)] = i]
    BY <1>7 DEF RememberWrite, Fresher
  <2>2. latest[CK(e)] # 0 => history[latest[CK(e)]].version <= e.version
    BY <1>5, <1>6, <1>7
  <2>3. Remembers'
    BY <1>1, <1>2, <2>1, <2>2, AdvanceRemembered
  <2>4. latest' \in [Client \X Key -> 0 .. Len(history)]
    <3>1. i \in 0 .. Len(history)
      BY <1>4
    <3> QED
      BY <1>4, <2>1, <3>1, ExceptType
  <2> QED
    BY <1>1, <1>3, <2>3, <2>4, PassIInv DEF Stale, TypeOK
<1>8. CASE ~(latest[CK(e)] = 0 \/ e.version > history[latest[CK(e)]].version)
  <2>1. latest' = latest
    BY <1>8 DEF RememberWrite, Fresher
  <2>2. latest[CK(e)] # 0 /\ e.version <= history[latest[CK(e)]].version
    BY <1>5, <1>6, <1>8
  <2>3. Remembers'
    BY <1>1, <2>1, <2>2, AdvanceUnremembered
  <2> QED
    BY <1>1, <1>3, <1>4, <2>1, <2>3, PassIInv DEF Stale, TypeOK
<1> QED
  BY <1>7, <1>8

(* The counter of compared pairs, after a read that is not stale.             *)
LEMMA ComparePairs ==
    ASSUME IInv, Looping, Counted(e), e.op = "read", ~Older,
           pairs' = IF latest[CK(e)] = 0 THEN pairs ELSE pairs + 1
    PROVE  /\ pairs' \in Nat
           /\ \A a \in 1 .. (i - 1) : ~Stale(property, history, a, i)
           /\ pairs' > 0 <=>
                \/ pairs > 0
                \/ \E a \in 1 .. (i - 1) : SessionPair(property, history, a, i)
<1>1. pairs \in Nat
  BY DEF IInv, TypeOK
<1> QED
  BY <1>1, RememberedPair

LEMMA CompareRYWIInv == IInv /\ CompareRYW => IInv'
<1> SUFFICES ASSUME IInv, CompareRYW PROVE IInv'
  OBVIOUS
<1>1. /\ TypeOK /\ Remembers /\ Looping /\ Advance /\ latest' = latest
      /\ Counted(e) /\ e.op = "read" /\ ~Older
      /\ pairs' = IF latest[CK(e)] = 0 THEN pairs ELSE pairs + 1
  BY DEF IInv, CompareRYW
<1>2. ~(e.op = PriorOp(property))
  BY <1>1 DEF CompareRYW, PriorOp
<1>3. Remembers'
  BY <1>1, <1>2, AdvanceUnremembered
<1> QED
  BY <1>1, <1>3, ComparePairs, PassIInv DEF TypeOK

LEMMA CompareMRIInv == IInv /\ CompareMR => IInv'
<1> SUFFICES ASSUME IInv, CompareMR PROVE IInv'
  OBVIOUS
<1>1. /\ TypeOK /\ Remembers /\ Looping /\ Advance
      /\ Counted(e) /\ e.op = "read" /\ ~Older
      /\ pairs' = IF latest[CK(e)] = 0 THEN pairs ELSE pairs + 1
      /\ latest' = [latest EXCEPT ![CK(e)] = i]
  BY DEF IInv, CompareMR
<1>2. e.op = PriorOp(property)
  BY <1>1 DEF CompareMR, PriorOp, RYW, MR, MW
<1>3. i \in 1 .. Len(history) /\ history \in Seq(Event)
      /\ latest \in [Client \X Key -> 0 .. Len(history)]
  BY <1>1, HistoryDomain DEF TypeOK
<1>4. CK(e) \in Client \X Key /\ e.version \in Nat
  BY <1>1, <1>3, CountedFields DEF e
<1>5. latest[CK(e)] # 0 => history[latest[CK(e)]].version <= e.version
  <2> SUFFICES ASSUME latest[CK(e)] # 0
               PROVE  history[latest[CK(e)]].version <= e.version
    OBVIOUS
  <2>1. Counted(history[latest[CK(e)]]) /\ latest[CK(e)] \in 1 .. Len(history)
    BY <1>1, <1>3, <1>4 DEF Remembers, Seen
  <2>2. history[latest[CK(e)]].version \in Nat
    BY <1>3, <2>1, CountedFields
  <2> QED
    BY <1>1, <1>4, <2>2 DEF Older
<1>6. Remembers'
  BY <1>1, <1>2, <1>5, AdvanceRemembered
<1>7. latest' \in [Client \X Key -> 0 .. Len(history)]
  <2>1. i \in 0 .. Len(history)
    BY <1>3
  <2> QED
    BY <1>1, <1>3, <2>1, ExceptType
<1> QED
  BY <1>1, <1>6, <1>7, ComparePairs, PassIInv

LEMMA ReportIInv == IInv /\ Report => IInv'
<1> SUFFICES ASSUME IInv, Report PROVE IInv'
  OBVIOUS
<1> DEFINE l == latest[CK(e)]
<1>1. TypeOK /\ Clean /\ Remembers /\ Looping /\ Counted(e) /\ e.op = "read" /\ Older
  BY DEF IInv, Report
<1>2. /\ i \in 1 .. Len(history) /\ DOMAIN history = 1 .. Len(history)
      /\ history \in Seq(Event)
  BY <1>1, HistoryDomain
<1>3. CK(e) \in Client \X Key
  BY <1>1, <1>2, CountedFields DEF e
<1>4. l \in 1 .. (i - 1) /\ l \in 1 .. Len(history)
  BY <1>1, <1>2, <1>3 DEF Remembers, Older
<1>5. Stale(property, history, l, i)
  BY <1>1, RememberedPair
<1>6. /\ UNCHANGED <<property, history, i, latest>>
      /\ pairs' = pairs + 1 /\ status' = "VIOLATION" /\ witness' = <<l, i>>
  BY DEF Report
<1>7. TypeOK'
  BY <1>1, <1>2, <1>4, <1>6 DEF TypeOK, Verdicts
<1>8. Clean' /\ Remembers'
  BY <1>1, <1>6 DEF Clean, Remembers, Seen
<1>9. AnswerIsVerdict'
  BY <1>2, <1>4, <1>5, <1>6 DEF AnswerIsVerdict, SessionVerdict
<1>10. WitnessIsFirst'
  <2>1. ASSUME NEW a \in 1 .. Len(history), NEW b \in 1 .. Len(history),
               Stale(property, history, a, b), ~(i <= b)
        PROVE  FALSE
    <3>1. a < b
      BY <2>1 DEF Stale, SessionPair
    <3>2. a \in 1 .. (i - 1) /\ b \in 1 .. (i - 1)
      BY <1>2, <2>1, <3>1
    <3> QED
      BY <1>1, <2>1, <3>2 DEF Clean
  <2>2. Len(<<l, i>>) = 2 /\ <<l, i>>[1] = l /\ <<l, i>>[2] = i
    OBVIOUS
  <2> QED
    BY <1>5, <1>6, <2>1, <2>2 DEF WitnessIsFirst
<1> QED
  BY <1>6, <1>7, <1>8, <1>9, <1>10 DEF IInv

LEMMA ReturnIInv == IInv /\ Return => IInv'
<1> SUFFICES ASSUME IInv, Return PROVE IInv'
  OBVIOUS
<1>1. /\ TypeOK /\ Clean /\ Remembers /\ PairsCount
      /\ i = Len(history) + 1 /\ status' = Finish(pairs > 0, history)
      /\ UNCHANGED <<property, history, i, latest, pairs, witness>>
  BY DEF IInv, Return
<1>2. DOMAIN history = 1 .. (i - 1)
  BY <1>1, HistoryDomain
<1>3. status' = SessionVerdict(property, history)
  <2> DEFINE Paired == \E a, b \in DOMAIN history : SessionPair(property, history, a, b)
  <2>1. ~ \E a, b \in DOMAIN history : Stale(property, history, a, b)
    BY <1>1, <1>2 DEF Clean
  <2>2. Finish(pairs > 0, history) = Finish(Paired, history)
    BY <1>1, <1>2 DEF PairsCount, Finish
  <2>3. SessionVerdict(property, history) = Finish(Paired, history)
    BY <2>1 DEF SessionVerdict
  <2> QED
    BY <1>1, <2>2, <2>3
<1>4. status' \in {"PASS", "INCONCLUSIVE"}
  BY <1>1 DEF Finish
<1>5. TypeOK'
  BY <1>1, <1>4 DEF TypeOK, Verdicts
<1>6. Clean' /\ Remembers'
  BY <1>1 DEF Clean, Remembers, Seen
<1> QED
  BY <1>1, <1>3, <1>4, <1>5, <1>6 DEF IInv, AnswerIsVerdict, WitnessIsFirst

LEMMA NextIInv == IInv /\ [Next]_vars => IInv'
<1> SUFFICES ASSUME IInv, [Next]_vars PROVE IInv'
  OBVIOUS
<1>1. CASE UNCHANGED vars
  BY <1>1 DEF vars, IInv, TypeOK, Clean, Remembers, Seen, PairsCount,
              AnswerIsVerdict, WitnessIsFirst
<1> QED
  BY <1>1, SkipIInv, RememberWriteIInv, CompareRYWIInv, CompareMRIInv,
     ReportIInv, ReturnIInv DEF Next

-----------------------------------------------------------------------------
(* The inductive invariant of both loops.                                     *)
THEOREM Inductive == Spec => []IInv
  BY InitIInv, NextIInv, PTL DEF Spec

(* The variables of both loops keep their types.                              *)
THEOREM TypeCorrect == Spec => []TypeOK
<1>1. IInv => TypeOK
  BY DEF IInv
<1> QED
  BY <1>1, Inductive, PTL

(* check_read_your_writes and check_monotonic_reads, which remember one event  *)
(* per client and key, answer what all pairs of the history say: VIOLATION    *)
(* iff some read is stale, PASS iff there is a pair to compare, none is stale  *)
(* and no required event failed.                                              *)
THEOREM LoopDecidesGuarantee == Spec => []AnswerIsVerdict
<1>1. IInv => AnswerIsVerdict
  BY DEF IInv
<1> QED
  BY <1>1, Inductive, PTL

(* The witness of a VIOLATION is a stale pair, and the first to complete.      *)
THEOREM LoopReportsFirst == Spec => []WitnessIsFirst
<1>1. IInv => WitnessIsFirst
  BY DEF IInv
<1> QED
  BY <1>1, Inductive, PTL

-----------------------------------------------------------------------------
(* Judging dependencies by probes (_dependencies, _check_probes).            *)
IsHistory(h) == Len(h) \in Nat /\ DOMAIN h = 1 .. Len(h)

(* Among some of the positions of a history there is a last one.             *)
LEMMA LastPosition ==
    ASSUME NEW n \in Nat, NEW P, P \subseteq 1 .. n, P # {}
    PROVE  \E p \in P : \A q \in P : q <= p
<1> DEFINE D == {d \in Nat : \E q \in P : d = n - q}
<1>1. D \subseteq Nat /\ D # {}
  <2>1. PICK q \in P : TRUE
    OBVIOUS
  <2>2. n - q \in Nat
    BY <2>1
  <2> QED
    BY <2>1, <2>2, Zenon
<1>2. PICK d \in D : \A c \in D : ~(<<c, d>> \in OpToRel(<, Nat))
  BY <1>1, NatLessThanWellFounded, WFMin
<1>3. \A c \in D : ~(c < d)
  BY <1>1, <1>2 DEF OpToRel
<1>4. PICK p \in P : d = n - p
  OBVIOUS
<1>5. \A q \in P : n - q \in D
  OBVIOUS
<1>6. \A q \in P : q <= p
  BY <1>3, <1>4, <1>5
<1> QED
  BY <1>6

(* The cause of a candidate justifies it, and is the last that does.         *)
LEMMA CauseJustifies ==
    ASSUME NEW h, IsHistory(h), NEW p, NEW b \in Candidates(p, h)
    PROVE  /\ Cause(p, h, b) \in DOMAIN h
           /\ Justifies(p, h, Cause(p, h, b), b)
           /\ \A c \in DOMAIN h : Justifies(p, h, c, b) => c <= Cause(p, h, b)
<1> DEFINE P == {a \in DOMAIN h : Justifies(p, h, a, b)}
<1>1. P # {} /\ P \subseteq 1 .. Len(h)
  BY DEF Candidates, IsHistory
<1>2. PICK a \in P : \A c \in P : c <= a
  BY <1>1, LastPosition DEF IsHistory
<1>3. \E q \in DOMAIN h : /\ Justifies(p, h, q, b)
                          /\ \A c \in DOMAIN h : Justifies(p, h, c, b) => c <= q
  BY <1>2
<1> QED
  BY <1>3, Zenon DEF Cause

(* All causes of an effect have the version that it depends on.              *)
LEMMA CausesAgree ==
    ASSUME NEW h, IsHistory(h), NEW p, NEW b, NEW a \in DOMAIN h,
           b \in DOMAIN h, Justifies(p, h, a, b)
    PROVE  b \in Candidates(p, h) /\ h[a].version = h[Cause(p, h, b)].version
<1>1. b \in Candidates(p, h)
  BY DEF Candidates
<1>2. Justifies(p, h, Cause(p, h, b), b)
  BY <1>1, CauseJustifies
<1> QED
  BY <1>1, <1>2, Zenon DEF Justifies

LEMMA FinishNoViolation ==
    ASSUME NEW c, NEW h PROVE Finish(c, h) # "VIOLATION"
  BY DEF Finish

(* In any history, whichever of the matching causes is taken.                *)
THEOREM CauseDoesNotMatter ==
    ASSUME NEW h, IsHistory(h), NEW p \in {MW, WFR}
    PROVE  ProbeVerdict(p, h) = "VIOLATION" <=>
              \E q, a, b \in DOMAIN h :
                 /\ Justifies(p, h, a, b)
                 /\ Exposes(p, h, q, b)
                 /\ h[q].probe.cause_version < h[a].version
<1>1. ProbeVerdict(p, h) = "VIOLATION" <=>
         \E q \in DOMAIN h, b \in Candidates(p, h) : LacksCause(p, h, q, b)
  BY FinishNoViolation DEF ProbeVerdict
<1>2. ASSUME NEW q \in DOMAIN h, NEW b \in Candidates(p, h), LacksCause(p, h, q, b)
      PROVE  \E a \in DOMAIN h : /\ Justifies(p, h, a, b) /\ b \in DOMAIN h
                                 /\ Exposes(p, h, q, b)
                                 /\ h[q].probe.cause_version < h[a].version
  <2>1. /\ Cause(p, h, b) \in DOMAIN h /\ Justifies(p, h, Cause(p, h, b), b)
        /\ b \in DOMAIN h
    BY CauseJustifies DEF Candidates
  <2> QED
    BY <1>2, <2>1, Zenon DEF LacksCause
<1>3. ASSUME NEW q \in DOMAIN h, NEW a \in DOMAIN h, NEW b \in DOMAIN h,
             Justifies(p, h, a, b), Exposes(p, h, q, b),
             h[q].probe.cause_version < h[a].version
      PROVE  b \in Candidates(p, h) /\ LacksCause(p, h, q, b)
  BY <1>3, CausesAgree DEF LacksCause
<1> QED
  BY <1>1, <1>2, <1>3, Zenon

-----------------------------------------------------------------------------
(* The audit of an application order (check_monotonic_writes).               *)
InOrder(h, k, n, u) == n \in DOMAIN h[k].order /\ h[k].order[n] = h[u].write_id

(* u is listed at m before w at n, and has the larger sequence number.       *)
Inverts(h, k, m, n, u, w) ==
    /\ u \in AuditWrites(h) /\ w \in AuditWrites(h)
    /\ InOrder(h, k, m, u) /\ InOrder(h, k, n, w) /\ m < n
    /\ h[u].client = h[w].client /\ h[w].seq < h[u].seq

(* The writes of the audit are numbered, and its order is a list.            *)
Numbered(h) ==
    /\ \A j \in DOMAIN h : h[j].seq \in Nat \union {None}
    /\ \A k \in DOMAIN h : /\ Len(h[k].order) \in Nat
                           /\ DOMAIN h[k].order = 1 .. Len(h[k].order)

(* An inversion contains one of neighbours: what stands between the closest  *)
(* two inverted writes of a client is of other clients.                      *)
LEMMA ClosestInversion ==
    ASSUME NEW h, Numbered(h), NEW k \in DOMAIN h, NEW m, NEW n, NEW u, NEW w,
           Inverts(h, k, m, n, u, w)
    PROVE  Reversed(h, k)
<1> DEFINE D == {d \in Nat : \E p, q \in DOMAIN h[k].order, a, b \in AuditWrites(h) :
                               Inverts(h, k, p, q, a, b) /\ d = q - p}
<1>0. DOMAIN h[k].order = 1 .. Len(h[k].order) /\ Len(h[k].order) \in Nat
  BY DEF Numbered
<1>1. D \subseteq Nat
  OBVIOUS
<1>2. n - m \in D
  <2>1. /\ m \in DOMAIN h[k].order /\ n \in DOMAIN h[k].order /\ m < n
        /\ u \in AuditWrites(h) /\ w \in AuditWrites(h)
    BY DEF Inverts, InOrder
  <2>2. n - m \in Nat
    BY <1>0, <2>1
  <2> QED
    BY <2>1, <2>2, Zenon
<1>3. PICK d \in D : \A c \in D : ~(<<c, d>> \in OpToRel(<, Nat))
  BY <1>1, <1>2, NatLessThanWellFounded, WFMin, Zenon
<1>4. \A c \in D : ~(c < d)
  BY <1>1, <1>3 DEF OpToRel
<1>5. PICK p \in DOMAIN h[k].order, q \in DOMAIN h[k].order,
           a \in AuditWrites(h), b \in AuditWrites(h) :
                Inverts(h, k, p, q, a, b) /\ d = q - p
  BY <1>3, Zenon
<1>6. \A l \in DOMAIN h[k].order, v \in AuditWrites(h) :
         /\ Inverts(h, k, p, l, a, v) /\ l - p \in Nat => ~(l - p < d)
         /\ Inverts(h, k, l, q, v, b) /\ q - l \in Nat => ~(q - l < d)
  BY <1>4, <1>5, Zenon
<1>7. \A j \in AuditWrites(h) : h[j].seq \in Nat
  BY DEF AuditWrites, Sequenced, Numbered
<1>8. /\ InOrder(h, k, p, a) /\ InOrder(h, k, q, b) /\ p < q
      /\ h[a].client = h[b].client /\ h[b].seq < h[a].seq
  BY <1>5, Zenon DEF Inverts
<1>9. ASSUME NEW l \in (p + 1) .. (q - 1), NEW v \in AuditWrites(h),
             h[k].order[l] = h[v].write_id, h[v].client = h[b].client
      PROVE  FALSE
  <2>1. /\ l \in DOMAIN h[k].order /\ p < l /\ l < q
        /\ l - p \in Nat /\ q - l \in Nat
        /\ l - p < q - p /\ q - l < q - p
    BY SMTT(40), <1>0, <1>5, <1>8
  <2>2. InOrder(h, k, l, v)
    BY <1>9, <2>1, Zenon DEF InOrder
  <2>3. CASE h[v].seq < h[a].seq
    <3>1. Inverts(h, k, p, l, a, v)
      BY <1>5, <1>8, <1>9, <2>1, <2>2, <2>3, Zenon DEF Inverts
    <3> QED
      BY <1>5, <1>6, <2>1, <3>1, Zenon
  <2>4. CASE ~(h[v].seq < h[a].seq)
    <3>1. h[b].seq < h[v].seq
      BY <1>5, <1>7, <1>8, <1>9, <2>4
    <3>2. Inverts(h, k, l, q, v, b)
      BY <1>5, <1>8, <1>9, <2>1, <2>2, <3>1, Zenon DEF Inverts
    <3> QED
      BY <1>5, <1>6, <2>1, <3>2, Zenon
  <2> QED
    BY <2>3, <2>4
<1> QED
  BY <1>5, <1>8, <1>9, Zenon DEF Reversed, InOrder

(* The audit finds an inversion of any two writes of a client, in any        *)
(* numbered history.                                                         *)
THEOREM NeighboursSuffice ==
    ASSUME NEW h, Numbered(h)
    PROVE  AuditVerdict(h) = "VIOLATION" <=>
              \E k \in DOMAIN h :
                 /\ UsableAudit(h, k)
                 /\ \E u, w \in AuditWrites(h), m, n \in DOMAIN h[k].order :
                       /\ m < n
                       /\ h[k].order[m] = h[u].write_id
                       /\ h[k].order[n] = h[w].write_id
                       /\ h[u].client = h[w].client
                       /\ h[w].seq < h[u].seq
<1>1. AuditVerdict(h) = "VIOLATION" <=>
         \E k \in DOMAIN h : UsableAudit(h, k) /\ Reversed(h, k)
  BY FinishNoViolation DEF AuditVerdict
<1>2. ASSUME NEW k \in DOMAIN h, NEW u \in AuditWrites(h), NEW w \in AuditWrites(h),
             NEW m \in DOMAIN h[k].order, NEW n \in DOMAIN h[k].order,
             m < n, h[k].order[m] = h[u].write_id, h[k].order[n] = h[w].write_id,
             h[u].client = h[w].client, h[w].seq < h[u].seq
      PROVE  Reversed(h, k)
  <2>1. Inverts(h, k, m, n, u, w)
    BY <1>2, Zenon DEF Inverts, InOrder
  <2> QED
    BY <2>1, ClosestInversion
<1>3. ASSUME NEW k \in DOMAIN h, Reversed(h, k)
      PROVE  \E u, w \in AuditWrites(h), m, n \in DOMAIN h[k].order :
                /\ m < n
                /\ h[k].order[m] = h[u].write_id
                /\ h[k].order[n] = h[w].write_id
                /\ h[u].client = h[w].client
                /\ h[w].seq < h[u].seq
  BY <1>3, Zenon DEF Reversed
<1> QED
  BY <1>1, <1>2, <1>3, Zenon

-----------------------------------------------------------------------------
(* What is observed later.                                                   *)
Continues(g, h) ==
    /\ IsHistory(h) /\ IsHistory(g)
    /\ \A a \in DOMAIN h : a \in DOMAIN g /\ g[a] = h[a]

LEMMA StalePersists ==
    ASSUME NEW h, NEW g, Continues(g, h), NEW p, NEW a \in DOMAIN h, NEW b \in DOMAIN h,
           Stale(p, h, a, b)
    PROVE  a \in DOMAIN g /\ b \in DOMAIN g /\ Stale(p, g, a, b)
<1>1. a \in DOMAIN g /\ b \in DOMAIN g /\ g[a] = h[a] /\ g[b] = h[b]
  BY Zenon DEF Continues
<1> QED
  BY <1>1, Zenon DEF Stale, SessionPair

(* Later events justify no earlier effect: it keeps its cause.               *)
LEMMA CausePersists ==
    ASSUME NEW h, NEW g, Continues(g, h), NEW p, NEW b \in Candidates(p, h)
    PROVE  b \in Candidates(p, g) /\ Cause(p, g, b) = Cause(p, h, b)
<1>1. /\ b \in DOMAIN h /\ b \in DOMAIN g /\ g[b] = h[b]
      /\ IsHistory(h) /\ IsHistory(g)
  BY Zenon DEF Candidates, Continues
<1> DEFINE a == Cause(p, h, b)
           c == Cause(p, g, b)
<1>2. /\ a \in DOMAIN h /\ Justifies(p, h, a, b)
      /\ \A d \in DOMAIN h : Justifies(p, h, d, b) => d <= a
  BY <1>1, CauseJustifies, Zenon
<1>3. a \in DOMAIN g /\ Justifies(p, g, a, b)
  <2>1. a \in DOMAIN g /\ g[a] = h[a]
    BY <1>2, Zenon DEF Continues
  <2> QED
    BY <1>1, <1>2, <2>1, Zenon DEF Justifies
<1>4. b \in Candidates(p, g)
  BY <1>1, <1>3, Zenon DEF Candidates
<1>5. /\ c \in DOMAIN g /\ Justifies(p, g, c, b)
      /\ \A d \in DOMAIN g : Justifies(p, g, d, b) => d <= c
  BY <1>1, <1>4, CauseJustifies, Zenon
<1>6. c \in DOMAIN h
  <2>1. c < b
    BY <1>5, Zenon DEF Justifies
  <2> QED
    BY <1>1, <1>5, <2>1 DEF IsHistory
<1>7. Justifies(p, h, c, b)
  <2>1. g[c] = h[c]
    BY <1>6, Zenon DEF Continues
  <2> QED
    BY <1>1, <1>5, <2>1, Zenon DEF Justifies
<1>8. a <= c /\ c <= a /\ a \in Nat /\ c \in Nat
  BY <1>1, <1>2, <1>3, <1>5, <1>6, <1>7 DEF IsHistory
<1>9. a = c
  BY <1>8
<1> QED
  BY <1>4, <1>9, Zenon

LEMMA ProbePersists ==
    ASSUME NEW h, NEW g, Continues(g, h), NEW p, ProbeVerdict(p, h) = "VIOLATION"
    PROVE  ProbeVerdict(p, g) = "VIOLATION"
<1>1. PICK q \in DOMAIN h, b \in Candidates(p, h) : LacksCause(p, h, q, b)
  BY FinishNoViolation DEF ProbeVerdict
<1>2. b \in Candidates(p, g) /\ Cause(p, g, b) = Cause(p, h, b)
  BY CausePersists
<1>3. b \in DOMAIN h /\ Cause(p, h, b) \in DOMAIN h
  BY CauseJustifies DEF Candidates, Continues
<1>4. /\ q \in DOMAIN g /\ g[q] = h[q] /\ g[b] = h[b]
      /\ g[Cause(p, g, b)] = h[Cause(p, h, b)]
  BY <1>2, <1>3, Zenon DEF Continues
<1>5. LacksCause(p, g, q, b)
  BY <1>1, <1>4, Zenon DEF LacksCause, Exposes
<1> QED
  BY <1>2, <1>4, <1>5, Zenon DEF ProbeVerdict

LEMMA ObserverPersists ==
    ASSUME NEW h, NEW g, Continues(g, h), ObserverVerdict(h) = "VIOLATION"
    PROVE  ObserverVerdict(g) = "VIOLATION"
<1>1. PICK b \in Candidates(WFR, h), s \in DOMAIN h, r \in DOMAIN h :
         MockObserves(h, b, s, r) /\ h[r].version < h[Cause(WFR, h, b)].version
  BY FinishNoViolation DEF ObserverVerdict
<1>2. b \in Candidates(WFR, g) /\ Cause(WFR, g, b) = Cause(WFR, h, b)
  BY CausePersists
<1>3. b \in DOMAIN h /\ Cause(WFR, h, b) \in DOMAIN h
  BY CauseJustifies DEF Candidates, Continues
<1>4. /\ s \in DOMAIN g /\ r \in DOMAIN g /\ g[s] = h[s] /\ g[r] = h[r] /\ g[b] = h[b]
      /\ g[Cause(WFR, g, b)] = h[Cause(WFR, h, b)]
  BY <1>2, <1>3, Zenon DEF Continues
<1>5. MockObserves(g, b, s, r) /\ g[r].version < g[Cause(WFR, g, b)].version
  BY <1>1, <1>4, Zenon DEF MockObserves
<1> QED
  BY <1>2, <1>4, <1>5, Zenon DEF ObserverVerdict

(* A violation stays one in every continuation with the same evidence.       *)
THEOREM ViolationPersists ==
    ASSUME NEW h, NEW g, Continues(g, h), NEW p \in Properties,
           HasProbe(h) <=> HasProbe(g), p = MW => HasProbe(h),
           Check(p, h) = "VIOLATION"
    PROVE  Check(p, g) = "VIOLATION"
<1>1. CASE p \in {RYW, MR}
  <2>1. Check(p, h) = SessionVerdict(p, h) /\ Check(p, g) = SessionVerdict(p, g)
    BY <1>1 DEF Check, RYW, MR, MW, WFR
  <2>2. PICK a \in DOMAIN h, b \in DOMAIN h : Stale(p, h, a, b)
    BY <2>1, FinishNoViolation DEF SessionVerdict
  <2>3. a \in DOMAIN g /\ b \in DOMAIN g /\ Stale(p, g, a, b)
    BY <2>2, StalePersists
  <2> QED
    BY <2>1, <2>3, Zenon DEF SessionVerdict
<1>2. CASE p \in {MW, WFR} /\ HasProbe(h)
  <2>1. Check(p, h) = ProbeVerdict(p, h) /\ Check(p, g) = ProbeVerdict(p, g)
    BY <1>2 DEF Check, RYW, MR, MW, WFR
  <2> QED
    BY <2>1, ProbePersists
<1>3. CASE p = WFR /\ ~HasProbe(h)
  <2>1. Check(p, h) = ObserverVerdict(h) /\ Check(p, g) = ObserverVerdict(g)
    BY <1>3 DEF Check, RYW, MR, MW, WFR
  <2> QED
    BY <2>1, ObserverPersists
<1> QED
  BY <1>1, <1>2, <1>3 DEF Properties

-----------------------------------------------------------------------------
(* The trajectories of the model.                                            *)
Observed == ProbeObservations \union MockObservations

TrajectoryTyped ==
    job # "loops" => property \in Properties /\ history \in Seq(Observed)

LEMMA TrajectoryBegins == JobInit => TrajectoryTyped
<1> SUFFICES ASSUME JobInit, job # "loops" PROVE TrajectoryTyped
  BY DEF TrajectoryTyped
<1>1. Probed!Init
  BY Zenon DEF JobInit
<1>2. property \in Properties /\ history = <<>>
  BY <1>1, Zenon DEF Probed!Init, Probed!Properties, Properties,
                     Probed!RYW, Probed!MR, Probed!MW, Probed!WFR, RYW, MR, MW, WFR
<1>3. <<>> \in Seq(Observed)
  OBVIOUS
<1> QED
  BY <1>2, <1>3, Zenon DEF TrajectoryTyped

LEMMA TrajectoryStep ==
    ASSUME TrajectoryTyped, [JobNext]_<<vars, job>>, job # "loops"
    PROVE  /\ property' = property /\ job' = job
           /\ UNCHANGED history \/ \E o \in Observed : history' = Append(history, o)
<1>1. CASE UNCHANGED <<vars, job>>
  BY <1>1 DEF vars
<1>2. CASE job = "probes" /\ Probed!Next /\ UNCHANGED job
  BY <1>2 DEF Probed!Next, Probed!Execute, Observed
<1>3. CASE job = "mock" /\ Mocked!Next /\ UNCHANGED job
  BY <1>3 DEF Mocked!Next, Mocked!Execute, Observed
<1> QED
  BY <1>1, <1>2, <1>3, Zenon DEF JobNext

LEMMA TrajectoryKeeps ==
    TrajectoryTyped /\ [JobNext]_<<vars, job>> => TrajectoryTyped'
<1> SUFFICES ASSUME TrajectoryTyped, [JobNext]_<<vars, job>> PROVE TrajectoryTyped'
  OBVIOUS
<1>1. job' = job
  BY Zenon DEF JobNext
<1>2. CASE job = "loops"
  BY <1>1, <1>2 DEF TrajectoryTyped
<1>3. CASE job # "loops"
  <2>1. property \in Properties /\ history \in Seq(Observed)
    BY <1>3 DEF TrajectoryTyped
  <2>2. history' \in Seq(Observed)
    BY <1>3, <2>1, TrajectoryStep
  <2>3. property' \in Properties
    BY <1>3, <2>1, TrajectoryStep
  <2> QED
    BY <2>2, <2>3 DEF TrajectoryTyped
<1> QED
  BY <1>2, <1>3

(* The module that a trajectory instantiates judges as the one here does.    *)
LEMMA ProbedCheck ==
    ASSUME NEW p, NEW h
    PROVE  Probed!Check(p, h) = Check(p, h) /\ Probed!HasProbe(h) = HasProbe(h)
  BY Zenon DEF Probed!Check, Check, Probed!HasProbe, HasProbe,
       Probed!SessionVerdict, SessionVerdict, Probed!Stale, Stale,
       Probed!SessionPair, SessionPair, Probed!Counted, Counted,
       Probed!PriorOp, PriorOp, Probed!Finish, Finish,
       Probed!Incomplete, Incomplete, Probed!Required, Required,
       Probed!ProbeVerdict, ProbeVerdict, Probed!Candidates, Candidates,
       Probed!Justifies, Justifies, Probed!LacksCause, LacksCause,
       Probed!Covers, Covers, Probed!Exposes, Exposes, Probed!Cause, Cause,
       Probed!AuditVerdict, AuditVerdict, Probed!UsableAudit, UsableAudit,
       Probed!AuditWrites, AuditWrites, Probed!Sequenced, Sequenced,
       Probed!Reversed, Reversed, Probed!Cardinality, Cardinality,
       Probed!ObserverVerdict, ObserverVerdict, Probed!MockObserves, MockObserves,
       Probed!MockRead, MockRead,
       Probed!RYW, Probed!MR, Probed!MW, Probed!WFR, RYW, MR, MW, WFR

LEMMA MockedCheck ==
    ASSUME NEW p, NEW h
    PROVE  Mocked!Check(p, h) = Check(p, h) /\ Mocked!HasProbe(h) = HasProbe(h)
  BY Zenon DEF Mocked!Check, Check, Mocked!HasProbe, HasProbe,
       Mocked!SessionVerdict, SessionVerdict, Mocked!Stale, Stale,
       Mocked!SessionPair, SessionPair, Mocked!Counted, Counted,
       Mocked!PriorOp, PriorOp, Mocked!Finish, Finish,
       Mocked!Incomplete, Incomplete, Mocked!Required, Required,
       Mocked!ProbeVerdict, ProbeVerdict, Mocked!Candidates, Candidates,
       Mocked!Justifies, Justifies, Mocked!LacksCause, LacksCause,
       Mocked!Covers, Covers, Mocked!Exposes, Exposes, Mocked!Cause, Cause,
       Mocked!AuditVerdict, AuditVerdict, Mocked!UsableAudit, UsableAudit,
       Mocked!AuditWrites, AuditWrites, Mocked!Sequenced, Sequenced,
       Mocked!Reversed, Reversed, Mocked!Cardinality, Cardinality,
       Mocked!ObserverVerdict, ObserverVerdict, Mocked!MockObserves, MockObserves,
       Mocked!MockRead, MockRead,
       Mocked!RYW, Mocked!MR, Mocked!MW, Mocked!WFR, RYW, MR, MW, WFR

(* Probes and their effects, as the instance of the trajectory states them.  *)
LEMMA ProbedExposes ==
    ASSUME NEW p, NEW h, NEW q, NEW a, NEW b
    PROVE  /\ Probed!Justifies(p, h, a, b) = Justifies(p, h, a, b)
           /\ Probed!Exposes(p, h, q, b) = Exposes(p, h, q, b)
  BY Zenon DEF Probed!Justifies, Justifies, Probed!Exposes, Exposes,
       Probed!Cause, Cause, Probed!PriorOp, PriorOp,
       Probed!RYW, Probed!MW, RYW, MW

LEMMA MockedAudit ==
    ASSUME NEW h, NEW k
    PROVE  /\ Mocked!AuditWrites(h) = AuditWrites(h)
           /\ Mocked!UsableAudit(h, k) = UsableAudit(h, k)
  BY Zenon DEF Mocked!AuditWrites, AuditWrites, Mocked!Sequenced, Sequenced,
       Mocked!UsableAudit, UsableAudit, Mocked!Cardinality, Cardinality

LEMMA HistoryGrows ==
    ASSUME NEW h \in Seq(Observed), NEW o \in Observed
    PROVE  Continues(Append(h, o), h) /\ Continues(h, h)
  BY DEF Continues, IsHistory

(* Which of several matching causes _dependencies takes does not decide      *)
(* whether a probe is a violation, in any trajectory.                        *)
THEOREM AnyCauseDecides == JobSpec => []AnyMatchingCause
<1>1. TrajectoryTyped => AnyMatchingCause
  <2> SUFFICES ASSUME TrajectoryTyped, job = "probes",
                      property \in {Probed!MW, Probed!WFR}, Probed!HasProbe(history)
               PROVE  Probed!Result = "VIOLATION" <=>
                         \E q, a, b \in DOMAIN history :
                            /\ Probed!Justifies(property, history, a, b)
                            /\ Probed!Exposes(property, history, q, b)
                            /\ history[q].probe.cause_version < history[a].version
    BY Zenon DEF AnyMatchingCause, Probed!AnyMatchingCause
  <2>1. property \in {MW, WFR}
    BY Zenon DEF Probed!MW, Probed!WFR, MW, WFR
  <2>2. HasProbe(history)
    BY ProbedCheck, Zenon
  <2>3. Check(property, history) = ProbeVerdict(property, history)
    BY <2>1, <2>2 DEF Check, RYW, MR, MW, WFR
  <2>4. Probed!Result = ProbeVerdict(property, history)
    BY <2>3, ProbedCheck, Zenon DEF Probed!Result
  <2>5. IsHistory(history)
    BY DEF TrajectoryTyped, IsHistory
  <2>6. ProbeVerdict(property, history) = "VIOLATION" <=>
           \E q, a, b \in DOMAIN history :
              /\ Justifies(property, history, a, b)
              /\ Exposes(property, history, q, b)
              /\ history[q].probe.cause_version < history[a].version
    BY <2>1, <2>5, CauseDoesNotMatter, Zenon
  <2>7. \A q, a, b \in DOMAIN history :
           /\ Probed!Justifies(property, history, a, b) <=> Justifies(property, history, a, b)
           /\ Probed!Exposes(property, history, q, b) <=> Exposes(property, history, q, b)
    BY ProbedExposes
  <2>8. ASSUME NEW q \in DOMAIN history, NEW a \in DOMAIN history, NEW b \in DOMAIN history
        PROVE  (/\ Justifies(property, history, a, b)
                /\ Exposes(property, history, q, b)
                /\ history[q].probe.cause_version < history[a].version)
               <=>
               (/\ Probed!Justifies(property, history, a, b)
                /\ Probed!Exposes(property, history, q, b)
                /\ history[q].probe.cause_version < history[a].version)
    BY <2>7, Zenon
  <2> QED
    BY <2>4, <2>6, <2>8, Zenon
<1> QED
  BY <1>1, TrajectoryBegins, TrajectoryKeeps, PTL DEF JobSpec

(* Numbers and lists of the observations.                                    *)
Fits(r) == /\ r.seq \in Nat \union {None}
           /\ Len(r.order) \in Nat /\ DOMAIN r.order = 1 .. Len(r.order)

LEMMA ObservedFits ==
    ASSUME NEW o \in Observed
    PROVE  Fits(o)
<1>1. ASSUME NEW r, r.seq \in Nat \union {None}, r.order = <<>> PROVE Fits(r)
  BY <1>1 DEF Fits
<1>2. Base.seq = None /\ Base.order = <<>>
  BY DEF Base
<1>3. ASSUME NEW c, NEW id, NEW n \in Nat
      PROVE  /\ Fits(CauseWrite(c, id, n))
             /\ Fits([CauseWrite(c, id, n) EXCEPT !.status = "error"])
  <2>1. PICK r : r = CauseWrite(c, id, n)
    OBVIOUS
  <2>2. r.seq = n /\ r.order = <<>>
    BY <2>1 DEF Base, CauseWrite
  <2>3. PICK s : s = [r EXCEPT !.status = "error"]
    OBVIOUS
  <2>4. s.seq = n /\ s.order = <<>>
    BY <2>1, <2>3 DEF Base, CauseWrite
  <2>5. Fits(r) /\ Fits(s)
    BY <1>1, <2>2, <2>4
  <2> QED
    BY <2>1, <2>3, <2>5, Zenon
<1>4. ASSUME NEW id, NEW n \in Nat, NEW d PROVE Fits(EffectWrite(id, n, d))
  <2>1. PICK r : r = EffectWrite(id, n, d)
    OBVIOUS
  <2>2. r.seq = n /\ r.order = <<>>
    BY <2>1 DEF Base, EffectWrite
  <2> QED
    BY <1>1, <2>1, <2>2
<1>5. ASSUME NEW c, NEW k, NEW v, NEW id
      PROVE  Fits(Read(c, k, v, id)) /\ Fits([Read(c, k, v, id) EXCEPT !.status = "error"])
  <2>1. PICK r : r = Read(c, k, v, id)
    OBVIOUS
  <2>2. PICK s : s = [r EXCEPT !.status = "error"]
    OBVIOUS
  <2>3. r.seq = None /\ r.order = <<>> /\ s.seq = None /\ s.order = <<>>
    BY <2>1, <2>2 DEF Base, Read
  <2>4. Fits(r) /\ Fits(s)
    BY <1>1, <2>3
  <2> QED
    BY <2>1, <2>2, <2>4, Zenon
<1>6. ASSUME NEW v, NEW id, NEW c
      PROVE  Fits(Probe(v, id, c)) /\ Fits([Probe(v, id, c) EXCEPT !.status = "error"])
  <2>1. PICK r : r = Probe(v, id, c)
    OBVIOUS
  <2>2. PICK s : s = [r EXCEPT !.status = "error"]
    OBVIOUS
  <2>3. r.seq = None /\ r.order = <<>> /\ s.seq = None /\ s.order = <<>>
    BY <2>1, <2>2 DEF Base, Probe
  <2>4. Fits(r) /\ Fits(s)
    BY <1>1, <2>3
  <2> QED
    BY <2>1, <2>2, <2>4, Zenon
<1>7. ASSUME NEW l, Len(l) \in Nat, DOMAIN l = 1 .. Len(l) PROVE Fits(Audit(l))
  <2>1. PICK r : r = Audit(l)
    OBVIOUS
  <2>2. r.seq = None /\ r.order = l
    BY <2>1 DEF Base, Audit
  <2>3. Fits(r)
    BY <1>7, <2>2, Zenon DEF Fits
  <2> QED
    BY <2>1, <2>3, Zenon
<1>8. /\ Fits(Audit(<<"cause", "b", "effect", "other">>))
      /\ Fits(Audit(<<"effect", "b", "cause">>))
      /\ Fits(Audit(<<"other", "cause", "effect">>))
  <2>1. ASSUME NEW S, NEW l \in Seq(S) PROVE Len(l) \in Nat /\ DOMAIN l = 1 .. Len(l)
    OBVIOUS
  <2>2. ASSUME NEW a, NEW b, NEW c, NEW d
        PROVE  <<a, b, c, d>> \in Seq({a, b, c, d}) /\ <<a, b, c>> \in Seq({a, b, c, d})
    OBVIOUS
  <2>3. /\ <<"cause", "b", "effect", "other">> \in Seq({"cause", "b", "effect", "other"})
        /\ <<"effect", "b", "cause">> \in Seq({"effect", "b", "cause", "other"})
        /\ <<"other", "cause", "effect">> \in Seq({"other", "cause", "effect", "b"})
    BY <2>2, Zenon
  <2> QED
    BY <1>7, <2>1, <2>3, Zenon
<1>9. 1 \in Nat /\ 2 \in Nat /\ 3 \in Nat
  OBVIOUS
<1>10. ASSUME o \in ProbeObservations PROVE Fits(o)
  <2>1. /\ Fits(CauseWrite("A", "cause", 1))
        /\ Fits(CauseWrite("A", "other", 1))
        /\ Fits(CauseWrite("B", "cause", 1))
    BY <1>3, <1>9, Zenon
  <2>2. /\ Fits([CauseWrite("B", "cause", 1) EXCEPT !.status = "error"])
    BY <1>3, <1>9, Zenon
  <2>3. /\ Fits(Read("A", "x", 1, "cause"))
        /\ Fits(Read("A", "x", 1, "other"))
    BY <1>5, <1>9, Zenon
  <2>4. /\ Fits(EffectWrite("effect", 2, "cause"))
        /\ Fits(EffectWrite("effect", 2, None))
        /\ Fits(EffectWrite(None, 2, None))
    BY <1>4, <1>9, Zenon
  <2>5. /\ Fits(Probe(0, None, 7))
        /\ Fits(Probe(1, "cause", 7))
        /\ Fits(Probe(1, "other", 7))
        /\ Fits(Probe(0, None, None))
        /\ Fits(Probe(None, None, 7))
    BY <1>6, <1>9, Zenon
  <2>6. /\ Fits([Probe(0, None, 7) EXCEPT !.status = "error"])
    BY <1>6, <1>9, Zenon
  <2>7. \/ o = CauseWrite("A", "cause", 1)
        \/ o = CauseWrite("A", "other", 1)
        \/ o = CauseWrite("B", "cause", 1)
        \/ o = [CauseWrite("B", "cause", 1) EXCEPT !.status = "error"]
        \/ o = Read("A", "x", 1, "cause")
        \/ o = Read("A", "x", 1, "other")
        \/ o = EffectWrite("effect", 2, "cause")
        \/ o = EffectWrite("effect", 2, None)
        \/ o = EffectWrite(None, 2, None)
        \/ o = Probe(0, None, 7)
        \/ o = Probe(1, "cause", 7)
        \/ o = Probe(1, "other", 7)
        \/ o = Probe(0, None, None)
        \/ o = Probe(None, None, 7)
        \/ o = [Probe(0, None, 7) EXCEPT !.status = "error"]
    BY <1>10, Zenon DEF ProbeObservations
  <2> QED
    BY <2>1, <2>2, <2>3, <2>4, <2>5, <2>6, <2>7, Zenon
<1>11. ASSUME o \in MockObservations PROVE Fits(o)
  <2>1. /\ Fits(CauseWrite("A", "cause", 1))
        /\ Fits(CauseWrite("A", "other", 3))
        /\ Fits(CauseWrite("B", "b", 2))
    BY <1>3, <1>9, Zenon
  <2>2. /\ Fits(EffectWrite("effect", 2, None))
    BY <1>4, <1>9, Zenon
  <2>3. /\ Fits(Read("A", "x", 1, "cause"))
        /\ Fits(Read("observer", "y", 1, "effect"))
        /\ Fits(Read("observer", "x", 0, None))
        /\ Fits(Read("observer", "x", 1, "cause"))
        /\ Fits(Read("A", "x", 0, None))
    BY <1>5, <1>9, Zenon
  <2>4. /\ Fits([Read("B", "x", 1, None) EXCEPT !.status = "error"])
    BY <1>5, <1>9, Zenon
  <2>5. /\ Fits(Audit(<<"cause", "b", "effect", "other">>))
        /\ Fits(Audit(<<"effect", "b", "cause">>))
        /\ Fits(Audit(<<"other", "cause", "effect">>))
    BY <1>8, <1>9, Zenon
  <2>6. /\ Fits(Probe(0, None, 7))
    BY <1>6, <1>9, Zenon
  <2>7. \/ o = CauseWrite("A", "cause", 1)
        \/ o = CauseWrite("A", "other", 3)
        \/ o = CauseWrite("B", "b", 2)
        \/ o = EffectWrite("effect", 2, None)
        \/ o = Read("A", "x", 1, "cause")
        \/ o = Read("observer", "y", 1, "effect")
        \/ o = Read("observer", "x", 0, None)
        \/ o = Read("observer", "x", 1, "cause")
        \/ o = Read("A", "x", 0, None)
        \/ o = [Read("B", "x", 1, None) EXCEPT !.status = "error"]
        \/ o = Audit(<<"cause", "b", "effect", "other">>)
        \/ o = Audit(<<"effect", "b", "cause">>)
        \/ o = Audit(<<"other", "cause", "effect">>)
        \/ o = Probe(0, None, 7)
    BY <1>11, Zenon DEF MockObservations
  <2> QED
    BY <2>1, <2>2, <2>3, <2>4, <2>5, <2>6, <2>7, Zenon
<1> QED
  BY <1>10, <1>11, Zenon DEF Observed

(* check_monotonic_writes compares neighbours only, and finds every          *)
(* inversion of two writes of a client.                                      *)
THEOREM AuditIsComplete == JobSpec => []AuditFindsInversions
<1>1. TrajectoryTyped => AuditFindsInversions
  <2> SUFFICES ASSUME TrajectoryTyped, job = "mock",
                      property = Mocked!MW, ~Mocked!HasProbe(history)
               PROVE  Mocked!Result = "VIOLATION" <=>
                         \E k \in DOMAIN history :
                            /\ Mocked!UsableAudit(history, k)
                            /\ \E u, w \in Mocked!AuditWrites(history),
                                  m, n \in DOMAIN history[k].order :
                                  /\ m < n
                                  /\ history[k].order[m] = history[u].write_id
                                  /\ history[k].order[n] = history[w].write_id
                                  /\ history[u].client = history[w].client
                                  /\ history[w].seq < history[u].seq
    BY Zenon DEF AuditFindsInversions, Mocked!AuditFindsInversions
  <2>1. property = MW
    BY Zenon DEF Mocked!MW, MW
  <2>2. ~HasProbe(history)
    BY MockedCheck, Zenon
  <2>3. Check(property, history) = AuditVerdict(history)
    BY <2>1, <2>2 DEF Check, RYW, MR, MW, WFR
  <2>4. Mocked!Result = AuditVerdict(history)
    BY <2>3, MockedCheck, Zenon DEF Mocked!Result
  <2>5. Numbered(history)
    <3>1. \A k \in DOMAIN history : history[k] \in Observed
      BY DEF TrajectoryTyped
    <3> QED
      BY <3>1, ObservedFits, Zenon DEF Numbered, Fits
  <2>6. /\ Mocked!AuditWrites(history) = AuditWrites(history)
        /\ \A k : Mocked!UsableAudit(history, k) <=> UsableAudit(history, k)
    BY MockedAudit
  <2>7. AuditVerdict(history) = "VIOLATION" <=>
           \E k \in DOMAIN history :
              /\ UsableAudit(history, k)
              /\ \E u, w \in AuditWrites(history), m, n \in DOMAIN history[k].order :
                    /\ m < n
                    /\ history[k].order[m] = history[u].write_id
                    /\ history[k].order[n] = history[w].write_id
                    /\ history[u].client = history[w].client
                    /\ history[w].seq < history[u].seq
    BY <2>5, NeighboursSuffice, Zenon
  <2> QED
    BY <2>4, <2>6, <2>7, Zenon
<1> QED
  BY <1>1, TrajectoryBegins, TrajectoryKeeps, PTL DEF JobSpec

(* A violation once in the history stays one whatever is observed later with *)
(* the same evidence.                                                        *)
THEOREM ViolationStays == JobSpec => ViolationIsFinal
<1>1. TrajectoryTyped /\ [JobNext]_<<vars, job>> =>
         [job # "loops" => Probed!StaysViolated]_vars
  <2> SUFFICES ASSUME TrajectoryTyped, [JobNext]_<<vars, job>>, job # "loops",
                      Probed!Result = "VIOLATION", Probed!SameEvidence
               PROVE  Probed!Result' = "VIOLATION"
    BY Zenon DEF Probed!StaysViolated
  <2>1. property \in Properties /\ history \in Seq(Observed)
    BY DEF TrajectoryTyped
  <2>2. /\ property' = property
        /\ UNCHANGED history \/ \E o \in Observed : history' = Append(history, o)
    BY TrajectoryStep, Zenon
  <2>3. Continues(history', history)
    <3>1. CASE UNCHANGED history
      BY <2>1, <3>1 DEF Continues, IsHistory
    <3>2. CASE \E o \in Observed : history' = Append(history, o)
      BY <2>1, <3>2, HistoryGrows
    <3> QED
      BY <2>2, <3>1, <3>2
  <2>4. HasProbe(history) <=> HasProbe(history')
    <3>1. Probed!HasProbe(history) <=> Probed!HasProbe(history')
      BY Zenon DEF Probed!SameEvidence
    <3> QED
      BY <3>1, ProbedCheck, Zenon
  <2>5. property = MW => HasProbe(history)
    <3>1. property = Probed!MW => Probed!HasProbe(history)
      BY Zenon DEF Probed!SameEvidence
    <3> QED
      BY <3>1, ProbedCheck, Zenon DEF Probed!MW, MW
  <2>6. Check(property, history) = "VIOLATION"
    BY ProbedCheck, Zenon DEF Probed!Result
  <2>7. Check(property, history') = "VIOLATION"
    BY <2>1, <2>3, <2>4, <2>5, <2>6, ViolationPersists, Zenon
  <2>8. Probed!Result' = Probed!Check(property', history')
    BY Zenon DEF Probed!Result
  <2> QED
    BY <2>2, <2>7, <2>8, ProbedCheck, Zenon
<1> QED
  BY <1>1, TrajectoryBegins, TrajectoryKeeps, PTL DEF JobSpec, ViolationIsFinal
===============================================================================
