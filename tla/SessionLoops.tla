----------------------------- MODULE SessionLoops -----------------------------
(***************************************************************************)
(* The one-pass loops of check_read_your_writes and check_monotonic_reads: *)
(* one action per branch of the loop body.  `latest' is the dict keyed by  *)
(* (client, key); it holds the position of the remembered event, 0 while   *)
(* the key is absent.                                                      *)
(***************************************************************************)
EXTENDS Checker

CONSTANTS Client, Key,
          Histories     \* the histories the checks are run on

Event == [op      : STRING,
          status  : STRING,
          client  : Client \union {None},
          key     : Key \union {None},
          version : Nat \union {None}]

ASSUME NoneAssumption == None \notin Client \union Key \union Nat
ASSUME HistoriesAssumption == Histories \subseteq Seq(Event)

VARIABLES property,   \* which of the two functions runs
          history,    \* its argument
          i,          \* the position of the loop, Len(history) + 1 at its end
          latest,     \* [Client \X Key -> position], 0: absent
          pairs,      \* comparisons made
          status,     \* "running", then the status of the CheckResult
          witness     \* the witness of the CheckResult

vars == <<property, history, i, latest, pairs, status, witness>>

CK(e) == <<e.client, e.key>>

Init == /\ property \in {RYW, MR}
        /\ history \in Histories
        /\ i = 1
        /\ latest = [ck \in Client \X Key |-> 0]
        /\ pairs = 0
        /\ status = "running"
        /\ witness = <<>>

-----------------------------------------------------------------------------
Looping == status = "running" /\ i <= Len(history)

e == history[i]

Advance == /\ i' = i + 1
           /\ UNCHANGED <<property, history, status, witness>>

(* Mutant: an equal version counts as older.                                 *)
OlderOrEqual ==
    latest[CK(e)] # 0 /\ e.version <= history[latest[CK(e)]].version

(* The remembered event is fresher than this one.                            *)
Older == latest[CK(e)] # 0 /\ e.version < history[latest[CK(e)]].version

(* Mutant: the last write is remembered, whatever its version.               *)
AlwaysFresher == TRUE

(* This write is fresher than the remembered one.                            *)
Fresher == \/ latest[CK(e)] = 0
           \/ e.version > history[latest[CK(e)]].version

(* `continue', or an operation the loop does not look at.                    *)
Skip == /\ Looping
        /\ \/ ~Counted(e)
           \/ property = RYW /\ e.op \notin {"write", "read"}
           \/ property = MR /\ e.op # "read"
        /\ Advance
        /\ UNCHANGED <<latest, pairs>>

(* read_your_writes remembers the write with the largest version so far.     *)
RememberWrite ==
    /\ Looping /\ property = RYW
    /\ Counted(e) /\ e.op = "write"
    /\ latest' = IF Fresher THEN [latest EXCEPT ![CK(e)] = i] ELSE latest
    /\ Advance
    /\ pairs' = pairs

CompareRYW ==
    /\ Looping /\ property = RYW
    /\ Counted(e) /\ e.op = "read"
    /\ ~Older
    /\ pairs' = IF latest[CK(e)] = 0 THEN pairs ELSE pairs + 1
    /\ Advance
    /\ latest' = latest

(* monotonic_reads remembers the last read, whatever its version.            *)
CompareMR ==
    /\ Looping /\ property = MR
    /\ Counted(e) /\ e.op = "read"
    /\ ~Older
    /\ pairs' = IF latest[CK(e)] = 0 THEN pairs ELSE pairs + 1
    /\ latest' = [latest EXCEPT ![CK(e)] = i]
    /\ Advance

(* The early return of both loops.                                           *)
Report ==
    /\ Looping
    /\ Counted(e) /\ e.op = "read"
    /\ Older
    /\ pairs' = pairs + 1
    /\ status' = "VIOLATION"
    /\ witness' = <<latest[CK(e)], i>>
    /\ UNCHANGED <<property, history, i, latest>>

Return ==
    /\ status = "running" /\ i = Len(history) + 1
    /\ status' = Finish(pairs > 0, history)
    /\ UNCHANGED <<property, history, i, latest, pairs, witness>>

Next == Skip \/ RememberWrite \/ CompareRYW \/ CompareMR \/ Report \/ Return

Spec == Init /\ [][Next]_vars

-----------------------------------------------------------------------------
TypeOK ==
    /\ property \in {RYW, MR}
    /\ history \in Seq(Event)
    /\ i \in 1 .. (Len(history) + 1)
    /\ latest \in [Client \X Key -> 0 .. Len(history)]
    /\ pairs \in Nat
    /\ status \in Verdicts \union {"running"}
    /\ witness \in Seq(1 .. Len(history))

(* What the loop answers is what the whole history says: a stale pair is     *)
(* reported although only one earlier event per client and key is remembered *)
(* (check_read_your_writes, check_monotonic_reads).                          *)
AnswerIsVerdict ==
    status # "running" => status = SessionVerdict(property, history)

(* A reported witness is a stale pair of the history, and no stale pair ends *)
(* before it: the evidence archived with a VIOLATION is its first instance.  *)
WitnessIsFirst ==
    status = "VIOLATION" =>
        /\ Len(witness) = 2
        /\ Stale(property, history, witness[1], witness[2])
        /\ \A a, b \in 1 .. Len(history) :
              Stale(property, history, a, b) => witness[2] <= b

-----------------------------------------------------------------------------
(* The inductive invariant.  Seen(a, ck): position a holds an event of the   *)
(* kind the loop remembers for ck; Clean: no stale pair was passed;          *)
(* Remembers: latest points to a seen event passed, of the largest version.  *)
Seen(a, ck) == /\ Counted(history[a])
               /\ history[a].op = PriorOp(property)
               /\ CK(history[a]) = ck

Clean == \A a, b \in 1 .. (i - 1) : ~Stale(property, history, a, b)

Remembers ==
    \A ck \in Client \X Key :
        /\ latest[ck] # 0 =>
              latest[ck] \in 1 .. (i - 1) /\ Seen(latest[ck], ck)
        /\ \A a \in 1 .. (i - 1) : Seen(a, ck) =>
              /\ latest[ck] # 0
              /\ history[a].version <= history[latest[ck]].version

PairsCount ==
    pairs > 0 <=> \E a, b \in 1 .. (i - 1) : SessionPair(property, history, a, b)

IInv ==
    /\ TypeOK
    /\ Clean
    /\ Remembers
    /\ status = "running" => PairsCount
    /\ AnswerIsVerdict
    /\ WitnessIsFirst
=============================================================================
