------------------------------- MODULE Firewall -------------------------------
(***************************************************************************)
(* The two shell scripts of firewall_script (src/src/project1/             *)
(* failure_control.py), one action per iptables command, run under         *)
(* `sh -e' inside one container.  A command can fail because it did not    *)
(* get the xtables lock within five seconds (-w 5), and a script can die   *)
(* between two commands, leaving the rules as they are.                    *)
(***************************************************************************)
EXTENDS Naturals, SequencesExt

CONSTANTS OwnRule,           \* rules the container has of its own
          Others,            \* which of them stand in INPUT and OUTPUT
          Hook,              \* the rule -j DSA5208_ISOLATE
          NoChain,           \* the value of `chain' while it does not exist
          MaxEnables,        \* bound: how often isolation is requested
          MaxLockFailures,   \* bound: commands that fail for the lock
          MaxKills           \* bound: scripts that die halfway

Directions == {"INPUT", "OUTPUT"}
Rule == OwnRule \union {Hook}
Drop == {"dports DROP", "sports DROP"}

ASSUME OthersAssumption  == Others \in [Directions -> Seq(OwnRule)]
ASSUME HookAssumption    == Hook \notin OwnRule
ASSUME NoChainAssumption == NoChain \notin Seq(Drop)
ASSUME BoundsAssumption  == MaxEnables \in Nat /\ MaxLockFailures \in Nat
                            /\ MaxKills \in Nat

VARIABLES chain,         \* the rules of our chain, or NoChain
          rules,         \* [Directions -> Seq(rule)]: INPUT and OUTPUT
          line,          \* the next command, "idle" between scripts
          outcome,       \* how the last script ended
          enables, lockFailures, kills    \* counters for the bounds

counters == <<enables, lockFailures, kills>>
vars == <<chain, rules, line, outcome, counters>>

Init == /\ chain = NoChain /\ rules = Others
        /\ line = "idle" /\ outcome = "none"
        /\ enables = 0 /\ lockFailures = 0 /\ kills = 0

-----------------------------------------------------------------------------
Exists    == chain # NoChain
Hooked(d) == Contains(rules[d], Hook)

SetChain(c)    == chain' = c /\ rules' = rules
SetRules(d, s) == rules' = [rules EXCEPT ![d] = s] /\ chain' = chain
NoChange       == UNCHANGED <<chain, rules>>

Goto(l) == line' = l /\ outcome' = outcome
Exit(o) == line' = "idle" /\ outcome' = o

(* A command gets the lock, or gives up waiting for it.                      *)
Works     == UNCHANGED counters
LockFails == /\ lockFailures < MaxLockFailures
             /\ lockFailures' = lockFailures + 1
             /\ UNCHANGED <<enables, kills>>

(* A command of the script: its failure ends the script (set -e).            *)
Command(l, can, effect, next) ==
    /\ line = l
    /\ \/ Works /\ can /\ effect /\ Goto(next)
       \/ ((Works /\ ~can) \/ LockFails) /\ NoChange /\ Exit("error")

(* The condition of an `if' or the left side of `||': any failure is `no'.   *)
Test(l, holds, yes, no) ==
    /\ line = l /\ NoChange
    /\ \/ Works /\ holds /\ Goto(yes)
       \/ ((Works /\ ~holds) \/ LockFails) /\ Goto(no)

(* The last command lists rules: the script succeeds.                        *)
ListRules(l, can, success) ==
    /\ line = l /\ NoChange
    /\ \/ Works /\ can /\ Exit(success)
       \/ ((Works /\ ~can) \/ LockFails) /\ Exit("error")

-----------------------------------------------------------------------------
(* firewall_script(True)                                                     *)
Enable == /\ line = "idle" /\ enables < MaxEnables
          /\ enables' = enables + 1
          /\ line' = "-N" /\ outcome' = "enabling"
          /\ NoChange /\ UNCHANGED <<lockFailures, kills>>

(* -N chain || true                                                          *)
Create == /\ line = "-N" /\ Goto("-F")
          /\ \/ Works /\ SetChain(IF Exists THEN chain ELSE <<>>)
             \/ LockFails /\ NoChange

(* Mutant: only one port direction is dropped.                               *)
DropToAgain == Command("-A sports", Exists,
                       SetChain(Append(chain, "dports DROP")), "-C INPUT")

Flush    == Command("-F", Exists, SetChain(<<>>), "-A dports")
DropTo   == Command("-A dports", Exists,
                    SetChain(Append(chain, "dports DROP")), "-A sports")
DropFrom == Command("-A sports", Exists,
                    SetChain(Append(chain, "sports DROP")), "-C INPUT")

(* Mutant: the hook is put behind the other rules.                           *)
InsertInLast == Command("-I INPUT", Exists,
                        SetRules("INPUT", Append(rules["INPUT"], Hook)), "-C OUTPUT")

(* -C d -j chain || -I d 1 -j chain                                          *)
CheckIn   == Test("-C INPUT", Hooked("INPUT"), "-C OUTPUT", "-I INPUT")
InsertIn  == Command("-I INPUT", Exists,
                     SetRules("INPUT", <<Hook>> \o rules["INPUT"]), "-C OUTPUT")
CheckOut  == Test("-C OUTPUT", Hooked("OUTPUT"), "verify INPUT", "-I OUTPUT")
InsertOut == Command("-I OUTPUT", Exists,
                     SetRules("OUTPUT", <<Hook>> \o rules["OUTPUT"]),
                     "verify INPUT")

VerifyIn  == Command("verify INPUT", Hooked("INPUT"), NoChange, "verify OUTPUT")
VerifyOut == Command("verify OUTPUT", Hooked("OUTPUT"), NoChange, "-S chain")
ListChain == ListRules("-S chain", Exists, "isolated")

-----------------------------------------------------------------------------
(* firewall_script(False)                                                    *)
Heal == /\ line = "idle"
        /\ line' = "find INPUT" /\ outcome' = "healing"
        /\ NoChange /\ UNCHANGED counters

(* Mutants: without a hook in INPUT there is nothing to heal; the chain      *)
(* stays.                                                                    *)
FindInOrDone  == Test("find INPUT", Hooked("INPUT"), "-D INPUT", "-S")
FindChainNever == Test("find chain", Exists, "-S", "-S")

(* if -C d -j chain; then -D d -j chain; fi                                  *)
FindIn    == Test("find INPUT", Hooked("INPUT"), "-D INPUT", "find OUTPUT")
DeleteIn  == Command("-D INPUT", Hooked("INPUT"),
                     SetRules("INPUT", RemoveFirst(rules["INPUT"], Hook)),
                     "find OUTPUT")
FindOut   == Test("find OUTPUT", Hooked("OUTPUT"), "-D OUTPUT", "find chain")
DeleteOut == Command("-D OUTPUT", Hooked("OUTPUT"),
                     SetRules("OUTPUT", RemoveFirst(rules["OUTPUT"], Hook)),
                     "find chain")

(* if -nL chain; then -F chain; -X chain; fi: a chain in use is not deleted. *)
FindChain   == Test("find chain", Exists, "empty chain", "-S")
EmptyChain  == Command("empty chain", Exists, SetChain(<<>>), "-X")
DeleteChain == Command("-X", Exists /\ \A d \in Directions : ~Hooked(d),
                       SetChain(NoChain), "-S")
ListRest    == ListRules("-S", TRUE, "healed")

-----------------------------------------------------------------------------
(* The script, or docker exec, dies between two commands.                    *)
Kill == /\ line # "idle" /\ kills < MaxKills
        /\ kills' = kills + 1
        /\ NoChange /\ Exit("error") /\ UNCHANGED <<enables, lockFailures>>

EnableScript == \/ Create \/ Flush \/ DropTo \/ DropFrom
                \/ CheckIn \/ InsertIn \/ CheckOut \/ InsertOut
                \/ VerifyIn \/ VerifyOut \/ ListChain

HealScript == \/ FindIn \/ DeleteIn \/ FindOut \/ DeleteOut
              \/ FindChain \/ EmptyChain \/ DeleteChain \/ ListRest

Next == Enable \/ EnableScript \/ Heal \/ HealScript \/ Kill

(* Scripts end, and restore() heals the node before and after every case.    *)
Spec == /\ Init /\ [][Next]_vars
        /\ WF_vars(EnableScript \/ HealScript) /\ WF_vars(Heal)

-----------------------------------------------------------------------------
Lines == {"idle", "-N", "-F", "-A dports", "-A sports", "-C INPUT", "-I INPUT",
          "-C OUTPUT", "-I OUTPUT", "verify INPUT", "verify OUTPUT", "-S chain",
          "find INPUT", "-D INPUT", "find OUTPUT", "-D OUTPUT", "find chain",
          "empty chain", "-X", "-S"}

TypeOK == /\ chain \in Seq(Drop) \union {NoChain}
          /\ rules \in [Directions -> Seq(Rule)]
          /\ line \in Lines
          /\ outcome \in {"none", "enabling", "isolated", "healing", "healed",
                         "error"}
          /\ enables \in Nat /\ lockFailures \in Nat /\ kills \in Nat

(* Traffic of a direction is dropped: its first rule jumps to our chain, and *)
(* the chain drops packets to and from the internode ports.  It passes: no   *)
(* rule leads to a rule of ours.                                             *)
FullChain == <<"dports DROP", "sports DROP">>
Drops(d)  == rules[d] # <<>> /\ rules[d][1] = Hook /\ chain = FullChain
Passes(d) == ~Hooked(d) \/ chain = <<>>

(* A node the controller reports as isolated drops internode requests and    *)
(* responses in both directions, however many scripts failed before          *)
(* (firewall_script: "Block internode request AND response traffic").        *)
IsolatedDrops ==
    outcome = "isolated" => \A d \in Directions : Drops(d)

(* A node reported as healed drops nothing, if the lock was missed at most   *)
(* once: a -C that fails for the lock looks like a hook that is not there.   *)
HealedPasses ==
    outcome = "healed" /\ lockFailures <= 1 => \A d \in Directions : Passes(d)

(* Our hooks stand before the container's own rules, which stay as they are  *)
(* ("No ... unrelated container rules are changed").                         *)
HooksThenOthers(s, own) ==
    \E k \in 0 .. Len(s) :
       /\ Len(s) = k + Len(own)
       /\ \A j \in 1 .. k : s[j] = Hook
       /\ \A j \in 1 .. Len(own) : s[k + j] = own[j]

OthersUntouched ==
    \A d \in Directions : HooksThenOthers(rules[d], Others[d])

(* Healing again and again removes everything, whatever was left behind,     *)
(* once isolation is no longer requested.                                    *)
Clean == chain = NoChain /\ rules = Others
HealingCleans == <>[]Clean

-----------------------------------------------------------------------------
(* The inductive invariant: what the script has achieved at each line.       *)
Filled == {"-C INPUT", "-I INPUT", "-C OUTPUT", "-I OUTPUT", "verify INPUT",
           "verify OUTPUT", "-S chain"}

Progress ==
    /\ line = "-A dports" => chain = <<>>
    /\ line = "-A sports" => chain = <<"dports DROP">>
    /\ line \in Filled => chain = FullChain
    /\ line \in {"verify OUTPUT", "-S chain"} => Hooked("INPUT")
    /\ line = "-S chain" => Hooked("OUTPUT")
    /\ outcome = "isolated" =>
          /\ line = "idle" /\ chain = FullChain
          /\ Hooked("INPUT") /\ Hooked("OUTPUT")

IInv == TypeOK /\ OthersUntouched /\ Progress
=============================================================================
