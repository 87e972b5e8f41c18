------------------------------- MODULE Download -------------------------------
(***************************************************************************)
(* The resumable download of one annual CSV, by two scripts:               *)
(* project2/scripts/download_rainfall_data.sh ("linux") and                *)
(* project2/experiments/distributional/download.sh ("macos").  A script    *)
(* can be killed anywhere and is run again; the object behind the URL may  *)
(* be replaced at any time.                                                *)
(*                                                                         *)
(* A file is the sequence of the versions its bytes were taken from.       *)
(***************************************************************************)
EXTENDS Naturals, Sequences

CONSTANTS Size,          \* the sizes of the successive versions of the object
          MaxAttempts,   \* the attempts of one run of the macos script
          MaxKills       \* bound: killed runs

(* Every version has a byte at least: Size is a nonempty sequence of         *)
(* positive numbers.                                                         *)

VARIABLES script,
          version,     \* of the object now
          output,      \* the CSV, << >> if there is none
          partial,     \* the .partial file
          pc,          \* "idle" between two runs
          remote_bytes, measured,   \* the probed size, and the version it is of
          attempt, kills

vars == <<script, version, output, partial, pc, remote_bytes, measured, attempt, kills>>

Whole(v) == [i \in 1 .. Size[v] |-> v]

Init == /\ script \in {"linux", "macos"}
        /\ version = 1
        /\ output = << >> /\ partial = << >>
        /\ pc = "idle" /\ remote_bytes = 0 /\ measured = 1
        /\ attempt = 0 /\ kills = 0

Files == <<output, partial>>
Still == UNCHANGED <<script, version, kills>>

-----------------------------------------------------------------------------
(* A run starts; an existing CSV is kept.                                    *)
Start == /\ pc = "idle" /\ output = << >>
         /\ pc' = "probe" /\ attempt' = 1
         /\ UNCHANGED <<Files, remote_bytes, measured>> /\ Still

Exit == pc' = "idle" /\ UNCHANGED attempt

(* The URL and the one-byte range request; either may fail.                  *)
Probe ==
    /\ pc = "probe"
    /\ \/ /\ remote_bytes' = Size[version] /\ measured' = version
          /\ pc' = "compare" /\ UNCHANGED attempt
       \/ Exit /\ UNCHANGED <<remote_bytes, measured>>
    /\ UNCHANGED Files /\ Still

(* Mutant: a partial that is too long is left in place.                      *)
LeavePartial == UNCHANGED Files

Quarantine == partial' = << >> /\ UNCHANGED output

Finalize == output' = partial /\ partial' = << >>

(* What is there of the file: complete, too long, or to be continued.  The   *)
(* macos script does not look.                                               *)
Compare ==
    /\ pc = "compare"
    /\ LET length == Len(partial) IN
       CASE script = "macos" \/ length < remote_bytes ->
              pc' = "transfer" /\ UNCHANGED Files
         [] script = "linux" /\ length = remote_bytes ->
              pc' = "idle" /\ Finalize
         [] script = "linux" /\ length > remote_bytes ->
              pc' = "transfer" /\ Quarantine
    /\ UNCHANGED <<remote_bytes, measured, attempt>> /\ Still

(* curl --continue-at -: it fails when the connection breaks off and when    *)
(* nothing is left to ask for; set -e ends the linux script then.            *)
Transfer ==
    /\ pc = "transfer"
    /\ \E end \in Len(partial) .. Size[version] :
          /\ partial' = partial \o [i \in 1 .. (end - Len(partial)) |-> version]
          /\ pc' = IF script = "linux" /\ (end < Size[version] \/ end = Len(partial))
                     THEN "idle" ELSE "check"
    /\ UNCHANGED <<output, remote_bytes, measured, attempt>> /\ Still

(* The transfer of a file that is longer than the object now.                *)
Refused ==
    /\ pc = "transfer" /\ Len(partial) > Size[version]
    /\ pc' = IF script = "linux" THEN "idle" ELSE "check"
    /\ UNCHANGED <<Files, remote_bytes, measured, attempt>> /\ Still

(* Mutant: the size is not compared after the transfer.                      *)
AnySize == TRUE

RightSize == Len(partial) = remote_bytes

Check ==
    /\ pc = "check"
    /\ IF RightSize
         THEN Finalize /\ Exit
         ELSE /\ UNCHANGED Files
              /\ IF script = "macos" /\ attempt < MaxAttempts
                   THEN pc' = "probe" /\ attempt' = attempt + 1
                   ELSE Exit
    /\ UNCHANGED <<remote_bytes, measured>> /\ Still

-----------------------------------------------------------------------------
Kill == /\ pc # "idle" /\ kills < MaxKills
        /\ pc' = "idle" /\ kills' = kills + 1
        /\ UNCHANGED <<script, version, Files, remote_bytes, measured, attempt>>

(* The publisher replaces the object.                                        *)
Replace == /\ version < Len(Size) /\ version' = version + 1
           /\ UNCHANGED <<script, Files, pc, remote_bytes, measured, attempt, kills>>

Next == \/ Start \/ Probe \/ Compare \/ Transfer \/ Refused \/ Check
        \/ Kill \/ Replace

(* A user who wants the file runs the script again; requests and transfers   *)
(* that are repeated succeed now and then.                                   *)
Progress == /\ WF_vars(Start \/ Compare \/ Check)
            /\ SF_vars(Probe /\ pc' = "compare")
            /\ SF_vars((Transfer \/ Refused) /\ partial' # partial /\ pc' = "check")
            /\ WF_vars(Transfer \/ Refused)

Spec == Init /\ [][Next]_vars /\ Progress

-----------------------------------------------------------------------------
(* A CSV has the size that was measured last, and it is the whole object     *)
(* unless some of its bytes are of an earlier version than the measured one: *)
(* partial files survive kills, runs and replacements of the object.         *)
PublishedIsWhole ==
    output # << >> =>
        /\ Len(output) = remote_bytes
        /\ output = Whole(measured) \/ \E i \in DOMAIN output : output[i] # measured

(* The linux script gets the file in the end, whatever was left behind: a    *)
(* partial file that no range request can continue is put aside.             *)
EventuallyPublished == script = "linux" => <>(output # << >>)
=============================================================================
