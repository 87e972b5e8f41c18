------------------------------ MODULE Forecasts ------------------------------
(***************************************************************************)
(* What the rainfall scripts keep on disk between two runs: the rows a     *)
(* candidate is trained on and the model directories                       *)
(* (train_amount_model.py), and the rows and forecasts of an evaluation    *)
(* (evaluate_amount_models.py).  A chain is two shell scripts of           *)
(* project2/experiments/distributional that share a work directory:        *)
(* "original" run_amount_models.sh, then run_final_checks.sh; "qc"         *)
(* run_final_checks.sh, then, with the target rounded, run_label_fix.sh.   *)
(* A script can be killed anywhere, and is then run again.                 *)
(***************************************************************************)
EXTENDS Naturals, Sequences, SequencesExt

CONSTANT MaxKills      \* bound: killed runs, none after a removal was killed

VARIABLES chain,
          stage,       \* 1 or 2: the script of the chain
          pc,
          writing,     \* the directory that is being written, or None
          wet,         \* the training rows of the work directory, as they are
                       \* and as the hazard model reads them
          model,       \* the model directories
          store,       \* the frames and forecasts of the work directory
          position,    \* in the list of what an evaluation materialises
          report,      \* the forecasts the script's last reports averaged
          swept,       \* whether a removal of the work directories was cut short
          kills

vars == <<chain, stage, pc, writing, wet, model, store, position, report, swept, kills>>

Name == {"hazard", "mlp", "mlp_s5209", "mlp_qc", "mlp_qc_unrounded"}

(* The models a script trains, and those it evaluates.                       *)
Trained == IF chain = "qc" THEN <<"mlp_qc">>
           ELSE IF stage = 1 THEN <<"hazard", "mlp">> ELSE <<"mlp_s5209">>

Evaluated == IF chain = "qc"
               THEN IF stage = 1 THEN <<"mlp_qc">> ELSE <<"mlp_qc", "mlp_qc_unrounded">>
               ELSE IF stage = 1 THEN <<"hazard", "mlp">> ELSE <<"mlp", "mlp_s5209">>

(* The labels eligible() gives the rows.                                     *)
Labels == IF chain = "qc" /\ stage = 2 THEN "rounded" ELSE "raw"

(* A directory: missing, cut short or whole (it has _SUCCESS), and the       *)
(* labels of the rows in it (a model's are those of its training rows).      *)
(* Labels "torn": only some of the rows are there.                           *)
Missing == [state |-> "missing", labels |-> "-"]
Cut == [state |-> "cut", labels |-> "-"]
Whole(labels) == [state |-> "whole", labels |-> labels]

Init == /\ chain \in {"original", "qc"}
        /\ stage = 1 /\ pc = "train" /\ writing = "-"
        /\ wet = [w \in {"wet_train", "hazard_rows"} |-> Missing]
        /\ model = [n \in Name |-> Missing]
        /\ store = [p \in ({"frame", "base", "ziln"} \cup Name) \X {2023, 2024} |-> Missing]
        /\ position = 1 /\ report = {} /\ swept = FALSE /\ kills = 0

Script == UNCHANGED <<chain, stage, swept, kills>>

-----------------------------------------------------------------------------
(* train_amount_model.py, for every model without a directory.               *)
ToTrain == SelectSeq(Trained, LAMBDA n : model[n] = Missing)

(* The rows a model is fitted on; the hazard model's are made of wet_train.  *)
RowsOf(n) == IF n = "hazard" THEN "hazard_rows" ELSE "wet_train"

(* Rows are assembled unless their directory exists, wet_train first.  Rows  *)
(* that were cut short are read like others.                                 *)
Assemble ==
    /\ pc = "train" /\ ToTrain # << >>
    /\ \/ /\ writing = "-"
          /\ writing' = IF wet["wet_train"] = Missing THEN "wet_train" ELSE RowsOf(Head(ToTrain))
          /\ wet[writing'] = Missing
          /\ wet' = [wet EXCEPT ![writing'] = Cut]
       \/ /\ writing \in DOMAIN wet /\ writing' = "-"
          /\ wet' = [wet EXCEPT ![writing] =
                        Whole(IF writing = "wet_train" THEN Labels ELSE wet["wet_train"].labels)]
    /\ UNCHANGED <<pc, model, store, position, report>> /\ Script

(* The fit, and the start of save().  The script ends if there is nothing to *)
(* read in rows that were cut short.                                         *)
Fit ==
    /\ pc = "train" /\ writing = "-" /\ ToTrain # << >>
    /\ \/ /\ wet[RowsOf(Head(ToTrain))] # Missing
          /\ model' = [model EXCEPT ![Head(ToTrain)] = Cut]
          /\ writing' = Head(ToTrain) /\ UNCHANGED pc
       \/ /\ Cut \in {wet["wet_train"], wet[RowsOf(Head(ToTrain))]}
          /\ pc' = "failed" /\ UNCHANGED <<model, writing>>
    /\ UNCHANGED <<wet, store, position, report>> /\ Script

(* save() writes amount_meta.json last.                                      *)
Save ==
    /\ pc = "train" /\ writing \in Name
    /\ model' = [model EXCEPT ![writing] = Whole(wet[RowsOf(writing)].labels)]
    /\ writing' = "-"
    /\ UNCHANGED <<pc, wet, store, position, report>> /\ Script

-----------------------------------------------------------------------------
(* evaluate_amount_models.py: load() needs amount_meta.json.                 *)
Load ==
    /\ pc = "train" /\ writing = "-" /\ ToTrain = << >>
    /\ pc' = IF \E n \in ToSet(Evaluated) : model[n].state # "whole"
               THEN "failed" ELSE "work"
    /\ position' = 1
    /\ UNCHANGED <<writing, wet, model, store, report>> /\ Script

Year(y) == [i \in 1 .. 3 + Len(Evaluated) |->
               <<(<<"frame", "base", "ziln">> \o Evaluated)[i], y>>]
Works == Year(2023) \o Year(2024)

(* Mutant: a directory is taken for finished as soon as it exists.           *)
Exists(p) == store[p].state # "missing"

(* done(): only a finished write leaves _SUCCESS.                            *)
Finished(p) == store[p].state = "whole"

(* What a directory is computed from: eligible rows; the frame of the year;  *)
(* and, for a model's forecasts, the base of the year.                       *)
Content(p) ==
    CASE p[1] = "frame" -> Labels
      [] p[1] \in {"base", "ziln"} -> store[<<"frame", p[2]>>].labels
      [] OTHER -> store[<<"base", p[2]>>].labels

Materialise ==
    /\ pc = "work" /\ position <= Len(Works)
    /\ LET p == Works[position] IN
       \/ /\ writing = "-" /\ Finished(p)
          /\ position' = position + 1 /\ UNCHANGED <<store, writing>>
       \/ /\ writing = "-" /\ ~Finished(p)
          /\ store' = [store EXCEPT ![p] = Cut] /\ writing' = "work"
          /\ UNCHANGED position
       \/ /\ writing = "work"
          /\ store' = [store EXCEPT ![p] = Whole(Content(p))] /\ writing' = "-"
          /\ position' = position + 1
    /\ UNCHANGED <<pc, wet, model, report>> /\ Script

(* The scores of both years, and the bootstrap of pairs of the same models.  *)
Report ==
    /\ pc = "work" /\ position > Len(Works)
    /\ report' = {store[<<n, y>>] : n \in ToSet(Evaluated) \cup {"ziln"}, y \in {2023, 2024}}
    /\ pc' = "reported"
    /\ UNCHANGED <<writing, wet, model, store, position>> /\ Script

(* run_label_fix.sh removes the work directories in the end.                 *)
Removes == chain = "qc" /\ stage = 2
NoRows == [w \in DOMAIN wet |-> Missing]

Finish ==
    /\ pc = "reported" /\ pc' = "done"
    /\ IF Removes THEN wet' = NoRows /\ store' = [p \in DOMAIN store |-> Missing]
                  ELSE UNCHANGED <<wet, store>>
    /\ UNCHANGED <<writing, model, position, report>> /\ Script

-----------------------------------------------------------------------------
MayKill == kills < MaxKills /\ ~swept /\ kills' = kills + 1

Kill == /\ pc \in {"train", "work", "reported"} /\ MayKill
        /\ pc' = "killed" /\ writing' = "-"
        /\ UNCHANGED <<chain, stage, wet, model, store, position, report, swept>>

(* What a removal may leave of a directory it did not remove: _SUCCESS is    *)
(* gone with or before rows, or rows are gone before _SUCCESS.               *)
Torn(directory) == IF directory = Missing THEN {Missing} ELSE {directory, Cut, Whole("torn")}

(* rm -rf takes the training rows first; then it empties and removes the     *)
(* directories of the evaluation one by one, in the order of the file        *)
(* system.                                                                   *)
KillRemoval ==
    /\ pc = "reported" /\ Removes /\ MayKill
    /\ \/ \E left \in Torn(wet["wet_train"]) : wet' = [wet EXCEPT !["wet_train"] = left]
          /\ UNCHANGED store
       \/ /\ wet' = NoRows
          /\ \E gone \in SUBSET {p \in DOMAIN store : store[p] # Missing}, last \in DOMAIN store :
                \E left \in Torn(store[last]) :
                   store' = [p \in DOMAIN store |->
                               CASE p \in gone -> Missing
                                 [] p = last /\ p \notin gone -> left
                                 [] OTHER -> store[p]]
    /\ pc' = "killed" /\ swept' = TRUE
    /\ UNCHANGED <<chain, stage, writing, model, position, report>>

(* A killed script is run again, a finished one is followed by the next.     *)
(* run_label_fix.sh puts the model aside first, unless that is done.         *)
Run ==
    /\ \/ pc = "killed" /\ UNCHANGED <<stage, report>>
       \/ pc = "done" /\ stage = 1 /\ stage' = 2 /\ report' = {}
    /\ pc' = "train"
    /\ model' = IF chain = "qc" /\ stage' = 2 /\ model["mlp_qc_unrounded"] = Missing
                  THEN [model EXCEPT !["mlp_qc_unrounded"] = model["mlp_qc"],
                                     !["mlp_qc"] = Missing]
                  ELSE model
    /\ UNCHANGED <<chain, writing, wet, store, position, swept, kills>>

Next == \/ Assemble \/ Fit \/ Save \/ Load \/ Materialise \/ Report \/ Finish
        \/ Kill \/ KillRemoval \/ Run

Spec == Init /\ [][Next]_vars

-----------------------------------------------------------------------------
(* A report is made of whole forecasts of one set of labelled rows           *)
(* (evaluate_amount_models.py lines 62-65: an interrupted run resumes, every *)
(* model scores the same rows).                                              *)
ScoresTheSameRows ==
    \A r, q \in report : /\ r.state = "whole" /\ r.labels \notin {"-", "torn"}
                          /\ r.labels = q.labels

(* So it is whatever write was cut short before, and however often.  Only a  *)
(* removal that was cut short leaves directories that done() takes for whole *)
(* beside others that are made anew.                                         *)
ReportIsConsistent == ~swept => ScoresTheSameRows

(* run_label_fix.sh line 4: every forecast is rescored on the fixed labels.  *)
RescoredOnFixedLabels ==
    chain = "qc" /\ stage = 2 => \A r \in report : r.labels = "rounded"
=============================================================================
