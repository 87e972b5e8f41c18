-------------------------------- MODULE Lineage --------------------------------
(***************************************************************************)
(* What the files of the rainfall experiments were made from: the scripts  *)
(* that train, tune and score models, each with the files it reads and the *)
(* files it writes, in order.                                              *)
(*                                                                         *)
(* A script runs alone and may be killed before or in any of its writes.   *)
(* The file it was writing is then cut or, if Spark writes it, missing:    *)
(* overwrite() removes what it replaces before it writes.  Loading a cut   *)
(* file fails, and so does its script.  A report of what a script has in   *)
(* memory anyway is left out.                                              *)
(***************************************************************************)
EXTENDS Integers, Sequences

CONSTANTS Dirs,              \* directories of ZILN models
          Families,          \* of the distributional experiment
          MaxScripts, MaxCut \* scripts run, and of them killed

VARIABLES line,              \* the scripts in use: "binary", "ziln" or "dist"
          disk,              \* the files there are
          todo,              \* the writes the running script has left
          started,           \* scripts run so far: a run's number
          cut                \* of them killed

vars == <<line, disk, todo, started, cut>>

Mine == started + 1

(* "save" is the run that wrote the file, "content" what is in it: for parts *)
(* of a model the run whose rows or residuals they were fitted on, for       *)
(* tables and forecasts the test rows.  "from" are the files it was computed *)
(* from, as they were when its script read them.                             *)
File(where, part, content, from) ==
    [name |-> <<where, part>>, save |-> Mine, content |-> content, from |-> from, whole |-> TRUE]

Has(where, part) == <<where, part>> \in DOMAIN disk
Whole(where, part) == Has(where, part) /\ disk[<<where, part>>].whole
Content(where, part) == disk[<<where, part>>].content
SavedBy(where, part) == disk[<<where, part>>].save

Reading(where, parts) ==
    {[name |-> <<where, part>>, save |-> SavedBy(where, part)] :
        part \in {p \in parts : Has(where, p)}}

Run(writes) ==
    /\ todo = << >> /\ started < MaxScripts
    /\ started' = Mine
    /\ todo' = writes
    /\ UNCHANGED <<line, disk, cut>>

Init ==
    /\ line \in {"binary", "ziln", "dist"}
    /\ disk = << >> /\ todo = << >>
    /\ started = 0 /\ cut = 0

-----------------------------------------------------------------------------
(* Logistic regression, the tree candidates and the perceptron.              *)
TrainBinary == line = "binary" /\ Run(<<File("binary", "model", Mine, {})>>)

TrainLogistic == TrainBinary
TrainTree == TrainBinary
TrainMlp == TrainBinary

(* The decision threshold, in a report that other scripts read; the          *)
(* calibration; and scores at whatever threshold there is.                   *)
OfModel(part) == File("binary", part, Content("binary", "model"), Reading("binary", {"model"}))

SelectThreshold ==
    line = "binary" /\ Whole("binary", "model") /\ Run(<<OfModel("threshold")>>)

CalibratePlatt ==
    line = "binary" /\ Whole("binary", "model") /\ Run(<<OfModel("platt")>>)

EvaluateProbabilities ==
    /\ line = "binary" /\ Whole("binary", "threshold") /\ Whole("binary", "model")
    /\ Run(<<File("binary", "report", Content("binary", "model"),
                  Reading("binary", {"model", "threshold"}))>>)

-----------------------------------------------------------------------------
(* A ZILN model is a directory of parts; load() takes a missing variance     *)
(* model for none.                                                           *)
Parts == <<"prep", "occurrence", "location", "scale", "meta">>

(* Mutant: the metadata first.                                               *)
MetaFirst == <<"meta", "prep", "occurrence", "location", "scale">>

SaveOrder == Parts

Save(d, Part(_)) == [i \in 1 .. 5 |-> Part(SaveOrder[i])]

Loads(d) == /\ \A part \in {"meta", "prep", "occurrence", "location"} : Whole(d, part)
            /\ Has(d, "scale") => Whole(d, "scale")
Loaded(d) == Reading(d, {"prep", "occurrence", "location", "scale", "meta"})

(* fit_ziln(): the assembled rows and the residuals are in the working       *)
(* directory before the rest is fitted.                                      *)
WorkFiles == <<File("work", "assembled", Mine, {}), File("work", "oof", Mine, {})>>
Fitted(d, part) == File(d, part, Mine, {})

TrainZiln(d) ==
    line = "ziln" /\ Run(WorkFiles \o Save(d, LAMBDA part : Fitted(d, part)))

(* The variance model and the tables anew, from the residuals that are in    *)
(* the working directory, whole or not, and all parts saved again.           *)
OfResiduals(d, part) == File(d, part, Content("work", "oof"), Reading("work", {"oof"}))
Refitted(d, part) == IF part \in {"scale", "meta"} THEN OfResiduals(d, part)
                     ELSE File(d, part, Content(d, part), {})

RefitVariance(d) ==
    /\ line = "ziln" /\ Loads(d) /\ Has("work", "oof")
    /\ Run(Save(d, LAMBDA part : Refitted(d, part)))

EvaluateZiln(d) ==
    /\ line = "ziln" /\ Loads(d)
    /\ Run(<<File(d, "report", Content(d, "location"), Loaded(d))>>)

(* The scored rows of 2024 are kept, by the marker of a finished write,      *)
(* whichever model they are of; the report is of them.                       *)
Scored(d) == File("work", "scored", Content(d, "occurrence"), Reading(d, {"prep", "occurrence"}))

Diagnose(d) ==
    /\ line = "ziln" /\ Loads(d)
    /\ Run(IF Whole("work", "scored")
           THEN <<File("work", "report", Content("work", "scored"), Reading("work", {"scored"}))>>
           ELSE <<Scored(d), [Scored(d) EXCEPT !.name = <<"work", "report">>]>>)

-----------------------------------------------------------------------------
(* The distributional experiment: the tables of the years, of which two      *)
(* stand for the six of the training, in the order they are written.  Those  *)
(* of another build may have other test rows.                                *)
Years == <<"2021", "2022", "2023", "2024">>
YearSet == {"2021", "2022", "2023", "2024"}

Rebuild ==
    /\ line = "dist"
    /\ \E rows \in {1, 2} : Run([i \in 1 .. 4 |-> File("tables", Years[i], rows, {})])

HasTables == \A year \in YearSet : Whole("tables", year)
OfTables(where, part) ==
    File(where, part, Content("tables", "2024"), Reading("tables", YearSet))

(* Scaling and stations from the training years, the best epoch on 2023, and *)
(* forecasts of 2023 and 2024.                                               *)
TrainFamily(family) ==
    /\ line = "dist" /\ HasTables
    /\ Run(<<OfTables(family, "model"), OfTables(family, "pred")>>)

(* Its scores are set against the saved forecasts of the ZILN run, row by    *)
(* row; numpy raises if they are not as many, and only then.                 *)
TrainBinned ==
    /\ line = "dist" /\ HasTables
    /\ LET from == Reading("tables", YearSet) \cup Reading("ziln", {"pred"})
           comparison == File("binned", "comparison", Content("tables", "2024"), from)
       IN  \/ Run(<<OfTables("binned", "model"), comparison>>) /\ Whole("ziln", "pred")
           \/ /\ Run(<<OfTables("binned", "model")>>)
              /\ Whole("ziln", "pred") => Content("ziln", "pred") # Content("tables", "2024")

(* The test rows of all runs have to be equal.                               *)
SameRows(S) == \A a, b \in S : Content(a, "pred") = Content(b, "pred")

EvaluateFamilies ==
    /\ line = "dist"
    /\ \E S \in SUBSET {family \in Families : Whole(family, "pred")} :
          /\ S # {} /\ SameRows(S)
          /\ \E family \in S :
                Run(<<File("results", "report", Content(family, "pred"),
                           UNION {Reading(f, {"pred"}) : f \in S})>>)

-----------------------------------------------------------------------------
(* A write replaces the file of that name.                                   *)
Put(file) == [f \in DOMAIN disk \cup {file.name} |->
                 IF f = file.name THEN file ELSE disk[f]]
Without(name) == [f \in DOMAIN disk \ {name} |-> disk[f]]

Write ==
    /\ todo # << >>
    /\ disk' = Put(Head(todo))
    /\ todo' = Tail(todo)
    /\ UNCHANGED <<line, started, cut>>

(* JSON and CSV reports, numpy and PyTorch files and DuckDB's tables are     *)
(* opened and overwritten.                                                   *)
BySpark(name) == line # "dist" /\ name[2] \notin {"meta", "threshold", "report"}

Kill ==
    /\ todo # << >> /\ cut < MaxCut
    /\ \/ UNCHANGED disk
       \/ disk' = Put([Head(todo) EXCEPT !.whole = FALSE])
       \/ BySpark(Head(todo).name) /\ disk' = Without(Head(todo).name)
    /\ cut' = cut + 1
    /\ todo' = << >>
    /\ UNCHANGED <<line, started>>

Next ==
    \/ TrainLogistic \/ TrainTree \/ TrainMlp
    \/ SelectThreshold \/ CalibratePlatt \/ EvaluateProbabilities
    \/ \E d \in Dirs : TrainZiln(d) \/ RefitVariance(d) \/ EvaluateZiln(d) \/ Diagnose(d)
    \/ Rebuild \/ TrainBinned \/ EvaluateFamilies
    \/ \E family \in Families : TrainFamily(family)
    \/ Write \/ Kill

Spec == Init /\ [][Next]_vars

-----------------------------------------------------------------------------
(* A model directory that loads, and whose first and last part are of one    *)
(* save, has all its parts of that save: a save that was cut short over an   *)
(* older model shows.  Its variance model and its error tables are then of   *)
(* the same residuals, which are not older than its location model.          *)
WholeIfEndsAgree(d) ==
    Loads(d) /\ SavedBy(d, "prep") = SavedBy(d, "meta") =>
        /\ \A i \in 1 .. 5 : Has(d, Parts[i]) /\ SavedBy(d, Parts[i]) = SavedBy(d, "meta")
        /\ Content(d, "scale") = Content(d, "meta")
        /\ Content(d, "scale") >= Content(d, "location")

(* A family is not tested on tables newer than those it was trained on.      *)
TestedOnNoNewer(family) ==
    Has(family, "pred") =>
        \A i, j \in 1 .. 4 : \A r, s \in disk[<<family, "pred">>].from :
            i <= j /\ r.name[2] = Years[i] /\ s.name[2] = Years[j] => r.save >= s.save

(* A file that none of its sources is newer than is of these sources.        *)
CurrentUnlessOlder(file) ==
    \A source \in file.from :
        source.name \in DOMAIN disk /\ disk[source.name].save <= file.save =>
            disk[source.name].save = source.save

(* The dates of the files tell what a killed or repeated script has left: a  *)
(* mixture of two saves, tables of two builds, a result of what was replaced *)
(* since.  No script checks them; that they tell rests on the order in which *)
(* save() of ziln.py and main() of prep.py write and on when the scripts     *)
(* read.                                                                     *)
FileOrderTells ==
    /\ todo = << >> => \A d \in Dirs : WholeIfEndsAgree(d)
    /\ \A family \in Families : TestedOnNoNewer(family)
    /\ \A f \in DOMAIN disk : CurrentUnlessOlder(disk[f])
=============================================================================
