------------------------------ MODULE MC_Rainfall ------------------------------
(***************************************************************************)
(* The rainfall programs, on small data.  A run of the model is one job:   *)
(* "download" (an object of three bytes, replaced by one of two and by     *)
(* one of four), "cleaning" (three raw rows of two keys), "quality" (one   *)
(* gauge, seven days around a New Year), "features" (two stations, eight   *)
(* slots of which two are irregular), "forecasts" (both chains of scripts, *)
(* two killed runs), "amounts" (four rows, three edges), "scores" (four    *)
(* forecasts, or a distribution of at most eight rows over three wet       *)
(* amounts), "lineage" (four scripts in a row, two of them killed),        *)
(* "patterns" (seven slots of a station, an hour of two) and "threshold"   *)
(* (four scored rows, four scores).                                        *)
(***************************************************************************)
EXTENDS Thresholds, Sequences

CONSTANTS Size, MaxAttempts, MaxKills,
          Key, MaxUpdate, MaxRows,
          Days, NewYear, StuckMinWetDays, RepeatMinDays, RepeatMaxGapDays, DayBuffer,
          Station, Own, HistorySlots, FutureSlots, RichSlots, Slots, MaxIrregular,
          Sample, J,
          N, Grades, V, MaxWeight,
          Dirs, Families, MaxScripts, MaxCut,
          PatternSlots, HourSlots, ClassEdges

VARIABLES job,
          script, version, output, partial, pc, remote_bytes, measured, attempt, kills,
          raw, cleaning, counts, cleaned,
          kind, masking, ds, linked, spans, kept,
          slot, readings, early, irregular,
          chain, stage, running, writing, wet, model, store, position, report, swept, killed,
          y, bin, s_pos,
          data, scores,
          line, disk, todo, started, cut,
          rain, seen, tables

MCSize == <<3, 2, 4>>

D == INSTANCE Download
C == INSTANCE Cleaning WITH stage <- cleaning
Q == INSTANCE QualityControl WITH pc <- masking, chain <- linked, output <- kept
F == INSTANCE Features
P == INSTANCE Forecasts WITH pc <- running, kills <- killed
A == INSTANCE Amounts
G == INSTANCE Scores
L == INSTANCE Lineage
E == INSTANCE Patterns

downloadVars == <<script, version, output, partial, pc, remote_bytes, measured, attempt, kills>>
cleaningVars == <<raw, cleaning, counts, cleaned>>
qualityVars == <<kind, masking, ds, linked, spans, kept>>
featureVars == <<slot, readings, early, irregular>>
forecastVars == <<chain, stage, running, writing, wet, model, store, position, report,
                  swept, killed>>
amountVars == <<y, bin, s_pos>>
scoreVars == <<data, scores>>
lineageVars == <<line, disk, todo, started, cut>>
patternVars == <<rain, seen, tables>>
jobVars == <<job, downloadVars, cleaningVars, qualityVars, featureVars,
             forecastVars, amountVars, scoreVars, lineageVars, patternVars, vars>>

(* A job that is not run.                                                    *)
NoDownload == /\ script = "none" /\ version = 1 /\ output = << >>
              /\ partial = << >> /\ pc = "off" /\ remote_bytes = 0
              /\ measured = 1 /\ attempt = 0 /\ kills = 0
NoCleaning == /\ raw = 0 /\ cleaning = 0 /\ counts = 0 /\ cleaned = 0
NoQuality == /\ kind = 0 /\ masking = 0 /\ ds = 0 /\ linked = 0 /\ spans = 0
             /\ kept = 0
NoFeatures == /\ slot = 0 /\ readings = 0 /\ early = 0 /\ irregular = 0
NoForecasts == /\ chain = 0 /\ stage = 0 /\ running = 0 /\ writing = 0
               /\ wet = 0 /\ model = 0 /\ store = 0 /\ position = 0
               /\ report = 0 /\ swept = FALSE /\ killed = 0
NoAmounts == y = 0 /\ bin = 0 /\ s_pos = 0
NoScores == data = 0 /\ scores = 0
NoLineage == line = 0 /\ disk = 0 /\ todo = 0 /\ started = 0 /\ cut = 0
NoPatterns == rain = 0 /\ seen = 0 /\ tables = 0
NoThreshold == /\ score = 0 /\ positive = 0 /\ bins = {0} /\ tp = 0 /\ pp = 0
               /\ best = 0 /\ f1 = 0

JobInit ==
    \/ /\ job = "download"
       /\ NoCleaning /\ NoQuality /\ NoFeatures
       /\ NoForecasts /\ NoAmounts /\ NoScores /\ NoLineage
       /\ NoPatterns /\ NoThreshold
       /\ D!Init
    \/ /\ job = "cleaning"
       /\ NoDownload /\ NoQuality /\ NoFeatures
       /\ NoForecasts /\ NoAmounts /\ NoScores /\ NoLineage
       /\ NoPatterns /\ NoThreshold
       /\ C!Init
    \/ /\ job = "quality"
       /\ NoDownload /\ NoCleaning /\ NoFeatures
       /\ NoForecasts /\ NoAmounts /\ NoScores /\ NoLineage
       /\ NoPatterns /\ NoThreshold
       /\ Q!Init
    \/ /\ job = "features"
       /\ NoDownload /\ NoCleaning /\ NoQuality
       /\ NoForecasts /\ NoAmounts /\ NoScores /\ NoLineage
       /\ NoPatterns /\ NoThreshold
       /\ F!Init
    \/ /\ job = "forecasts"
       /\ NoDownload /\ NoCleaning /\ NoQuality
       /\ NoFeatures /\ NoAmounts /\ NoScores /\ NoLineage
       /\ NoPatterns /\ NoThreshold
       /\ P!Init
    \/ /\ job = "amounts"
       /\ NoDownload /\ NoCleaning /\ NoQuality
       /\ NoFeatures /\ NoForecasts /\ NoScores /\ NoLineage
       /\ NoPatterns /\ NoThreshold
       /\ A!Init
    \/ /\ job = "scores"
       /\ NoDownload /\ NoCleaning /\ NoQuality
       /\ NoFeatures /\ NoForecasts /\ NoAmounts /\ NoLineage
       /\ NoPatterns /\ NoThreshold
       /\ G!Init
    \/ /\ job = "lineage"
       /\ NoDownload /\ NoCleaning /\ NoQuality
       /\ NoFeatures /\ NoForecasts /\ NoAmounts /\ NoScores
       /\ NoPatterns /\ NoThreshold
       /\ L!Init
    \/ /\ job = "patterns"
       /\ NoDownload /\ NoCleaning /\ NoQuality
       /\ NoFeatures /\ NoForecasts /\ NoAmounts /\ NoScores
       /\ NoLineage /\ NoThreshold
       /\ E!Init
    \/ /\ job = "threshold"
       /\ NoDownload /\ NoCleaning /\ NoQuality
       /\ NoFeatures /\ NoForecasts /\ NoAmounts /\ NoScores
       /\ NoLineage /\ NoPatterns
       /\ Init

JobNext ==
    /\ UNCHANGED job
    /\ \/ /\ job = "download" /\ D!Next
          /\ UNCHANGED <<cleaningVars, qualityVars, featureVars, forecastVars,
                        amountVars, scoreVars, lineageVars, patternVars, vars>>
       \/ /\ job = "cleaning" /\ C!Next
          /\ UNCHANGED <<downloadVars, qualityVars, featureVars, forecastVars,
                        amountVars, scoreVars, lineageVars, patternVars, vars>>
       \/ /\ job = "quality" /\ Q!Next
          /\ UNCHANGED <<downloadVars, cleaningVars, featureVars, forecastVars,
                        amountVars, scoreVars, lineageVars, patternVars, vars>>
       \/ /\ job = "features" /\ F!Next
          /\ UNCHANGED <<downloadVars, cleaningVars, qualityVars, forecastVars,
                        amountVars, scoreVars, lineageVars, patternVars, vars>>
       \/ /\ job = "forecasts" /\ P!Next
          /\ UNCHANGED <<downloadVars, cleaningVars, qualityVars, featureVars,
                        amountVars, scoreVars, lineageVars, patternVars, vars>>
       \/ /\ job = "amounts" /\ A!Next
          /\ UNCHANGED <<downloadVars, cleaningVars, qualityVars, featureVars,
                        forecastVars, scoreVars, lineageVars, patternVars, vars>>
       \/ /\ job = "scores" /\ G!Next
          /\ UNCHANGED <<downloadVars, cleaningVars, qualityVars, featureVars,
                        forecastVars, amountVars, lineageVars, patternVars, vars>>
       \/ /\ job = "lineage" /\ L!Next
          /\ UNCHANGED <<downloadVars, cleaningVars, qualityVars, featureVars,
                        forecastVars, amountVars, scoreVars, patternVars, vars>>
       \/ /\ job = "patterns" /\ E!Next
          /\ UNCHANGED <<downloadVars, cleaningVars, qualityVars, featureVars,
                        forecastVars, amountVars, scoreVars, lineageVars, vars>>
       \/ /\ job = "threshold" /\ Next
          /\ UNCHANGED <<downloadVars, cleaningVars, qualityVars, featureVars,
                        forecastVars, amountVars, scoreVars, lineageVars, patternVars>>

JobSpec ==
    /\ JobInit
    /\ [][JobNext]_jobVars
    /\ D!Progress

-----------------------------------------------------------------------------
(* A CSV has the size that was measured last and is the whole object, unless *)
(* the object was replaced since its partial file was begun (the download    *)
(* scripts; see module Download).                                            *)
PublishedIsWhole == job = "download" => D!PublishedIsWhole

(* The linux script gets the file in the end (the same).                     *)
EventuallyPublished == D!EventuallyPublished

(* The cleaning report adds up for what was written, whichever of tied rows  *)
(* each evaluation keeps (clean.py; see module Cleaning).                    *)
CountsMatchWritten == job = "cleaning" => C!CountsMatchWritten

(* The readings written by the quality control are those of days that no     *)
(* rule masks (qc.py, qc_rainfall.py; see module QualityControl).            *)
MaskIsRules == job = "quality" => Q!MaskIsRules

(* No row has a neighbour's reading that is not older than its own           *)
(* (spatial.py, rich_features.py; see module Features).                      *)
NeighboursArePast == job = "features" => F!NeighboursArePast

(* What counts as complete has no gap: the windows without a doubled slot    *)
(* (features.py; the same), the events and the hours of the weather patterns *)
(* (eda_patterns.py; see module Patterns).                                   *)
CompleteIsGapless == /\ job = "features" => F!CompleteIsGapless
                     /\ job = "patterns" => E!TablesMatchRain

(* A report is made of whole forecasts on one set of labelled rows, after    *)
(* any kills (evaluate_amount_models.py; see module Forecasts).              *)
ReportIsConsistent == job = "forecasts" => P!ReportIsConsistent

(* The dates of the files tell what killed and repeated scripts have left    *)
(* (ziln.py, prep.py and the scripts that train, tune and score models; see  *)
(* module Lineage).                                                          *)
FileOrderTells == job = "lineage" => L!FileOrderTells

(* Every way of computing P(Y > edge) gives the share of the rows above the  *)
(* edge (amount_models.py, train_binned.py; see module Amounts), and every   *)
(* score of a forecast is the one its name promises (evaluate.py, dists.py,  *)
(* ziln.py; see module Scores).                                              *)
ForecastsAreExact == /\ job = "amounts" => A!SurvivalIsShare
                     /\ job = "scores" => G!ScoresAreExact
=============================================================================
