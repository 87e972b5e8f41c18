# Verification of the DSA5208 projects

TLA+ models, TLC runs and TLAPS proofs for the programs of this repository. Paths below are relative to the
repository root (in `PROJECT.json` they are prefixed with `src/`).

## 1. Inventory

The repository holds three course projects: a concurrent, fault-injecting experiment on a replicated database, a
batch pipeline that forecasts rainfall, and a parallel chess search.

### Project 1: session guarantees of a replicated database

| Component | State | Operations | Hard behaviour | Correct when |
|---|---|---|---|---|
| Checker (`src/project1/checker.py`, `model.py`) | `latest` and `pairs` of two loops; sets of candidates and covered effects | `check` and the four `check_*` functions, `_dependencies`, `_check_probes`, `_finish` | one pass, one remembered event, early return, which of several causes is kept, missing or failed evidence | the answer is the verdict of the whole history; a witness is real; more evidence never retracts a violation |
| Runner, mock executor (`runner.py`, `mock_executor.py`) | the history | `run_trajectory`, `execute` | order of observations | as above, for each prefix |
| Command line, Cassandra executor (`cli.py`, `cassandra_executor.py`) | configuration, driver sessions per node, `client_nodes` | `main`, `execute` (`connect`, `write`, `read`, controls), `close` | options over environment, clients that move, cached sessions, failed connections | a request reaches the node its trajectory asks for |
| Failure controllers (`failure_control.py`) | none | `apply` | commands that fail, with or without effect | a fault reported as injected was injected |
| Trial (`scripts/run_real_experiments.py`, class `Trial`) | `setup`, `history`, `result` | `prepare`, `workload`, `probe`, `export` | late, lost and timed-out writes; two reads of a probe; clock | a recorded violation is true of a replica, a pass is backed by one, predictions hold where the fault decides |
| Isolation scripts (`failure_control.py`, `firewall_script`) | iptables chain and hooks of a container | enable, heal | lock time-outs, scripts that die halfway, repetition | reported isolation drops both directions; healing removes what was added and nothing else |
| Laboratory control (`run_real_experiments.py`, class `LabControl`) | containers, addresses, `controls.jsonl` | `preflight`, `restore`, `healthy`, `settle_views`, `set_isolated`, `verify_isolation`, `stop` | every step can fail; a docker call goes on without its client | evidence is logged only of what was seen |
| Campaign (`scripts/reproduce_independent.py`) | case loop, attempts, `failure`, summaries, `progress.json`, `completion.json` | `run`, `verify_record`, `interrupted` | exceptions in try, except and finally; SIGTERM anywhere; retries; the lab left by an earlier run | the workload meets exactly its fault, is never repeated, the files say what happened |
| Suite (`run_real_experiments.py`, `main`) | one fault episode per scenario, pending trials, `completion.json` | `main` | sustained fault, measurement isolation, final restore after `completion.json` | every workload and probe meets its fault, every history is recorded once |
| Archive audit (`scripts/summarize_completed.py`) | none | replays and recounts | evidence, membership, isolation of every record | the replayed status equals the recorded one |

The executor is called by the runner or the trial; the trial by the campaign or the suite, which call the
laboratory control around it; the control runs the scripts inside the containers and thereby changes what the
cluster answers to the executor. All evidence ends in the history, which the checker judges, and in
`controls.jsonl`, which `verify_record` compares with the history.

### Project 2: rainfall pipeline (`project2/`)

| Component | State | Operations | Hard behaviour | Correct when |
|---|---|---|---|---|
| Download scripts | annual CSVs and partial files | probe, transfer, compare, rename | kills, broken transfers, an object replaced between two requests | a published file is whole; it is published in the end |
| Cleaning (`clean.py`) | report and cleaned frames | `valid_rows`, `deduplicate`, report, output | frames evaluated several times, ties, SQL unknowns | the report counts what was written |
| Quality control (`qc.py`, `qc_rainfall.py`) | flags, spans, masks, output per year | rules A to E, `repeat_spans`, main | chains of days, gaps in the data, the New Year | exactly the masked days are missing |
| Features (`features.py`, `spatial.py`, `rich_features.py`, `prep.py`) | none | windows, lagged joins | stamps at :00 and :59, doubled and missing slots | no predictor uses the future; complete windows have no gap |
| Weather pattern tables (`eda_patterns.py`) | tables | station hours, rain events | missing readings | gaps do not pass for dry weather |
| Amount models (`amount_models.py`, `train_binned.py`) | grids | hazards, classes, bins to P(Y > edge) | empty risk sets, edges that coincide with amounts | all of them give the share of rows |
| Scores (`evaluate.py`, `dists.py`, `ziln.py`, bootstrap) | none | areas under curves, thresholds, CRPS, lattice | ties, single classes, rounding cells | each is what its definition says |
| Threshold selection (`select_decision_threshold.py`, `ziln.py`) | cumulative confusion matrix | one sweep | ties, no positives | no other threshold is better |
| Training and evaluation scripts | training rows, models, frames, forecasts on disk | scripts of `experiments/distributional` and `scripts/` | kills, reuse of what lies on disk, chains of scripts | a report rests on whole forecasts of one set of rows; what a killed or repeated script mixed or left behind can be told |

The programs are batch jobs that meet only through files.

### Project 3: chess search backends (`project3/src/main.cpp`)

`negamax` (fail-soft alpha-beta), `serial_search`; `root_search` (root moves over OpenMP threads and MPI ranks,
optionally with the first move searched as a seed); `build_frontier`, `frontier_search` (tasks below a split depth);
`build_node`, `device_search` (flattened tree, explicit stack), `gpu_search`, `chunked_negamax`,
`gpu_chunked_search`, `profile_device_batch`. State: score vectors, per-task counters, the tree, the device stack,
device buffers. Hard: dynamic schedules, collectives that all ranks must enter, windows and signs, bounds on the tree,
allocations that fail. Correct when every backend returns the score and the move of the plain minimax. The measurement
scripts (`multiposition.py`, `summarize_multiposition.py`) launch jobs and group their rows; a PASS must be three
distinct successful launches. The rules of chess are a vendored library.

## 2. Modules

| Module | Models | Correspondence |
|---|---|---|
| `Checker` | `checker.py` | One operator per function, on a sequence of records (the position of an event is its `index`). `SessionVerdict` states read-your-writes and monotonic reads over the whole history; the other checks are set expressions for the nested loops, which have no state but `covered` and `last`. |
| `SessionLoops` | the loops of `check_read_your_writes`, `check_monotonic_reads` | One action per branch of the loop body, `latest` as a function with 0 for an absent key. |
| `Trajectory` | `run_trajectory`, `MockExecutor` | `Execute` appends any observation; `Result` is the answer if the trajectory ends now. |
| `Executor` | `cli.py`, `cassandra_executor.py`, `apply` of `failure_control.py` | `Start` is `main` up to the executor (options over environment over defaults), then one action per operation. A request succeeds at a host the session allows, or fails; a control that fails may have had its effect. |
| `Cluster` | Cassandra as the code uses it (external) | A request is one step: the replicas that applied it before the answer are chosen, the rest becomes `mutations`, delivered any time later or never. `Isolate` keeps mutations that were queued at the node. |
| `Trial` | `Trial`, and the fault and isolation `run()` puts between its methods | One action per request; `pc` names the next statement. EXTENDS `Cluster` and `Checker`: results are computed with the checker's operators on the recorded history. |
| `Firewall` | `firewall_script` | One action per `iptables` command. `Command`, `Test` and `ListRules` are what `sh -e` does with a plain command, a condition and the last command; each may fail for the xtables lock. |
| `Campaign` | `run()`, `verify_record`, `LabControl`, and the per-case assertions of `summarize_completed.py` | `pc` is the stage of `run()`; the steps a procedure of `LabControl` has left are in `todo`; `Raise` is what an exception does in the try block, the except block and the recovery. The trial and the scripts are abstracted to their outcomes. |
| `Suite` | `main()` of `run_real_experiments.py` | The calls the try or the finally block has left are in `todo`, any of them may raise, and healing may do nothing. Scenarios come in any order, trials are indistinct until they are recorded. |
| `GameTree` | `evaluate`, `drawn`, `negamax`, `serial_search` of `main.cpp` | A position is a record of what the search asks the move generator; the positions in `Known[n]` have the moves the search asks for within n plies. Recursions are functions of their arguments (`Calls`, `Searched`), not RECURSIVE operators, so that theorems can speak of them. `minimax` is the reference; `negamax` returns the score and the number of nodes, `After` is one turn of its loop; `FirstBest` is the reduction at the end of every backend. |
| `CpuSearch` | `root_search`, `build_frontier`, `combine_frontier`, `frontier_search` | One process per MPI rank, its threads as a window of unfinished iterations; a task is one step because it touches only its own elements. A collective is a step of all ranks, except the rooted ones: the broadcast and the gather let a rank that only sends go on. |
| `TargetTree` | `build_node` | The vector of nodes, in the order in which `build_node` appends them, by a recursive function of the arguments of `build_node`. A leaf board is represented by what the kernel makes of it. The field `at` of a node is what `build_node` is called with for it; it is not in the code and no step reads it. |
| `DeviceSearch` | `device_search` | One action per way through the loop body: `Return`, `Pop`, `Push`. `IsTree` says what is a tree: a node has its score, or one child for each of its moves, in their order. |
| `Offload` | `gpu_search`, `chunked_negamax`, `gpu_chunked_search`, `profile_device_batch` | The host's recursion as a stack of frames; what the device computes is the minimax of a node, as `DeviceSearch` shows. Each allocation, copy and kernel may fail. |
| `Measurements` | `multiposition.py`, `summarize_multiposition.py` | Batch jobs append rows; a launch may fail, find a wrong score, be cut off with its job, and a job may run twice. The table groups the rows of all jobs. |
| `Download` | `download_rainfall_data.sh`, `download.sh` | A file is the sequence of the versions of its bytes; one action per command of the loop. |
| `Cleaning` | `clean.py` | Raw rows by what parsing makes of them; every evaluation of a frame (count or write) ranks tied rows anew. |
| `QualityControl` | `qc.py` rules A to D, `main()` of `qc_rainfall.py` | One action per turn of `repeat_spans`, whose ascending lists of days are sets, and one per year written. |
| `Features` | `features.py`, `spatial.py`, `rich_features.py`, `prep.py` | Stations export slots in any mix of stamps; a predictor is the set of readings it is made of. |
| `Patterns` | `eda_patterns.py` | What fell and which slots have a reading are chosen; the tables are computed from the readings and compared with what fell. |
| `Amounts` | `amount_models.py`, `train_binned.py` | Amounts on an edge or between two, an ideal learner, P(Y > edge) as a fraction. |
| `Scores` | `evaluate.py`, `dists.py`, `ziln.py` (`score_rows`, quantiles), `bootstrap_amount_models.py` | Rows sorted by forecast with ties in any order, or a distribution on few amounts; scores are integers, multiplied by the denominators of their formulas. |
| `Thresholds` | `select_f1_threshold`, `best_f1_threshold` | One action per bin of the sweep. |
| `Forecasts` | `train_amount_model.py`, `evaluate_amount_models.py` and the shell scripts that chain them | Directories are missing, cut or whole, and carry the labels of the rows in them; kills anywhere, also within the `rm -rf` at the end of `run_label_fix.sh` (`KillRemoval`, `Torn`). |
| `Lineage` | the scripts that train, tune, refit, diagnose and score the classifiers, the ZILN model and the distributional families | A file has the run that wrote it (`save`), what it was fitted on or holds (`content`), the files it was computed from as they were (`from`), and may be cut. A script reads when it starts (`Run`) and then writes its files one by one (`Write`); a kill cuts the one at hand, or leaves none where Spark removes before it writes. |

`Campaign_proofs`, `Checker_proofs`, `Drivers_proofs`, `Firewall_proofs`, `Rainfall_proofs`, `Scores_proofs` (the scores and
the amounts of the rainfall forecasts), `Search_proofs` (the three chess searches) and `Trial_proofs` hold theorems
(section 5). Some of them prove about a module of a run that composes several programs (`MC_Checker`, `MC_Drivers`,
`MC_Rainfall`): each program has its own invariant there, and one lemma says that the steps of the others leave it alone.

Composition: `Trial` EXTENDS `Cluster` and `Checker`, so that every result is the checker's answer about what the
cluster answered. `MC_Search` composes `DeviceSearch` with `TargetTree` (which trees there are), `GameTree` (what
the host's negamax makes of the same position), `Offload` (the searches that use the trees) and `CpuSearch`. `MC_Checker`
judges the same history by the loops and by whole trajectories. `MC_Drivers` (jobs executor, suite, measure), `MC_Search`
(jobs cpu, device, host) and `MC_Rainfall` (nine jobs) put programs that share nothing into one state space: a run of the model is one job, the variables of the others
stay as they are. Every module can be checked by itself.

## 3. Runs

| Run | Question | Bounds, and why they suffice |
|---|---|---|
| `checker` | Do the loops decide the guarantee and report its first violation? Are dependency verdicts monotone, whichever cause is kept? | All histories of up to four events over a small set of events (two clients, versions 0 to 2, failed and incomplete events): a wrong answer needs a remembered, a forgotten and a compared event. Trajectories with real probes and with the evidence of the mock executor: cause, alternative cause, effect, probe is the longest pattern. |
| `trial` | What may each of the 36 cases record? | The code's own size: three nodes, two keys, one trial. Late delivery is unbounded, and each write may step the clock forwards or back. |
| `trial_clock_strong` (finding) | Do strong levels hold without increasing timestamps? | They do not. |
| `trial_normal` (finding) | Are the cases for which no violation is expected free of violations? | They are not. |
| `firewall` | Do isolation and cleanup do what they report? | Three isolations, any number of heals, two lock failures, two kills: leftovers of two scripts meet a third. |
| `campaign` | Does a campaign keep its protocol under failures and signals? | Two cases (the second starts from what the first left), any initial lab, any failing step, two signals (a second one inside the handling of the first). |
| `drivers` | Does the suite sustain its faults, the executor reach the node it should, a measured PASS mean what it says? | Three scenarios of two trials in any order; trajectories of three steps over two nodes and an unknown name (a client has to move and come back), options set in several ways; three jobs with two mishaps (one cannot hide another with less). |
| `search` | Do all CPU backends give the serial answer under every schedule, and end? Does the explicit stack do what the recursion does? Are the offloaded searches exact, and is every buffer released? | Games of three plies with mates, stalemates, draws and ties: the least with a cutoff below a root move and an inner node of a frontier. CPU: two ranks, two threads, every split depth, seeded or not; a node limit that some frontiers and trees exceed. Device: 486 positions, searched from each of their nodes: every pair out of nine second plies below one move, beside three other moves, in both orders. Offload: every chunk depth, each allocation and copy failing. |
| `rainfall` | The properties of the rainfall programs | Download: three versions of an object that grows and shrinks. Cleaning: three rows of two keys (one tie and one other). Quality: seven days around a New Year, chains of two. Features: two stations, eight slots with two irregular ones (a doubled and a missing slot in one window). Forecasts: two scripts, two kills. Amounts: four rows, three edges. Scores: four ranked rows, or three wet amounts with weights up to two. Lineage: four scripts, two kills. Patterns: every way to miss readings in seven slots of which hours take two. Threshold: four rows, four scores. |
| `rich_leak` (finding) | Are the rich predictors from the past? | They are not at the change from :59 to :00 exports. The code's own window lengths. |
| `label_fix` (finding) | Is every forecast rescored on the fixed labels? | It is not, also without a kill. |
| `label_cleanup` (finding) | Do all models of a report score the same rows, whatever was interrupted? | Not after one kill within the removal of the work directories. |

Deadlock is off where the system really stops (a case, a trajectory or a script that ends); `firewall` checks it.
Every property has a mutant of the code that breaks it (`PROJECT.json`); the mutated operators stand before the
ones they replace and are marked as such.

### What the runs show

Project 1:

* The loops' answers equal the whole-history verdicts and their witnesses are the first stale pairs.
* A violation stays a violation as long as the kind of evidence stays the same. It does not otherwise: the first
  probe in a history replaces synthetic evidence, and an application order that does not list a later write is
  no longer used. Both are the code's choice and are written into `SameEvidence`.
* With increasing timestamps, QUORUM and ALL never break a session guarantee whatever arrives late or times out,
  and ALL leaves no gap at the probed replica. What `prediction()` says of a partition, and of a stopped node at
  QUORUM and ALL, holds up to requests that fail by themselves (`FaultDecides`); what it says of a stopped node at ONE
  does not, see the second finding.
* A recorded violation is true of the replicas at that moment, even if mutations arrive between the two reads of
  the probe: the effect is read first. A dependency pass is backed by the cause itself at the isolated replica.
  A violation at QUORUM is a gap of one replica: every quorum still holds the cause.
* Isolation reported by the script drops both directions. Cleanup that reports success has healed the node if at
  most one check missed the lock; with two misses it can succeed without healing, and only the TCP checks of
  `preflight` and of the recovery notice. The properties of campaign and suite hold although healing may do nothing.
* The workload starts from exactly the fault of its case whatever an earlier run left behind, is issued once, and
  `completion.json` says `complete` only if every case was verified and the lab is open.
* `recovery_verified` is true of every node on which no docker call was abandoned. An abandoned call may take
  effect after the check; nothing in the code waits for it.
* In the suite all workloads of a scenario meet the same sustained fault with the data of all trials in place, and
  every probe meets N1 isolated besides; each history is recorded once and counted in `completion.json`.
* A successful request went to a host the configuration gives the node of its step, or of its client. With several
  hosts in `--contact-points` and none by node this is any of them: then sessions are not pinned to a node.
* If all controls of a node were reported ok, the node runs as the last stop or start says, and it is isolated only if its
  last partition came after its last stop (a stopped container loses its rules), and then unless a heal followed.

Project 3:

* Serial, threaded, distributed, seeded and frontier searches give the same score and the same move on every rank,
  ties included. Scores of moves after the seed may be bounds, but only at or below the seed, which stands first.
* No rank is left alone in a collective, also if there is nothing to split or the frontier exceeds the limit.
* The stack search returns the minimax value, visits exactly as many nodes as the pruned recursion, and reports a
  cutoff exactly if it left something out. The offloaded searches return the serial score and move, with chunks, with
  the fallback to the host, and release their buffers on every path.
* A PASS of the table is three distinct successful launches of one job with one score; speedups compare searches
  that found the same score.

Project 2:

* A published CSV is whole unless the object was replaced since its partial file was begun; the linux script
  publishes in the end.
* The cleaning report adds up for what was written although each count may keep other rows of a tie.
* Masks reach across gaps in the data and across the New Year, and nothing else is missing from the output.
* Neighbours' readings are older than the row in all four tables. Complete windows, events and hours have no gap,
  windows as long as no slot is doubled in them.
* Hazards, classes and bins give the share of rows above every edge. The scores are those of their definitions whatever
  the order of ties, rounding cells included.
* Evaluations redo what was cut short: their reports are made of whole forecasts on one set of rows, unless a removal
  of the work directories was cut short (finding 5).
* A killed save over an older ZILN model leaves a directory that loads and mixes two models. It shows: the first and the
  last file of a save are then of different times, because `save()` writes `ziln_meta.json` last, and a directory whose
  ends agree is of one save and one set of residuals. In the same way the tables of a family's test year are never newer
  than those it was trained on, and a threshold, a calibration, a report or a comparison that none of its sources is
  newer than is of these sources (`FileOrderTells`). No script looks at the dates; the property says what a
  person who does can rely on.
* What the dates do not tell: `refit_ziln_variance.py` saves a mixture again, after which it looks whole; the residuals it
  uses may be of a later run for another directory, or cut; `diagnose_final_model.py` reports on scored rows of an earlier
  model, so that its report is newer than a model it is not of. `FileOrderTells` claims nothing there.

### Findings

1. `trial_clock_strong`: writes are stamped with the wall clock and never compared with earlier stamps, while the
   report says "We use increasing timestamps" (`docs/latex/main.tex:49`). If the clock steps back between the
   preparation and the workload, the acknowledged new version loses everywhere and QUORUM or ALL show a violation.
2. `trial_normal`: the plan predicts no violation without a fault (`run_real_experiments.py:46`) and none with a stopped
   node below ALL (lines 47-52); `reproduce_independent.py:41` expects PASS for both. A late mutation is enough for a
   violation without a fault, as the run shows, and with a stopped node at ONE in the same way. At QUORUM there is none.
   The report documents two measured instances (cases 311 and 314).
3. `rich_leak`: `rich_features.py` joins the latest export of a slot on the rounded slot of a row, so that a row stamped
   :59 gets the reading stamped one second later when a station changes from :59 to :00, which its target counts too.
   The module calls its predictors "leakage-safe" (`rich_features.py:1`).
4. `label_fix`: `run_label_fix.sh` says that "every forecast is rescored on the fixed labels" (line 4), but reuses the
   training rows and forecasts that `run_final_checks.sh` left in the same directories.
5. `label_cleanup`: a kill within the last `rm -rf` of `run_label_fix.sh` (line 40) leaves some of these directories with their
   `_SUCCESS`. The script run again makes the missing ones with rounded labels and takes the others as they are, so that
   one report compares forecasts on both, where `evaluate_amount_models.py:62` says "an interrupted run resumes" and line 65
   "every model scores the same ones".

### Noted without a run

Disagreements and weak spots met while modelling. They are outside a model's state, or need a document that does not
speak of them.

* `main.cpp:535` (`gpu_search`): the limit `--max-tree-nodes` is compared below the root moves only, a tree of the root
  moves alone may exceed it (`project3/README.md:285` calls it a limit).
* `download_rainfall_data.sh:48`: the comment speaks of a full transfer where a partial file is continued.
* `reproduce_independent.py:106`: `LabControl` is made outside the try block; a lab it refuses leaves no completion file.
  Line 213: if `db.close()` raises, `progress.json` goes on saying `running`.
* `run_real_experiments.py:539`: `completion.json` is written before the last restore, whose failure it cannot report.
* `clean.py`: rows that tie in both update times are kept in any order, where `project2/README.md:53` says
  "deterministically"; rows with missing coordinates or units pass no rule and are counted by none.
* `features.py`: a doubled slot hides a missing one in "six readings" (`docs/feature-contract.md:7`).
* `qc.py:190` (rule E): a missing reading next to a spike counts as 0.
* `eda_patterns.py:64`: an event joins wet readings that are up to 65 minutes apart, as its constant says, where its
  docstring says "less than EVENT_GAP_S apart"; an event is complete also when readings are missing right outside of it.
  Frames in `data/interim/eda` are reused whatever `--interim-dir` is.
* `train_amount_model.py:48`, `run_pipeline.sh`, the shell scripts' `[ -d ]`: a directory that a killed run left is taken
  for a whole one; `prep.py --sample` and other `--processed-dir` values reuse cached frames.
* `refit_ziln_variance.py`: uses whatever residuals are in the shared work directory; over an older model a killed save
  leaves parts of two fits that load (`WholeIfEndsAgree` says how to tell).
* `run_ziln_spark.sh` reads the key `sigma_selection_2023` that `train_ziln.py` no longer writes, and stops there.
* `predict_rain_probability.py` loads the year of the queried time only, so that a query right after a New Year has no
  history; its defaults combine models of `processed_qc` with tables of `processed`.
* `diagnose_final_model.py` keeps scored rows of an earlier model in the same path; a decision threshold is tied to its
  model by name only.
* `train_binned.py:113` compares with saved ZILN predictions "on identical rows" (line 8) and asserts nothing: tables built
  anew in between with as many rows are compared silently (modelled in `TrainBinned`). Its average precision depends
  on the order of tied rows; Brier skill divides by zero if only one class occurs.
* `build_spatial_features.py:40` averages coordinates over all years, the test year included.
* `summarize_multiposition.py`: `next()` raises if no serial or task row passed; a requeued job writes into the same
  directory and turns a complete group INCOMPLETE.

## 4. Fairness

* `CpuSearch`: weak fairness of the whole program: some rank that can go on does. No rank is favoured; the model
  ends because every step makes progress and no state short of the end blocks (`SearchTerminates`).
* `Firewall`: scripts run to their end unless killed (bounded), and healing is requested again and again, as
  `restore` does before and after every case. `HealingCleans` is about what happens once isolation is no longer
  requested (the bounds on isolations, lock failures and kills make that so).
* `Campaign`: weak fairness of the run (`RunEnds`). `healthy` and `settle_views` have deadlines, commands have `-w` and
  `timeout`, docker calls have the client's time limit. Signals and late effects are not fair.
* `Download` (`EventuallyPublished`): a user who wants the file runs the script again (weak), and of requests and
  transfers that are repeated without end some succeed (strong). Kills and replacements are bounded and not fair.
* The other specifications state no fairness and claim nothing about progress: a trial, a trajectory or a batch program
  may stop anywhere.

## 5. Proofs

One paragraph per module: what is proved and from which assumptions, the inductive invariant and why it is needed. The
inductive invariants are not listed in the runs: TLC checked them before they were proved, and the theorems cover
every instance. A property of the form `[][...]_vars` is proved from the same invariant as a state property.

`Checker_proofs`, the loops (any clients, keys, and set of finite histories): `Inductive` proves that `IInv` is an
invariant, and from it follow `TypeCorrect`, `LoopDecidesGuarantee` and `LoopReportsFirst`. `AnswerIsVerdict` is not
inductive: while the loop runs it says nothing. `IInv` adds that no stale pair lies in the part passed (`Clean`),
that `latest` holds the position of an event of the largest version seen for each client and key (`Remembers`;
for monotonic reads because a smaller one would have ended the loop), and that `pairs` is positive exactly if a
comparable pair was passed (`PairsCount`). One lemma per action. Assumptions: None is no client, key or version,
and histories are sequences of events.

`Checker_proofs`, the dependency checks (histories of any length). `CauseDoesNotMatter`: `dependency_probe` keeps the
last cause that matches an effect, but the verdict is the same for each of them, because every matching cause has the
version the effect names; that there is a last one is shown by a minimal counterexample, from the well-foundedness
of the naturals. `NeighboursSuffice`: `audit` compares each write in an order only with its neighbour of the same
client, and finds an inversion of any two, because between two writes out of order a closest pair is out of order, and
what stands between those two is of other clients. It needs sequence numbers that are naturals and orders that are
lists (`Numbered`). `ViolationPersists`: events that follow justify no earlier effect, so an effect keeps its cause
and its witness, as long as the kind of evidence stays the same. The three are carried to trajectories of any length by
an invariant that says what the executors append (`AnyCauseDecides`, `AuditIsComplete`, `ViolationStays`).

`Firewall_proofs` (any own rules, any number of isolations, lock failures and kills): `Inductive`, then
`IsolationIsComplete` and `OwnRulesStay`. The invariant says what the script has achieved at each line
(`Progress`) and that INPUT and OUTPUT are some hooks followed by the container's own rules; lemmas show that
inserting and removing a hook keep that form. `HealingIsComplete` is about one missed lock at most: while none was
missed a direction has one hook at most and the script knows whether it is there (`NoMiss`), and a chain that does not
exist is jumped to by nobody (`Removed`), so the only miss that a cleanup can report as success is the one at
the test for the chain, when the hooks are gone. Assumptions: our hook is no rule of the container's own.

`Search_proofs`, the device (any trees as `build_node` makes them, any node, any depth, any bound on scores):
`DeviceInvariant`, then `StackIsLongEnough`, `DeviceIsNegamax` and `DeviceReturnsMinimax`. That the result and the number
of nodes are those of the host's recursion says nothing while frames are on the stack. The invariant (`DeviceInv`)
says what each frame is: a call of the recursive `negamax` with its loop after as many moves as the frame has
tried (`Simulates`), in the window whose lower end stays in the frame below (`Floor`); the frame above is the call the
loop makes next (`Links`); `visited` is the sum of the nodes of all these loops (`Counted`); and the depth left at a frame's
node plus its slot never exceeds MAX_GPU_DEPTH. A pushed frame is a loop before its first move (`FrameOpens`), a popped
one is the result of its call (`FrameEnds`, where a cut-off loop stays as it is, `CutStays`) and gives its parent one more
turn (`FrameTakes`). The value is then the minimax value by `AlphaBeta`, because the window of the root is open on both
sides.

That the trees are as assumed is proved of the builder: `ChunkTreesAreTrees` (`chunked_negamax`) and `MoveTreesAreTrees`
(`gpu_search`), for every position, depth and `--max-tree-nodes` that is not exceeded. `BuildNodeIs` is the equation of
the recursion; a call fills in its node, appends good nodes and changes nothing else (`Grows`), by least depth
(`BuilderHolds`), and within a call move by move (`Filled`). Good nodes stay good while nodes are appended (`GoodStays`).
Assumptions: those of the game below, MAX_GPU_DEPTH is a number and the depth left plus the ply less than INF.

`Search_proofs`, the CPU backends (any positions whose moves are there for the depth, any depth,
ranks, threads, splits and node limits): `SerialSearchIsExact` and `BackendsAgree`.

* A recursive function of the model is a CHOOSE of a function that satisfies an equation. That there is one is shown once
  (`FixedPoint`): a function whose value depends on arguments of lower rank only, here of less depth, exists; a
  least counterexample gives uniqueness. `MinimaxIs`, `NegamaxIs`, `KnownIs`, `FrontierIs`, `BestIs` and `SizeIs` are
  the equations. The loop over the moves, a recursive function within `negamax`, is `Steps`.
* `AlphaBeta`: a search with window (alpha, beta) returns an upper bound of the value if it is at most alpha, a lower bound
  if it is at least beta, and the value in between (`Sound`), and without pruning the value. `TurnKnows` says what the loop
  knows after each move; `LoopEnds` what that is at the end or at the cutoff.
* `SerialFindsBest`: with the window lowered to the best move so far a later move of the same value is not exact any
  more, but cannot be taken for a better one (`SerialKnows`), so the first best move is found. Values within the
  horizon are less than INF (`ValuesBounded`), so there is a move.
* `CombineIsMinimax`: exact scores of the leaves of the frontier combine to the minimax value of every inner node. Paths
  tell the leaves apart, no leaf lies below another, and below every inner node there is one for each of its moves
  (`FrontierShape`, `CoveredUnder`).
* `SameInvHolds`: until the reduction a rank has the results of its own finished tasks and of the seed and nothing else
  (`Loop`), whatever was finished first; the maximum over the ranks is then good enough for the answer (`MaxOfRanks`,
  `Exact`: a move no better than the seed need not be exact), and the nodes summed over the ranks are a table with one
  entry per task that is not 0 (`SumOfTable`). TLC checked this invariant before it was proved.

Assumptions: scores of positions lie between -INF and INF, the depth is less than INF, MATE is less than INF.

`Search_proofs`, the offloaded searches (any positions, root depths, GPU depths, buffer capacities, and failures of any
allocation, copy or kernel): `OffloadedSearchIsExact`. A finished search says nothing of the negamax calls the host has
open, so the invariant `HostInv` does. A frame of the stack is a call in its loop, and what it knows (`FrameKnows`) is
what `TurnKnows` says of the recursive negamax after as many moves, within the window whose lower end is kept in the frame below
(`FrameLinked`); the bottom frame is the loop of `serial_search` (`RootKnows`). A returned value `Answers` the move the frame
below asked about, and adding it to the loop is one turn (`LoopTakes`). The scores of a batch answer because a chunk is
worth exactly what the frame that launched it asks (`ChunkScore`: `chunked_negamax` hands over at the depth the
kernel searches, `MoveTrees` one ply below the root), and are read only if every copy of the batch succeeded.

`Trial_proofs` (any behaviour of the wall clock, any quorums of which two have a replica in common and none is a single
one; the three nodes and two keys of the code): `Replayed`, `LevelsHold`, `FaultsDecide` and `Verdict`. None of these
speaks of the replicas before the result, so the invariant does: which history each stage has recorded (`History`), that
there is one timestamp under which version 1 of a key was written and every cell and mutation of version 1 has it, and
one above all others if the clock never stepped back (`Stored`), that an acknowledged write is stored at all replicas of
some answer (`Spread`), that a partition keeps version 1 on the side it was written at (`Apart`), and that a request
which cannot be answered gets no further (`Stuck`). `StrongLevelsHold` follows because two answers intersect in a replica
that stores the newer cell, and `RecordedIsReplayed` by computing the checker's answer for each history of `History`.
`Verdict` is about the step that records: it needs of `History` that an observed effect is still stored when the
cause is read. Assumptions: None and the write identifiers differ from everything else; time moves between two writes.

`Campaign_proofs` (any number of cases and signals): `AsPlanned`, `EvidenceStays`, `RecoveryReal`, `CompletionHonest`.
The invariant says that what is left to do is the end of the plan of its stage (`OnPlan`) and from that how far the
lab is prepared (`LabAsPlanned`), which proofs are among the controls once their steps are behind (`Proved`),
that a docker call is abandoned only by a case that keeps its failure (`Failures`), and what the summaries, the progress and
the completion file say of each other (`Files`). The abandoned calls are in `LabAsPlanned`: a node is open or one of
them may have changed it, which is why `recovery_verified` excludes those nodes and a complete campaign has none.

`Drivers_proofs`, the suite (`FaultSustained`, `HistoriesOnce`; any finite set of trials): `Place` says at which call of
its plan a pass is and what the lab and the data are there, for any order of the trials. `Once` says that each trial
of the scenario is in exactly one of four places: recorded, its record next, a call to come that judges it, or
pending until the pass has measured; so no trial is recorded twice and none is lost. That `completion.json` counts all
trials is a bijection between records and pairs of scenario and trial. The measurement scripts (`PassMeasured`; any
number of jobs): rows of a job have one phase (`OnePhase`), and a job that PBS did not run again launches each trial
of a case once (`LaunchedOnce`). Three rows with three trials in a group are then one of each.

`Drivers_proofs`, the executor (any nodes, clients, options and variables, trajectories of any length): `NeverReroutedHolds` and
`ControlsHold`. The first needs that `client_nodes` is where each client connected last (`LastConnect`) and that a kept
session goes to the hosts of its node (`SessionsFit`); where an earlier step had to go does not change when steps are
added (`RequestedStable`). The second is inductive node by node (`AsTold`): a control that reports ok leaves its node as it says, any other step leaves the node alone or adds a report
that is not ok (`MayDo`). Assumption: N1 is a node, no unknown name is.

`Rainfall_proofs`, one invariant per program, carried over the composed module by `JobStarts` and `JobSteps`:

* `SweepInvariant`, `BestThreshold` (any finite set of rows, any grid of scores). `BestIsMaximal` speaks of the end of
  the sweep and of all thresholds; the invariant says that the bins are visited downwards, that `tp` and `pp` count the
  rows passed, that no visited score has a larger F1 than the best so far, and that the best F1 is that of its threshold.
  A threshold between two scores predicts the same rows as the next one that occurs. The largest bin exists because
  the set is finite.
* `StampsAreSlots`, `NeighboursPast`, `CompleteGapless` (any stations, windows and streams of exports; the station at
  hand is one of them). Every reading is stamped at a slot or one second before it, and rounding finds that slot
  (`SlotIsNearest`). For complete windows a counting argument: a window of n slots with n readings, none of them two in
  a slot, has one in every slot.
* `TwoRankings`, `CountsMatch` (any keys, rows and updates; the value for an unparsed key is no key). Two rankings of
  the same rows keep rows of the same keys, so that the counts of two evaluations are equal; the report was counted on
  some rankings and the output is one more.
* `PublishedWhole` (any versions of the object, any of which may be empty): the size compared is that of the version
  measured last (`DownloadInv`), so a file of that length whose bytes are of that version is all of it.
* `ReportConsistent` (any number of kills): after a kill an evaluation goes through its list again from the start, so
  that all works before its position are whole. Every label is raw although the last script of the second chain rounds
  labels, because the frames of the first script are there before it starts (`ForecastInv`). A removal that was cut short
  ends what the invariant says (`swept`), and finding 5 shows why.
* `MasksAreRules` (any number of days, any New Year, thresholds, gap and buffer). `QualityInv` says that the days passed
  come before those to come, that the chain in hand is the end of the days passed, back to a gap that is too wide, that
  every span found is a chain of the rule, and that every chain of the rule that ends before the one in hand lies in a
  span: no chain crosses a gap that is too wide (`ChainStaysInHand`). For rule A, two zero days have the same number of
  rainy days before them exactly when none lies between (`SameRun`).
* `SurvivalExact` (`Amounts`: any rows, any edges). The predicted survival is a product of one minus the hazards, each
  a fraction of the rows at risk; the rows at risk in a bin are those that survive the one before, so that the products
  telescope to the share of rows above an edge (`AmountInv`).
* `GaplessIsComplete` (`CompleteGapless` and `Patterns`: any number of readings, slots, hours and classes under
  `PatternConstants`). The tables are sums of sums; a small library of finite sums, built without induction over an
  operator (`SumOf` is a function on the subsets of its domain, and a least counterexample replaces the induction),
  shows that a sum does not depend on how its terms are grouped. A wet reading is of one event, one hour and one class
  of durations, which is why nothing is counted twice or lost.
* `FileOrder` (any number of directories, families, scripts and kills). The invariant (`LineageInv`) is also about the
  writes the running script has left: they are the end of an order of files, and what stands before them is of this save
  (`Saving`). What is saved in an order gets older along it, and what lies between two files of one save is of that save
  (`Ordered`); a kill cuts it in one place. No script replaces what it has read (`Traced`), the variance model and
  the error tables of one save are of one set of residuals (`Agree`), and no location model is newer than the residuals in
  the working directory (`Residuals`), so that a refit keeps this order. One lemma per script, then `Write` and `Kill`.

`Scores_proofs` (`ForecastsExact`; any numbers of rows and grades, any amounts, weights and observations): sums over bins
and ranks are regrouped to sums over rows and pairs. A row's midrank counts the rows below it and half of those beside
it, so that the rank sum counts pairs; the precision-recall curve has a point per forecast that occurs; the best F1 is the
greatest of a finite set of fractions; a resample of days is a weight per day; the CRPS in its closed forms is summed over
0 to the top amount, where the forecast's chance is one; cells and PIT intervals use that wet amounts are odd multiples
of the half step and observations of the whole one. The first half is `SurvivalExact`. Assumptions: numbers of rows,
grades, amounts and the largest weight are naturals (`ScoreConstants`), those of `Amounts` besides.

Only model-checked, and why:

* `HealingCleans`, `RunEnds`, `SearchTerminates`, `EventuallyPublished`: liveness under fairness.
* The two finding runs about the clock and the normal case, and the three about labels, their removal and rich predictors: a theorem
  would state the opposite. `FaultsDecide` and `LevelsHold` say under which condition (`stepped` is false) the first holds.

## 6. Not modelled

Status and reason of each component are in `PROJECT.json`. In short:

* Plots, `run_pipeline.sh`, `run_qc_pipeline.sh`, `predict_rain_probability.py`, `evaluate_rule_baselines.py` and
  `summarize_vanda.py`: sequences of programs, a query, tables of one job.
* Floating-point fits (Spark trees, perceptrons, ZILN, the distributional families): their inputs, files and scores are
  modelled, their numbers are not. Plots and training logs are left out.
* Rule E of the quality control and the matching of neighbours' totals; station positions, daily extremes, correlations
  and persistence in `eda_patterns.py`; hashes and row counts in the archive audit; `verify_raw_data.py`.
* The vendored chess library, and the copies of earlier versions kept under `results/` and
  `project3/experiments/multiposition/raw/`.

Simplifications inside modelled parts: a request is one step, so that replicas change between requests but not within
one; of the search statistics only nodes (and the cutoffs of the device) are kept, and no timings; read repair is done
for the replicas that answer; gossip is an answer of `settle_views` that may be wrong; nodes do not crash by themselves;
two runs at the same time are excluded, as the repository's README asks; rainfall amounts are small integers and
probabilities fractions.
