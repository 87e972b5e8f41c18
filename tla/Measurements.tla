----------------------------- MODULE Measurements -----------------------------
(***************************************************************************)
(* The chess measurements on one position: the batch jobs of               *)
(* project3/scripts/multiposition.py, which append a row per launch to     *)
(* their runs.jsonl, and summarize_multiposition.py, which groups the rows *)
(* of all jobs.                                                            *)
(*                                                                         *)
(* Of the cases a job measures three have a role of their own: the serial  *)
(* search, one rank with one worker ("task") and full nodes ("many").  A   *)
(* launch that ends well has found the right or a wrong score; one that    *)
(* fails, or is terminated at its time limit, may have printed one before. *)
(***************************************************************************)
EXTENDS Integers, Sequences, FiniteSets

CONSTANTS Explicit,           \* the depths that jobs are given as CHESS_DEPTH
          MaxJobs, MaxDepth, MaxMishaps     \* bounds

VARIABLES rows,               \* of every job's runs.jsonl
          job, phase,         \* the job that runs; "idle" between jobs
          depth, todo,        \* its depth, and its launches to come
          mishaps, requeued   \* bad launches, jobs cut off or run again by PBS

vars == <<rows, job, phase, depth, todo, mishaps, requeued>>

Trials == 1 .. 3

Launches(case) == [t \in Trials |-> [case |-> case, trial |-> t]]

Plan(p) == CASE p = "pilot"    -> << [case |-> "serial", trial |-> 0] >>
             [] p = "full"     -> Launches("serial") \o Launches("task")    \* on one rank
             [] p = "baseline" -> Launches("task")
             [] p = "scaling"  -> Launches("many")

Init == /\ rows = << >>
        /\ job = 0 /\ phase = "idle" /\ depth = 0 /\ todo = << >>
        /\ mishaps = 0 /\ requeued = {}

-----------------------------------------------------------------------------
(* The last success of a pilot: the depth of the jobs that name it, unless   *)
(* they are given one.                                                       *)
Selected == {rows[i].depth : i \in
                {k \in DOMAIN rows :
                    /\ rows[k].phase = "pilot" /\ rows[k].ok
                    /\ \A l \in DOMAIN rows :
                          rows[l].job = rows[k].job /\ rows[l].ok => l <= k}}

Submit ==
    /\ phase = "idle" /\ job < MaxJobs
    /\ job' = job + 1
    /\ \/ phase' = "pilot" /\ depth' = 1
       \/ phase' \in {"full", "baseline", "scaling"} /\ depth' \in Selected \cup Explicit
    /\ todo' = Plan(phase')
    /\ UNCHANGED <<rows, mishaps, requeued>>

(* What is left after a launch: a failure ends the trials of its case, of    *)
(* which 4 - trial are left.                                                 *)
After(ok) == IF ok THEN Tail(todo)
             ELSE SubSeq(todo, 1 + (4 - Head(todo).trial), Len(todo))

(* run(): mpirun under a time limit, terminated and then killed when it      *)
(* passes, and one row whatever became of it.  A pilot goes on to the next   *)
(* depth while its launches are good and take less than a second.            *)
Launch ==
    /\ todo # << >>
    /\ \E ok \in BOOLEAN, score \in {"right", "wrong", "none"} :
          /\ ok => score # "none"
          /\ mishaps' = mishaps + (IF ok /\ score = "right" THEN 0 ELSE 1)
          /\ mishaps' <= MaxMishaps
          /\ rows' = Append(rows,
                [job |-> job, phase |-> phase, case |-> Head(todo).case,
                 depth |-> depth, trial |-> Head(todo).trial,
                 ok |-> ok, score |-> score])
          /\ IF phase = "pilot"
               THEN \/ ok /\ depth < MaxDepth /\ depth' = depth + 1 /\ todo' = todo
                    \/ depth' = depth /\ todo' = << >>
               ELSE depth' = depth /\ todo' = After(ok)
    /\ UNCHANGED <<job, phase, requeued>>

(* The job ends, or PBS ends it at its wall time.                            *)
EndJob == /\ phase # "idle" /\ phase' = "idle" /\ todo' = << >>
          /\ mishaps' = mishaps + (IF todo = << >> THEN 0 ELSE 1)
          /\ mishaps' <= MaxMishaps
          /\ UNCHANGED <<rows, job, depth, requeued>>

(* PBS runs a job again from the start, in the same directory.               *)
Requeue == /\ phase # "idle"
           /\ mishaps < MaxMishaps /\ mishaps' = mishaps + 1
           /\ requeued' = requeued \cup {job}
           /\ todo' = Plan(phase)
           /\ depth' = IF phase = "pilot" THEN 1 ELSE depth
           /\ UNCHANGED <<rows, job, phase>>

Next == Submit \/ Launch \/ EndJob \/ Requeue

Spec == Init /\ [][Next]_vars

-----------------------------------------------------------------------------
(* summarize_multiposition.py.                                               *)
Formal == {i \in DOMAIN rows : rows[i].phase # "pilot" /\ rows[i].ok}

Key(i) == [depth |-> rows[i].depth, case |-> rows[i].case, job |-> rows[i].job]

Groups == {Key(i) : i \in Formal}

Group(k) == {i \in Formal : Key(i) = k}

ScoresOf(S) == {rows[i].score : i \in S}

Reference(d) == ScoresOf({i \in Formal : rows[i].case = "serial" /\ rows[i].depth = d})

TrialsOf(k) == {rows[i].trial : i \in Group(k)}

(* Mutant: a trial that was repeated counts once.                            *)
DistinctTrials(k) == Cardinality(TrialsOf(k)) = 3

ThreeTrials(k) == Cardinality(Group(k)) = 3 /\ Cardinality(TrialsOf(k)) = 3

Status(k) ==
    IF ~ThreeTrials(k) THEN "INCOMPLETE"
    ELSE IF /\ Cardinality(Reference(k.depth)) = 1
            /\ ScoresOf(Group(k)) = Reference(k.depth)
           THEN "PASS" ELSE "CHECK"

Passed == {k \in Groups : Status(k) = "PASS"}

(* The groups a row of strong_scaling.csv is made of: next() takes the first *)
(* of each kind, and the script dies when there is none.                     *)
Scaled(k) ==
    {k} \cup {s \in Passed : s.depth = k.depth /\ s.case \in {"serial", "task"}}

-----------------------------------------------------------------------------
(* PASS means three distinct successful launches by one job, which met no    *)
(* failure unless PBS ran it twice; and whatever is set in relation in       *)
(* strong_scaling.csv found one score, that of every serial search at that   *)
(* depth (RESULTS.md: "PASS requires three distinct measured trials agreeing *)
(* with the corresponding serial score").                                    *)
PassIsMeasured ==
    \A k \in Passed :
       /\ \A t \in Trials : Cardinality({i \in Group(k) : rows[i].trial = t}) = 1
       /\ k.job \notin requeued =>
             \A i \in DOMAIN rows : Key(i) = k => rows[i].ok
       /\ k.case = "many" =>
             \E score \in {"right", "wrong"} :
                /\ \A s \in Scaled(k) : ScoresOf(Group(s)) = {score}
                /\ \A i \in Formal :
                      rows[i].case = "serial" /\ rows[i].depth = k.depth =>
                          rows[i].score = score
=============================================================================
