------------------------------- MODULE JobBridge -------------------------------
(***************************************************************************)
(* The have-agent bridge: each ANALYSIS job is one eval cell, run for N    *)
(* seeds by LaneCEvalExecutor.execute in a pull worker; a CHECK folds the  *)
(* summary it wrote into a level.  Workers are long-lived processes, so    *)
(* every seed of every job they take asks the reference seam as one and    *)
(* the same process (ReferenceSeam, which RefCache implements).            *)
(*                                                                         *)
(* have-agent itself is not in the repository: it hands a queued job to    *)
(* one worker, counts the attempt, queues a job that failed or lost its    *)
(* worker again while its retry budget lasts, and runs CHECK after a       *)
(* successful ANALYSIS.                                                    *)
(***************************************************************************)
EXTENDS ReferenceSeam, Integers, FiniteSets, FiniteSetsExt, Combinatorics

CONSTANTS
    Jobs,           \* the ANALYSIS jobs of a study
    Suffix,         \* Suffix[j]: the last eight alphanumerics of the job's id
    Malformed,      \* jobs whose overrides no RunConfig accepts
    Budget,         \* Budget[j]: the attempts have-agent gives a job
    N,              \* seeds per cell
    Grades,         \* Grades[j]: what a seed of j may be graded: "pass",
                    \* "fail", or "norun" if no run of the agent succeeded
    MinPct,         \* MinPct[j]: the job's min_pass_rate in percent
    MaxTroubles     \* bound: seeds lost, failed writes and crashes altogether

ASSUME JobsAssumption ==
    Malformed \subseteq Jobs /\ "none" \notin Jobs /\ Budget \in [Jobs -> Nat \ {0}]
ASSUME SuffixAssumption == \A i, j \in Jobs : Suffix[i] = Suffix[j] => i = j
ASSUME SeedsAssumption == N \in Nat \ {0} /\ MaxTroubles \in Nat
ASSUME GradesAssumption == Grades \in [Jobs -> SUBSET {"pass", "fail", "norun"}]

JobSeeds == 0 .. N - 1

(* A row: what was graded, and the reference it was graded against. *)
Results   == {"pass", "fail", "norun"}
NoRow     == <<"none", "none">>
ErrorRow  == <<"error", "none">>
JobRow    == (Results \X Codes) \cup {NoRow, ErrorRow}
IsGraded(row) == row[1] \in Results

Names == UNION {{Suffix[j]} \X (1 .. Budget[j]) : j \in Jobs}

VARIABLES
    status,     \* status[j], as have-agent sees it
    attempt,    \* attempt[j]: attempts handed out
    at,         \* at[w]: the job worker w executes
    seed,       \* seed[w]: the next seed; N: summarise; N + 1: report
    records,    \* records[f][s]: the row of seed s in the file named f
    summary,    \* summary[f]: the _summary.json beside it
    check,      \* check[j]: the level of its CHECK
    troubles    \* troubles so far

jobVars == <<status, attempt, at, seed, records, summary, check, troubles>>
vars    == <<seamVars, jobVars>>

NoSummary == <<>>

Statuses == {"queued", "running", "done", "failed", "permanent"}

-----------------------------------------------------------------------------
(* aggregate_cell                                                           *)

CountOf(rs, S) == Cardinality({s \in JobSeeds : rs[s][1] \in S})

(* Fault: all k drawn runs, drawn with replacement. *)
PassPowKReplaced(n, c, k) == <<c ^ k, n ^ k>>

(* The ratios as pairs: at least one of k drawn runs passes; all k do. *)
PassAtK(n, c, k) ==
    <<choose(n, k) - (IF k > n - c THEN 0 ELSE choose(n - c, k)), choose(n, k)>>
PassPowK(n, c, k) ==
    <<(IF k > c THEN 0 ELSE choose(c, k)), choose(n, k)>>

Aggregate(rs) ==
    LET c == CountOf(rs, {"pass"})
    IN [completed |-> CountOf(rs, {"pass", "fail"}),
        passed    |-> c,
        at_k      |-> [k \in 1 .. N |-> PassAtK(N, c, k)],
        pow_k     |-> [k \in 1 .. N |-> PassPowK(N, c, k)]]

-----------------------------------------------------------------------------
(* The worker.                                                             *)

(* Fault: the attempt is not part of the stamp. *)
JobStamp(j, a) == <<Suffix[j], 1>>

(* The stamp of an attempt.  The second it starts with is left out: two    *)
(* attempts can start within one, and only suffix and attempt tell files   *)
(* of one case apart then.                                                 *)
Stamp(j, a) == <<Suffix[j], a>>

File(w) == Stamp(at[w], attempt[at[w]])

(* Fault: the budget is not looked at. *)
AlwaysQueued(j) == "queued"

Requeued(j) == IF attempt[j] < Budget[j] THEN "queued" ELSE "failed"

Trouble == troubles < MaxTroubles /\ troubles' = troubles + 1

Unclaimed == at' = at /\ seed' = seed

(* A free worker takes a queued job.  A payload _config_impl refuses fails *)
(* for good; otherwise run_matrix opens the attempt's file with "w".       *)
Claim(w, j) ==
    /\ call[w] = "idle" /\ at[w] = "none" /\ status[j] = "queued"
    /\ attempt' = [attempt EXCEPT ![j] = @ + 1]
    /\ IF j \in Malformed
       THEN /\ status' = [status EXCEPT ![j] = "permanent"]
            /\ Unclaimed
            /\ UNCHANGED records
       ELSE /\ status' = [status EXCEPT ![j] = "running"]
            /\ at' = [at EXCEPT ![w] = j]
            /\ seed' = [seed EXCEPT ![w] = 0]
            /\ records' = [records EXCEPT ![Stamp(j, attempt[j] + 1)] =
                                [s \in JobSeeds |-> NoRow]]
    /\ UNCHANGED <<seamVars, summary, check, troubles>>

AtSeed(w) == at[w] # "none" /\ call[w] = "idle" /\ seed[w] < N

WriteRow(w, row) ==
    /\ records' = [records EXCEPT ![File(w)][seed[w]] = row]
    /\ seed' = [seed EXCEPT ![w] = @ + 1]
    /\ UNCHANGED <<status, attempt, at, summary, check>>

(* run_cell up to the agent's end, and on to compute_refs ... *)
Agent(w) ==
    /\ AtSeed(w)
    /\ Ask(w)
    /\ UNCHANGED jobVars

(* ... or no further: an error row. *)
Lost(w) ==
    /\ AtSeed(w) /\ Trouble
    /\ WriteRow(w, ErrorRow)
    /\ UNCHANGED seamVars

Reference(w) == (Learn(w) \/ Answer(w)) /\ UNCHANGED jobVars

NoReference(w) ==
    /\ AtSeed(w) \/ call[w] = "asked"
    /\ Fail(w) /\ Trouble
    /\ UNCHANGED <<status, attempt, at, seed, records, summary, check>>

(* The seed is graded against the reference, or lost for want of one. *)
Grade(w) ==
    /\ \/ call[w] = "returned" /\ \E v \in Grades[at[w]] : WriteRow(w, <<v, memo[w]>>)
       \/ call[w] = "raised" /\ WriteRow(w, ErrorRow)
    /\ Leave(w)
    /\ UNCHANGED troubles

Summarise(w) ==
    /\ at[w] # "none" /\ call[w] = "idle" /\ seed[w] = N
    /\ summary' = [summary EXCEPT ![File(w)] = Aggregate(records[File(w)])]
    /\ seed' = [seed EXCEPT ![w] = N + 1]
    /\ UNCHANGED <<seamVars, status, attempt, at, records, check, troubles>>

Release(w) == at' = [at EXCEPT ![w] = "none"] /\ seed' = [seed EXCEPT ![w] = 0]

ErrorRows(f) == {s \in JobSeeds : records[f][s] = ErrorRow}

(* Fault: the records are not read back for error rows. *)
ReportSummaryOnly(w) ==
    /\ at[w] # "none" /\ call[w] = "idle" /\ seed[w] = N + 1
    /\ status' = [status EXCEPT ![at[w]] = "done"]
    /\ Release(w)
    /\ UNCHANGED <<seamVars, attempt, records, summary, check, troubles>>

(* Fault: a cell with error rows is never reported. *)
ReportCleanOnly(w) ==
    /\ at[w] # "none" /\ call[w] = "idle" /\ seed[w] = N + 1
    /\ ErrorRows(File(w)) = {}
    /\ status' = [status EXCEPT ![at[w]] = "done"]
    /\ Release(w)
    /\ UNCHANGED <<seamVars, attempt, records, summary, check, troubles>>

(* Any error row makes the job a failure the substrate retries. *)
Report(w) ==
    /\ at[w] # "none" /\ call[w] = "idle" /\ seed[w] = N + 1
    /\ status' = [status EXCEPT ![at[w]] =
                    IF ErrorRows(File(w)) = {} THEN "done" ELSE Requeued(at[w])]
    /\ Release(w)
    /\ UNCHANGED <<seamVars, attempt, records, summary, check, troubles>>

(* run_matrix raises: a write failed. *)
Abort(w) ==
    /\ at[w] # "none" /\ call[w] = "idle" /\ Trouble
    /\ status' = [status EXCEPT ![at[w]] = Requeued(at[w])]
    /\ Release(w)
    /\ UNCHANGED <<seamVars, attempt, records, summary, check>>

(* Ctrl-C, or the machine goes down: have-agent queues the job again. *)
Crash(w) ==
    /\ at[w] # "none" /\ Trouble
    /\ Kill(w)
    /\ status' = [status EXCEPT ![at[w]] = Requeued(at[w])]
    /\ Release(w)
    /\ UNCHANGED <<attempt, records, summary, check>>

Boot(w) == Start(w) /\ UNCHANGED jobVars

-----------------------------------------------------------------------------
(* LaneCEvalCheckSuite.run                                                  *)

LevelOrder == [pass |-> 0, warn |-> 1, fail |-> 2]

CompletionLevel(s) == IF s.completed > 0 THEN "pass" ELSE "fail"
PassLevel(s, min)  == IF s.passed * 100 >= min * N THEN "pass"
                      ELSE IF s.passed > 0 THEN "warn" ELSE "fail"

(* Fault: the acceptance alone decides. *)
LevelOfPass(s, min) == PassLevel(s, min)

Level(s, min) ==
    CHOOSE l \in {CompletionLevel(s), PassLevel(s, min)} :
        \A m \in {CompletionLevel(s), PassLevel(s, min)} : LevelOrder[m] <= LevelOrder[l]

(* run_ref of a done job: the summary of its last attempt. *)
RunRef(j) == Stamp(j, attempt[j])

Check(j) ==
    /\ status[j] = "done" /\ check[j] = "none"
    /\ check' = [check EXCEPT ![j] =
            IF summary[RunRef(j)] = NoSummary THEN "error"
            ELSE Level(summary[RunRef(j)], MinPct[j])]
    /\ UNCHANGED <<seamVars, status, attempt, at, seed, records, summary, troubles>>

-----------------------------------------------------------------------------
Init ==
    /\ SeamInit
    /\ status = [j \in Jobs |-> "queued"]
    /\ attempt = [j \in Jobs |-> 0]
    /\ at = [w \in Procs |-> "none"]
    /\ seed = [w \in Procs |-> 0]
    /\ records = [f \in Names |-> [s \in JobSeeds |-> NoRow]]
    /\ summary = [f \in Names |-> NoSummary]
    /\ check = [j \in Jobs |-> "none"]
    /\ troubles = 0

Execute(w) ==
    \/ Agent(w) \/ Lost(w) \/ Reference(w) \/ NoReference(w) \/ Grade(w)
    \/ Summarise(w) \/ Report(w) \/ Abort(w)

Next ==
    \/ \E w \in Procs :
        \/ Boot(w) \/ Crash(w) \/ Execute(w)
        \/ \E j \in Jobs : Claim(w, j)
    \/ \E j \in Jobs : Check(j)

(* A worker that is up goes on; one that is down is started again; and     *)
(* have-agent keeps offering a queued job to whoever is free.              *)
Fairness ==
    /\ \A w \in Procs : WF_vars(Execute(w)) /\ WF_vars(Boot(w))
    /\ \A j \in Jobs : WF_vars(\E w \in Procs : Claim(w, j)) /\ WF_vars(Check(j))

Spec == Init /\ [][Next]_vars /\ Fairness

-----------------------------------------------------------------------------
(* Safety                                                                  *)

TypeOK ==
    /\ SeamTypeOK
    /\ status \in [Jobs -> Statuses]
    /\ attempt \in [Jobs -> Nat] /\ \A j \in Jobs : attempt[j] <= Budget[j]
    /\ at \in [Procs -> Jobs \cup {"none"}]
    /\ seed \in [Procs -> 0 .. N + 1]
    /\ records \in [Names -> [JobSeeds -> JobRow]]
    /\ troubles \in 0 .. MaxTroubles

(* The graded rows of one records file were graded against one reference,  *)
(* whatever the checkout did during the attempt: the pass rate of a cell   *)
(* never averages verdicts of two versions of Lane A (hangar_ref.py:22).   *)
OneYardstick ==
    \A f \in Names : \A s, t \in JobSeeds :
        IsGraded(records[f][s]) /\ IsGraded(records[f][t])
            => records[f][s][2] = records[f][t][2]

(* A job the study counts as done points at a summary that is there, is    *)
(* the aggregate of the rows beside it, and rests on N graded seeds: no    *)
(* seed the harness lost is averaged in as a failure (have_bridge.py:164). *)
DoneIsMeasured ==
    \A j \in Jobs : status[j] = "done" =>
        /\ \A s \in JobSeeds : IsGraded(records[RunRef(j)][s])
        /\ summary[RunRef(j)] = Aggregate(records[RunRef(j)])

(* The verdicts LaneCEvalCheckSuite documents (have_bridge.py:211-213),    *)
(* and no cell passes on an acceptance of 0 without one successful run.    *)
LevelsAsDocumented ==
    \A j \in Jobs : check[j] # "none" =>
        LET rs == records[RunRef(j)]
            ran == CountOf(rs, {"pass", "fail"})
            passed == CountOf(rs, {"pass"})
        IN check[j] =
             IF ran = 0 THEN "fail"
             ELSE IF passed * 100 >= MinPct[j] * N THEN "pass"
             ELSE IF passed > 0 THEN "warn" ELSE "fail"

(* pass@k and pass^k say what their docstrings say of drawing k of the     *)
(* cell's seeds without replacement: the share of the k-subsets with a     *)
(* passing seed, and of those where every seed passes.                     *)
CurvesCountDraws ==
    \A f \in Names : summary[f] # NoSummary =>
        LET passing == {s \in JobSeeds : records[f][s][1] = "pass"}
        IN \A k \in 1 .. N :
            LET draws == kSubset(k, JobSeeds)
                share(ratio, hits) == ratio[1] * Cardinality(draws) = hits * ratio[2]
            IN /\ share(summary[f].at_k[k], Cardinality({D \in draws : D \cap passing # {}}))
               /\ share(summary[f].pow_k[k], Cardinality({D \in draws : D \subseteq passing}))

-----------------------------------------------------------------------------
(* Steps and liveness                                                      *)

(* A row that was written stays as it is: no retry, no other job and no    *)
(* crash truncates or overwrites a file with results in it ("job suffix +  *)
(* attempt make concurrent cells collision-free", have_bridge.py:143-144). *)
RowsStay ==
    [][\A f \in Names, s \in JobSeeds :
        records[f][s] # NoRow => records'[f][s] = records[f][s]]_vars

(* Every job is settled: done and checked, failed with its budget spent,   *)
(* or refused for good, as long as workers are started again.              *)
EveryJobSettles ==
    \A j \in Jobs : <>[](\/ status[j] = "done" /\ check[j] # "none"
                         \/ status[j] = "failed" /\ attempt[j] = Budget[j]
                         \/ status[j] = "permanent")
=============================================================================
