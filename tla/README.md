# hangar-evals in TLA+

hangar-evals measures how well an agent drives the omd solver stack: a
*campaign* runs *cells* (a benchmark case under one harness/model *arm*), each a
few *seeds*; a seed is one agent run, graded by an oracle that reads what the
agent's runs left in a provenance database. This directory holds a TLA+ model of
that program, TLC instances of it, and proofs checked by TLAPS. Paths below are
relative to `src/hangar/evals/` unless they start with `README` or `examples`.

Checking it: `tlc -config <cfg> <module>` for the runs of `PROJECT.json`,
`tlapm CampaignProofs.tla` and the other `*Proofs` modules for the proofs.

## The system

| part | state | operations | talks to |
|---|---|---|---|
| `campaign.py` runner | plan, summaries, entries, halted; `table.md`, `manifest.json` | launch, preflight, skip / probe / run a cell, finish | `results_index`, `run_matrix`, `regrade`, `preflight` |
| `run.py` matrix | open records file, seeds done | open or append a file, run each seed, write its row | `run_cell`, results directory |
| `run.py` seed (`run_cell`) | workspace, data root, server, driver result | serve, drive, reference, read DB, grade, record | drivers, `omd_service`, `oracle`, `scoring`, `hangar_ref`, `trace` |
| results directory (`results_index.py`, `regrade.py`) | `.jsonl` files, `_config.json` manifests | load records, case status, summaries | read by the runner before every cell |
| `oracle.py`, `scoring.py` | none (pure over the DB) | select a run, effect values, verdict, basis, fidelity | provenance DB written by omd |
| `omd_service.py` | server process group | launch, poll, terminate, kill | omd (external) |
| `drivers/` | harness process, event stream | run with a wall-clock budget, parse | agent (external) |
| `hangar_ref.py` | memo, disk cache per SHA | reference for a module | the-hangar repository |
| `reselect.py` | rewrites records files | re-score stored seeds, a pass at a time | DBs, workspaces, `hangar_ref`, a campaign in the same directory |
| `have_bridge.py` | the `_MEMO` of its long-lived process | one matrix per job attempt, checks on its summary | `run_matrix`, `aggregate`, have-agent (external) |
| `trace.py` | none | tool metrics from the trace, provenance metrics from the DB | drivers, DB |
| `aggregate.py`, `report.py` | none | counts, pass@k and pass^k; rendering | records |
| `preflight.py`, `environment.py`, `validity.py`, `cases.py` | none | probes, captures, baselines, data | outside world |

What is hard here. Everything is kept in append-only files, so *crash and
restart* is the normal way to run a long campaign: what a partial file, a lost
seed or a torn line means is decided by one function, `case_status`. *Results
must not be re-sampled*, *lost seeds must be*. Two arms of a case share a file
name pattern, and names have one-second resolution. A seed has four actors, the
runner, the agent, the omd server and its solve worker, that end in any order;
the server may sit in C code deaf to signals; the DB is read by several queries
while a survivor may still write. `PROJECT.json` lists each of these hazards at
its line, with the properties that cover it.

What makes each part correct:

- records: seeds form a prefix; one arm per file; a graded row is permanent;
  "graded" means every wanted seed has a result;
- campaign: exit 0 accounts for the whole plan; what the table shows is on disk;
  a seed with a result is not run again; relaunching finishes the measurement;
- seed: a pass is earned by a completed run; the named run is what is graded;
  work done by then gives way only to later work, and no exit status throws it away;
  every started seed gets a record;
- service: gone before grading starts, and silent from then on if its group could be
  signalled;
- drivers: whenever the stream ends, the record has what was heard of it, and the
  two Claude drivers make the same of it;
- reference cache: a process is told one reference for its life; a file holds what
  the commit in its name computes;
- job bridge: a done job is N graded seeds against one reference, and no attempt
  touches another's file;
- re-scoring: a verdict moves only for a cause, a second pass finds nothing to do,
  and a grade outlives the workspace and the DB it was made from.

## Modules

| module | models | correspondence |
|---|---|---|
| `RecordStore` | results directory, `case_status`, `load_records`, `regrade_file` | `rows[f][m][s]` is the last row of a seed in a file; `torn` are the files ending in a partial line; `manifest` are those with a `_config.json` |
| `Campaign` (extends `RecordStore`) | `run_campaign`, `_run_one_case`, the loop of `run_matrix` | `pc` is the place in the runner; `idx` the case loop, `file`/`todo` the seed loop, `table`/`entries` the two live files, `last`/`sameSecond` the clock that names files |
| `SeedLedger` | abstract: what the directory promises someone who reads verdicts only | refined by `Campaign` through `Verdict`, i.e. through `case_status`'s choice of file |
| `Oracle` | `read_effect_runs` (as classes), `select_run`, `effect_values`, `score_values`, `selection_basis`, `report_matches_effects` | pure operators; a value is right, wrong or none against its reference |
| `OmdService` | `OmdHttpService` and the processes it starts | `svc` is the runner's side, `server` and `worker` the processes |
| `SeedRun` (extends both) | `run_cell` with the three drivers | `pc` is the place in `run_cell`; `runs` the rows in `analysis.db`, appearing one by one; `acts`, `asmts` what earlier queries saw |
| `AgentStream` | what `claude_sdk`, `claude_cli` and `opencode` make of an event stream that ends at any point; `extract_report`; `parse_tool_trace`, `read_provenance` | `wire` is what the agent's side wrote, `heard` how much of it the driver got; `state` is `_StreamState`; `result` the `AgentResult` |
| `ReferenceSeam` | abstract: what `lane_a_reference` promises a process | refined by `RefCache` (`call` is where `pc` is, coarsely), extended by `JobBridge` |
| `RefCache` | `_repo_state`, `lane_a_reference` | `pc[p]` is the place in the call, `path`, `ref` its locals, `memo[p]` the `_MEMO` entry, `cache[c]` the file keyed by `c`, `head`/`code` the checkout |
| `JobBridge` (extends `ReferenceSeam`) | `LaneCEvalExecutor`, `LaneCEvalCheckSuite`, the loop of `run_matrix` inside a worker, `aggregate_cell` | `at[w]`, `seed[w]` are where a worker is; `records[f]`, `summary[f]` the files of an attempt; `status`, `attempt`, `check` have-agent's view |
| `Reselect` (extends `Oracle`) | `reselect_record`, `reselect_file`, `campaign_records`, `main` | `files[f]` is the rows of a file in order, `newest` the file modified last, `outs` the outcomes of the file in hand, `memo` the reference the pass was told |
| `CampaignProofs`, `LedgerProofs`, `RefCacheProofs`, `JobBridgeProofs`, `SeedRunProofs`, `ReselectProofs`, `AgentStreamProofs` | theorems about the module each is named after; `LedgerProofs`: `Campaign` implements `SeedLedger` | |
| `NaturalLemmas` | least and greatest elements, induction on sets of naturals | used by the proof modules |
| `MC_Campaign`, `MC_SeedRun`, `MC_RefCache`, `MC_JobBridge`, `MC_AgentStream`, `MC_Reselect` | instances | |

Operators introduced with "Fault:" are plausible bugs; none is used by a
specification. Replacing the operator they stand in for must break the property
`PROJECT.json` pairs them with, which shows that the property has teeth.

Abstractions. A case, model or metric is a model value. A record is its verdict.
A graded seed takes more than a second of wall clock (an agent ran), an error
row may take less: this is what `sameSecond` tracks. One runner works on a
directory at a time. Every shipped manifest gives a cell exactly one harness, so
a file's records are of one arm and `case_status` needs one cell per file. The
hangar steps of a composite are left out: their result is not read. The order of
the rows omd writes for a run is not assumed. A stdio server is not torn down by
the runner; when `run_process` kills an opencode harness it goes with it. A driver may
raise at any moment, whatever has been run by then: on output that does not decode
(either `communicate` of `proc.py`), on an event line that is JSON and no object, on a file
it cannot write. `outcome` tells "cut", such a raise after the budget, from "raise". In
`AgentStream` a text is its place in the stream and the sequence of fenced blocks it holds: a
report that parses, one that does not, one whose brace or fence is never closed;
opencode's texts, which the driver joins, are a sequence of places. There a driver
raises on a cut character only (`CutCharacter`) and on an abnormal exit. The
envelope codes are a constant. That omd answers a failed activity with an envelope, marked
as an error by the harness or not, and a rejected call with `USER_INPUT_ERROR`, is the
comments' account of it (`trace.py:52`, `opencode.py:85-88`). In `RefCache` one (example, module) pair
stands for all, which share nothing but the checkout; the reference is the content
of the working tree that computes it. In `JobBridge` the call to the reference is
the abstract `ReferenceSeam`: that the real one implements it is checked and
proved in `RefCache`, so the two together are the composition. Jobs are assumed to have ids that differ in their last eight alphanumerics, which
is what their files are named by. The second a stamp starts
with is left out there, which makes collisions more likely than they are. In `Reselect`
a value is the reference it fits, "off" or "nan", because the question is what
happens when the reference moves; a case has one metric.

## Runs

| run | instance | checks |
|---|---|---|
| `safety` | 1 case, 2 arms, the composite or one arm alone, 2 seeds, one trouble of any of 5 kinds (crash, torn write, failed write, interrupt, lost manifest), 1 forced campaign | `TypeOK`, `SeedsFormPrefix`, `OneArmPerFile`, `GradedMeansComplete`, `ZeroExitAccountsForPlan`, `TabulatedResultsOnDisk`, `RecordsInv`, `GradedRowsPermanent`, `NoResampling` |
| `live` | 1 cell, 1 or 2 seeds wanted, two troubles, 1 forced campaign | `EventuallyGraded`; `Campaign` implements `SeedLedger` |
| `seed` | sandboxed CLI seed, 2 metrics of 2 modes, 2 omd runs, each right or wrong | `TypeOK`, `PassIsEarned`, `NamedRunIsGraded`, `GradedRunIsRecent`, `HarnessErrorsLoseNothing`, `VerdictReproducible`, `ServerNeverLeaks` |
| `seed_ends` | all five driver/transport pairs, 1 omd run | `SeedEnds` |
| `lost_work`, `bad_report` | small instances of `SeedRun` | violate `WorkIsGraded`, `CleanExitIsAResult` |
| `stream` | three drivers, streams of at most 4 events over 2 tools, 2 envelope codes and texts with a report, a broken-off one, or one and a malformed correction; at most 2 events not consumed yet | `TypeOK`, `MirrorsTheSdk`, `CallsAreAnswers`, `NeverASupersededReport`, `TokensAreReported`, `MetricsFit` |
| `refs` | 2 processes with and without a cache directory, 2 commits, one dirty state, 2 moves | `RefTypeOK`, `SteadyWritesAreRight`; `RefCache` implements `ReferenceSeam` |
| `stale_ref` | 1 process, 1 move | violates `CacheIsOfItsCommit` |
| `jobs` | 2 workers, 3 jobs (two attempts, one attempt, malformed) of 2 seeds, one trouble, a reference of two | `TypeOK`, `OneYardstick`, `DoneIsMeasured`, `LevelsAsDocumented`, `CurvesCountDraws`, `RowsStay`, `EveryJobSettles` |
| `rescore` | 2 files of 3 seeds, 6 kinds of work, 2 passes over any scope, dry or not, 2 events around them | `TypeOK`, `ReportingFitsTheGrade`, `VerdictsMoveForCause`, `SecondPassChangesNothing`, `GradesOutliveTheirSources` |
| `scope` | the same files, 1 pass, nothing around it | violates `CampaignScope` |

The violated properties each quote a sentence of the README, a docstring or a
comment that the code does not keep; the findings in `PROJECT.json` say what
happens instead. In short: opencode's abnormal exit discards completed runs; a
report whose `metrics` is not an object turns a finished seed into a retryable
error; a reference computed before the checkout moved is stored under the new
commit's SHA; a re-score of one arm redirects the next campaign-scoped one.

Other disagreements met while modelling, which the models show but no run is spent
on. A torn last line hides a whole file, so graded seeds are run again, where README
says a graded FAIL "stays put": `NoResampling` is the form that holds, unless the
file was damaged. `--force` resumes a partial cell instead of re-running it. A named run
that cannot be graded falls back to another (`NamedRunIsGraded` is stated for one that
can). A server that died by itself, or whose group cannot be signalled, leaves its worker
running (`VerdictReproducible` is stated from the signal on). A server that exits during
startup is not torn down. A call still open when the run ends is not in the
trace, though `trace.py:5` says "every MCP call the agent attempted"
(`CallsAreAnswers` says which are). An error envelope the harness did not mark as an
error counts as a valid call in the Claude arms (`claude_sdk.py:127`) and as an error in
opencode's, where "the envelope, not the status, is the source of truth"
(`opencode.py:87-88`), and the DB then has failed activities the trace knows nothing of
(`Overlooked` counts them); only the Claude arms ever report a hallucinated tool.
`run.py:396` says "a timed-out seed still produces a full, effect-graded record", and
`drivers/base.py:102-107` that an abnormal exit is graded from the DB: output cut inside a
multi-byte character raises at `proc.py:61` after the kill, or at `proc.py:54` after an exit,
as does a failed write at `claude_cli.py:183`, and the seed is an error row in every
such case, completed runs or not, in the container too (`DriverTimesOut`, `DriverExits`,
`CutCharacter`). Python's `communicate` does raise there, with `text=True`, when a process
that was killed had written half a character. So nothing is claimed of a driver that raises;
`HarnessErrorsLoseNothing` is about the errors that are made from an exit status.
`oracle.py:159` takes any OperationalError for "nothing was run", a locked or damaged DB
as well (`unread`; the verdict properties are stated for one that could be read).
`scoring.py:58` promises "the last parseable fenced-JSON object": an unfinished block
takes the parseable one after it along, and a correction that does not parse leaves the
report it was to replace in force (`NeverASupersededReport` says what is graded then).
`reselect.py:23-24` says a seed whose workspace is gone "cannot be re-scored and is left
exactly as it was"; it is re-scored with the stored run id, stamped, rewritten, and its
verdict follows the reference. What is left as it was is a seed without its DB
(`GradesOutliveTheirSources`).
`examples/lane_c_pub_anchor.yaml:12-13` says the worker "resumes on the missing seeds
only"; every attempt starts over (`Claim`).

Bounds. Two seeds tell a prefix from a gap and a resume from a start. Two arms
of one case are the smallest plan in which files can be confused. One trouble of
any kind at any step, with any number of relaunches, covers a crash or torn write
and its recovery; `live` allows two, so that a recovery can itself be cut
short. `MaxStamp` is chosen so that no reachable launch runs out of stamps (TLC
reports no deadlock). Two omd runs are the fewest with which a run can be the
named one and not the last, or the earlier of two without a name; one run is enough for a
seed to hang. `MaxForced`
bounds how many fresh files a cell can accumulate. `Graded` is one verdict, since
pass and fail are treated alike.

Four events are enough for two overlapping calls and both their answers, for a
failure, its repeat and a success, and for a report, a correction and a result. The three
texts are a report, an unfinished one, which swallows a report in the next text, and a
report followed by a correction that does not parse; two codes are a rejection and a
failure. A lag of two lets a cancelled SDK stream lose a call and its answer at once. Two moves take the
checkout to another commit and back, or through a dirty state, inside one call; two
processes are the fewest that write one file at once. Two workers and a job with two
attempts let one worker grade the second attempt while the other still
holds a different reference; one trouble loses any seed, call, write or worker at any
point. The third job is the payload that fails for good. Two passes are what idempotence
is about; two events let a pass die between a move and a loss, or a campaign append in
the middle. The six kinds of work are one for each path of `reselect_record`: a sweep
after the named run in either era, a named run that failed, a value that fits the other
reference, a NaN, nothing that succeeded.

Fairness. `Campaign!FairSpec` assumes an operator who keeps launching each
manifest, a runner that keeps running, and trouble that passes: preflight,
resuming, starting and grading a seed are strongly fair, since they may be
disabled by a halt or crash again and again and still come back. Without it the
documented advice ("re-run the same command") promises nothing. The bound on
faults is what makes them end. `SeedRun!FairSpec` assumes only that the runner
steps and that the wall-clock budget is enforced, as every driver does (`run_process`
on `communicate(timeout)`, the SDK on `wait_for`); the agent, omd, the server's
reaction to SIGTERM and the solve get no fairness at all. `JobBridge!Fairness` says that a
worker goes on, that one that is down is started again (`Boot`), that a queued job is offered
as long as some worker is free (`Claim`) and a done one is checked: that is have-agent's part. Troubles
are bounded by `MaxTroubles` and attempts by `Budget`, which the study sets. The other models state no fairness.

## Proofs

`CampaignProofs` proves, for all cases, arms, plans, fault sets and bounds, from
the assumptions `RecordStore` and `Campaign` name (bounds positive, at least one
case, "error" and "none" are not results, plans over cells, wanted counts within
the bound):

- `Typing`: `Spec => []TypeOK`;
- `SeedsAreAPrefix`, `ArmsNeverShareAFile`, `VerdictsArePermanent`,
  `GradedIsComplete`, `TableIsBackedByRecords`;
- `ResumesAreHonest`: `NoResampling`;
- `ZeroExitsAreAccountedFor`: `ZeroExitAccountsForPlan`, given `AccountablePlans`.

The inductive invariant is `TypeInv /\ RecordsInv`. That seeds form a prefix and
that files hold one arm are not inductive alone: they depend on the run in
progress. `Placed` says that the open file is the current cell's, that it
has no row of another arm, that below a seed still to be run every seed either
has a row or is still to be run itself, and that no seed to be run has a result; `ClockInv` says that stamps not given out name no rows and that a
stamp that may be given out twice names no result, which is why truncating on open
destroys nothing. `TypeInv` adds to the types that the runner inside a case is at
a cell of its plan. Permanence is an action property of any state satisfying the
invariant. `GradedIsComplete` rests on a counting lemma: a prefix of seeds with
at least w members contains every seed below w. `TabulatedResultsOnDisk` is
carried along permanence. TLC checks `RecordsInv` in the `safety` run.
`ResumesAreHonest` needs more, because it compares the file being written with others:
`DamageInv` says that without `--force` the open file is the newest with rows of
its cell, or the newest is damaged, and that a stamp that may be given out twice
names files whose manifest is still there, so a file opened again cannot pass for a
damaged one.

`ZeroExitsAreAccountedFor` has a hypothesis, `AccountablePlans`: no campaign is forced, or
every plan names a cell once. Without it the property is false: a forced plan that names
a cell twice starts it over after it was called graded, and may lose it then. The plans of the
`safety` run satisfy it. Its invariant `EntriesInv` counts the entries against the
case loop and says that a cell called done is graded now, and is not the cell in hand. That
"graded" stays true is the work: a seed of another cell goes to another file or another arm
(`RunLeavesOthers`), a fresh file takes over no name under which a result was kept
(`StartLeavesGraded`), and a torn line is in the file of the cell in hand (`TearLeavesGraded`).
`CompleteIfGraded` turns "graded" into a result for every wanted seed.

`LedgerProofs` proves `CampaignKeepsALedger`: `Campaign` implements `SeedLedger`, under
crashes, interrupts, failed writes and forced campaigns. Two hypotheses are part
of the statement, both needed. `Undamaged`: no line is torn and no manifest lost, since
either hides a whole file from `case_status` and the ledger seems to start over.
`LedgerPlans`: a plan names a case once. The second arm of a case that starts
within the second of the first reopens, and truncates, a file of error rows; no
result is lost by that (`VerdictsArePermanent` holds without the hypothesis), but the
lost rows of the first arm leave the ledger. The `live` run satisfies both hypotheses.
`LedgerInv` says that the open file is the newest of its cell and the first one unless
forced, and that rows under a stamp that may be given out twice are of cases the
campaign is done with.

`RefCacheProofs` proves, for any processes, commits, dirty states and number of
moves, from `RefCache`'s assumptions (the marks "absent", "torn" and "none" are no
codes):

- `RefCacheTypes`: `RefSpec => []RefTypeOK`;
- `SteadyWritesStayRight`: a process that saw no move never stores a reference under
  a commit that does not compute it;
- `ReturnsTheMemo`: what a call returns is the memo entry of its process;
- `CacheImplementsSeam`: `RefCache` implements `ReferenceSeam`, initial states and
  every step.

The inductive invariant says where a call's locals have a value, and what a steady
process may rely on: its key names the HEAD there is, and a reference it holds is
either what the checkout computes or was read from a file that is there. A process
that writes found no such file, so it writes what the checkout computes, under its
name. Neither half is inductive without the other; and a process that was started
before a move is not covered, because its memo is older than its key.

`JobBridgeProofs` proves, for any workers, jobs, seeds, acceptance criteria, attempts
and troubles, from `JobBridge`'s assumptions (job ids differ in the suffix their files
are named by, "none" is no job, the bounds are numbers):

- `BridgeTyping`, `CellsHaveOneYardstick`, `DoneJobsAreMeasured`, `RowsAreNeverLost`:
  `TypeOK`, `OneYardstick`, `DoneIsMeasured`, `RowsStay`;
- `ChecksSayWhatTheyMean`: `LevelsAsDocumented`, for every number of seeds and passes;
- `CurvesAreShares`: `CurvesCountDraws`, for every number of seeds and passes.

Its inductive invariant `JobInv` adds that a running job has one live worker and a queued
one an attempt left, that the files of attempts not handed out are empty, and that the file
in hand has a row for exactly the seeds before the current one, graded
against what its worker was told. The empty files are the point: opening a file truncates
it, and only a name that no other attempt shares makes that harmless. Since the seam the
bridge calls is `ReferenceSeam`, these theorems and `CacheImplementsSeam` together
are about the bridge on top of the real cache.

`CurvesAreShares` has a half about state and a half about numbers. `CurvesInv`: a summary that
was written is still that of the rows beside it, and there is none before the last seed. The other
half is that n!/(k!(n-k)!), which `aggregate.py` gets from `math.comb`, counts the k-subsets
of n seeds: that the factorial function exists and steps as defined (`FactorialExists`, `FactorialStep`),
that a draw with or without one more seed is a draw from the rest (`DrawsStep`), and from
these by induction that the division is exact and the quotient is the count (`DrawsCounted`,
`ChooseCounts`). Draws with a passing seed are then all draws but those from the failing ones.

`SeedRunProofs` proves, for any metrics, modes ("none" is not one), setups, values,
reports and number of omd runs:

- `SeedTyping`: `Spec => []TypeOK`;
- `PassesAreEarned`, `NamedRunsAreGraded`, `LaterWorkIsNeverPassedOver`
  (`GradedRunIsRecent`), `HarnessErrorsHadNoWork` (`HarnessErrorsLoseNothing`),
  `VerdictsAreReproducible`, `ServersNeverLeak`: every other invariant of the `seed` run.

The inductive invariant `SeedInv` says how far the server is at each place of the runner
(`ServerInv`), that rows are written only by a run the agent began (`RowsInv`), that the
runs there were when the driver ended have only grown since (`LeftInv`, with `Grown` as
the order on a run's rows), and what the two queries saw: nothing that is not there,
everything that was there when the driver ended, and everything there will
ever be if the group was signalled, the activities only if the DB could be read (`ReadInv`). That last part holds because a worker that
got SIGTERM runs no more Python, so no row is written between the queries. The oracle enters
through `SelectedRun`: what `select_run` returns succeeded in the mode, and is the named
run if that one did, or else the latest. `LaterWorkIsNeverPassedOver` needs both halves of a
run: one that was whole when the driver ended is a candidate (`LeftIsCandidate`), so
the selected one is not before it, though its recorder rows may come too late to be read.

`ReselectProofs` proves, for any files, seeds, references, any work of a seed and any number
of passes and events, from `Reselect`'s assumptions (the files are finitely many, a seed has
its rows in one file, "none" is no reference):

- `RescoreTyping`, `FidelityFollowsTheGrade`: `TypeOK`, `ReportingFitsTheGrade`;
- `LostSourcesKeepTheGrade`, `VerdictsFollowTheReference`, `RescoringIsIdempotent`:
  `GradesOutliveTheirSources`, `VerdictsMoveForCause`, `SecondPassChangesNothing`.

The inductive invariant `RescoreInv` says that a row is what grading its seed gives with the
run id and the reference in the row (`RowsInv`), that the outcomes in hand are so too
and belong, until the file is truncated, to its rows (`HandInv`; a campaign may append to
the truncated file, and its row is written over), and that
a settled file has nothing left to change (`SettledInv`): its graded rows are of the present
reference, and where the run id is still to be had from the report, the report gives the same
grade (`ReportAgrees`). Two facts carry it. Which run is selected does not depend on the
reference, so a row moved to another reference keeps its run. And losing a workspace only
makes the fallback the answer that was stored already: that is also why a grade
outlives its workspace, since `RowsInv` ties the stored value to the stored run id. Seeds of different files must
differ: a database that appears again with a retry makes rows of its seed gradable, and a
settled file with such a row would be unsettled by a campaign on another.

The proof corrected the model. A pass that left a file unwritten used to settle it; with three
events (a move of the reference, a retry appended after the file was read, the move back)
the second pass then finds a row of the other reference. The two events of the `rescore`
run could not show it. `Leave` now settles a file only if no row was appended since it was read.

`AgentStreamProofs` proves, for any tools, streams of any length and any lag, from
`AgentStream`'s assumptions (tools that validate do not execute, "<unknown>" is no tool, the
canonical usage is not zero, no envelope code is one of trace.py's own), for any envelope
codes and any texts, every invariant of the `stream` run:

- `StreamTyping`: `TypeOK`;
- `SdkIsMirrored`, `CallsAreTraced`, `LastReportCounts`, `TokensAreCounted`: `MirrorsTheSdk`,
  `CallsAreAnswers`, `NeverASupersededReport`, `TokensAreReported`;
- `MetricsTellTheTruth`: `MetricsFit`.

The inductive invariant `StreamInv` has four parts. `WireInv` is what a stream can be: uses
are numbered in order, an id is answered at most once, the result is last. `PlaceInv` says
how far each driver can be. `StateInv` says that the SDK driver holds what the parser would
make of the events heard so far, and `ResultInv` that a result is made of a beginning
of the stream. What a parser makes of a beginning is proved one line at a time (`LineFits`,
`EventFits`): the text is the last thing said, or all of it in order, the trace has an entry
for each answer at its rank, a name is pending for every call opened. That is induction on the
number of lines, through `NaturalLemmas!Induction`, so the parsers are recursive
functions and not folds. `MetricsFit` needs counting: failures by code, the activities that end
failures one row at a time, and an injection from failed activities to the answers that closed
them, each of which is an unclassified error of the trace or was overlooked
(`FailureIsAnswered`, `FailuresAreTraced`). `LastReportCounts` rests on a last block existing
(`LastBlock`), on `ExtractReport` choosing it among those that parse (`Extracted`), and on
what text each driver keeps (`TextKept`): nothing heard after a kept text is missing from it.

The attempt found `TokensAreReported` stated with two cases that overlap when a canonical usage
and others are heard; TLC picks the first, the logic does not. It is an IF now.

Every invariant and action property of a passing run is now stated by a theorem, and both
refinements are. Only model-checked are the three liveness properties, `EventuallyGraded`, `SeedEnds` and
`EveryJobSettles`: fairness and ENABLED are out of the prover's reach. So are the runs that
expect a violation, which only need their counterexample. TLC also shows what no proof does,
that the interesting states are reached. The model declares no RECURSIVE operator, which the
provers cannot use; recursion is over functions, and induction over sets of naturals
(`NaturalLemmas`).

## Not modelled, and the plan

Left to do, in this order:

1. Several harnesses per cell in `RecordStore` (`expected <= ...`), and the
   stand-alone command line of `run.py` (`--resume`, `--keep-errors`).
2. A runner that is interrupted while a seed is driven, in `SeedRun`.

Left out for good: `cases.py`, `environment.py`, `validity.py`, `report.py`,
`drivers/sandbox.py` and the paper tables, which are data, I/O or layout; the
floating-point comparison in `score_values`, abstracted to its outcome.
Concurrent campaigns in one directory are a known hazard that the code does
nothing about (no lock): the model has one runner.
