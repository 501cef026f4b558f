------------------------------- MODULE SeedRun --------------------------------
(***************************************************************************)
(* run_cell: one seed from its prompt to its record.  The agent works      *)
(* through an omd server (OmdService), which writes the rows of each run   *)
(* into the seed's provenance DB one by one; the driver returns, times     *)
(* out, exits abnormally or raises; the server is torn down; the DB is     *)
(* read table by table and graded (Oracle).                                *)
(*                                                                         *)
(* Agent, model and omd are external: they do anything their interfaces    *)
(* allow.  Drivers: "cli" (claude in a container, HTTP only), "sdk",       *)
(* "opencode".                                                             *)
(***************************************************************************)
EXTENDS Oracle, OmdService, Sequences, FiniteSets

CONSTANTS
    Setups,     \* the <<driver, transport>> pairs of this instance
    Outcomes,   \* values a run may come to: a subset of [Metrics -> Values]
    Claims,     \* values a report may claim: likewise
    MaxRuns     \* bound: omd runs per seed

SetupKinds == {<<"cli", "http">>, <<"sdk", "http">>, <<"sdk", "stdio">>,
               <<"opencode", "http">>, <<"opencode", "stdio">>}

ASSUME SetupAssumption   == Setups \subseteq SetupKinds
ASSUME OutcomeAssumption == Outcomes \cup Claims \subseteq [Metrics -> Values]
ASSUME MaxRunsAssumption == MaxRuns \in Nat

VARIABLES
    pc,         \* "start", "agent", "closing", "refs", "acts", "asmts", "grade", "done"
    setup,      \* driver and transport
    db,         \* analysis.db: "absent", "bare" (no tables yet), "ready"
    runs,       \* the rows of each run, by start order
    outcome,    \* how the driver ended: "exit 0", "exit 1" or "timeout" was reported,
                \* "raise" raised, "cut" raised after the budget had run out
    report,     \* the agent's fenced-JSON report
    acts,       \* execute activities read: run id -> completed?
    asmts,      \* assessments read: run ids
    unread,     \* the DB was there and could not be read
    record,     \* the seed's record
    left        \* the runs as they were when the driver ended

vars == <<svcVars, pc, setup, db, runs, outcome, report, acts, asmts, unread, record, left>>

Driver == setup[1]
Http   == setup[2] = "http"

(* A report names a run or none, or an id that never was, and claims values.  *)
(* In a bad report "metrics" is not an object; no report at all is not parsed. *)
Claimed   == [parsed : {TRUE}, object : {TRUE}, run : 0 .. MaxRuns + 1, vals : Claims]
NoReport  == [parsed |-> FALSE, object |-> TRUE, run |-> NoRun, vals |-> [m \in Metrics |-> "none"]]
BadReport == [NoReport EXCEPT !.parsed = TRUE, !.object = FALSE]
Reports   == Claimed \cup {NoReport, BadReport}

NoRecord == [kind |-> "none"]
Error(why) == [kind |-> "error", why |-> why]

Init ==
    /\ ServiceInit
    /\ pc = "start" /\ setup \in Setups
    /\ db = "absent" /\ runs = <<>> /\ left = <<>>
    /\ outcome = "none" /\ report = NoReport
    /\ acts = <<>> /\ asmts = {} /\ unread = FALSE /\ record = NoRecord

-----------------------------------------------------------------------------
(* omd at work.                                                            *)

Current == Len(runs)
Rows    == runs[Current]

OpenDb ==
    /\ server = "up" /\ db # "ready"
    /\ db' = IF db = "absent" THEN "bare" ELSE "ready"
    /\ UNCHANGED <<svcVars, pc, setup, runs, outcome, report, acts, asmts, unread, record, left>>

(* The agent executes a plan: a worker starts solving.  The container of a CLI *)
(* whose output was cut is not killed, and its agent goes on.                  *)
BeginRun(mode, vals) ==
    /\ pc = "agent" \/ (pc = "closing" /\ outcome = "cut")
    /\ server = "up" /\ db = "ready" /\ worker = "none"
    /\ Len(runs) < MaxRuns
    /\ runs' = Append(runs, [mode |-> mode, vals |-> vals, act |-> "absent",
                             final |-> FALSE, assessed |-> FALSE])
    /\ worker' = "python"
    /\ UNCHANGED <<svc, server, pc, setup, db, outcome, report, acts, asmts, unread, record, left>>

Written(rows) == rows.act = "completed" /\ rows.final /\ rows.assessed

(* The rows of a successful run appear in no order the reader may rely on. *)
MoreRows == {[Rows EXCEPT !.act = "completed"], [Rows EXCEPT !.final = TRUE],
             [Rows EXCEPT !.assessed = TRUE]} \ {Rows}

WriteRow ==
    /\ worker = "python"
    /\ \E rows \in MoreRows :
          /\ runs' = [runs EXCEPT ![Current] = rows]
          /\ worker' = IF Written(rows) THEN "none" ELSE worker
    /\ UNCHANGED <<svc, server, pc, setup, db, outcome, report, acts, asmts, unread, record, left>>

RunFails ==
    /\ worker = "python" /\ Rows.act = "absent"
    /\ runs' = [runs EXCEPT ![Current].act = "failed"]
    /\ worker' = "none"
    /\ UNCHANGED <<svc, server, pc, setup, db, outcome, report, acts, asmts, unread, record, left>>

Process ==
    /\ Boots \/ ServerCrashes \/ ServerHears \/ EnterSolve \/ LeaveSolve
    /\ UNCHANGED <<pc, setup, db, runs, outcome, report, acts, asmts, unread, record, left>>

-----------------------------------------------------------------------------
(* The runner: server up, driver, server down.                             *)

others == <<setup, db, runs, outcome, report, acts, asmts, unread, record, left>>

StartServer ==
    /\ pc = "start"
    /\ IF Http THEN Launch /\ UNCHANGED pc ELSE SpawnStdio /\ pc' = "agent"
    /\ UNCHANGED others

ServerReady == Ready /\ pc = "start" /\ pc' = "agent" /\ UNCHANGED others

(* __enter__ raises: the seed is lost.  When it timed out the group is torn *)
(* down first, when the server crashed it is not.                           *)
ServerNeverReady ==
    /\ pc = "start"
    /\ StartupCrashes \/ StartupTimesOut
    /\ pc' = "closing" /\ outcome' = "raise"
    /\ UNCHANGED <<setup, db, runs, report, acts, asmts, unread, record, left>>

DriverEnds(how, said) ==
    /\ pc = "agent"
    /\ pc' = "closing" /\ outcome' = how /\ report' = said /\ left' = runs
    /\ UNCHANGED <<setup, db, runs, acts, asmts, unread, record>>

DriverReturns ==
    /\ \E said \in Reports : DriverEnds("exit 0", said)
    /\ UNCHANGED svcVars

(* The budget is spent: run_process kills the harness and its process group, *)
(* the omd child of a stdio harness included.  What it said until then stays, *)
(* unless it does not decode or cannot be kept, which raises.                 *)
DriverTimesOut ==
    /\ \/ \E said \in Reports : DriverEnds("timeout", said)
       \/ Driver # "sdk" /\ DriverEnds("cut", NoReport)
    /\ IF Driver = "opencode" /\ ~Http
       THEN server' = "dead" /\ worker' = "none" /\ UNCHANGED svc
       ELSE UNCHANGED svcVars

(* An abnormal exit is reported by the CLI driver and raised by the others.  *)
(* Any driver raises on output that does not decode or parse, or on a file   *)
(* that cannot be written, whatever was run by then.                         *)
DriverExits ==
    /\ \/ Driver = "cli" /\ \E said \in Reports : DriverEnds("exit 1", said)
       \/ DriverEnds("raise", NoReport)
    /\ UNCHANGED svcVars

CloseServer ==
    /\ pc = "closing" /\ Http
    /\ Teardown \/ TermSuffices \/ Kill
    /\ UNCHANGED <<pc, others>>

(* Fault: grading starts while the server is still being torn down. *)
ClosedAtOnce == TRUE

Closed == Http => svc \in {"closed", "abandoned"}

Leave ==
    /\ pc = "closing" /\ Closed
    /\ IF outcome \in {"raise", "cut"} THEN pc' = "done" /\ record' = Error("raise")
       ELSE pc' = "refs" /\ UNCHANGED record
    /\ UNCHANGED <<svcVars, setup, db, runs, outcome, report, acts, asmts, unread, left>>

-----------------------------------------------------------------------------
(* The runner: grading.                                                    *)

ComputeRefs ==
    /\ pc = "refs"
    /\ \/ pc' = "acts" /\ UNCHANGED record
       \/ pc' = "done" /\ record' = Error("refs")
    /\ UNCHANGED <<svcVars, setup, db, runs, outcome, report, acts, asmts, unread, left>>

(* A missing file or missing tables: nothing was run.  A DB that is locked or *)
(* cannot be read, at any of the queries, is taken for the same.              *)
ReadActivities ==
    /\ pc = "acts"
    /\ \/ /\ acts' = [r \in {i \in DOMAIN runs : db = "ready" /\ runs[i].act # "absent"}
                          |-> runs[r].act = "completed"]
          /\ UNCHANGED unread
       \/ db = "ready" /\ acts' = <<>> /\ unread' = TRUE
    /\ pc' = "asmts"
    /\ UNCHANGED <<svcVars, setup, db, runs, outcome, report, asmts, record, left>>

ReadAssessments ==
    /\ pc = "asmts"
    /\ asmts' = {r \in DOMAIN runs : runs[r].assessed}
    /\ pc' = "grade"
    /\ UNCHANGED <<svcVars, setup, db, runs, outcome, report, acts, unread, record, left>>

Seen == [r \in DOMAIN acts |-> Effect(runs[r], acts[r], r \in asmts, runs[r].final)]

Graded(effects) ==
    [kind |-> "graded", passed |-> Passes(effects), effects |-> effects,
     completed |-> \E r \in DOMAIN Seen : Seen[r].ok,
     basis |-> SelectionBasis(Seen, report.run),
     matches |-> IF report.parsed THEN MatchesEffects(report.vals, effects) ELSE "undefined"]

(* Fault: an abnormal exit is an error whatever was done before it. *)
AnyExitIsHarnessError == outcome = "exit 1"

(* HarnessError: an abnormal exit and no successful run to grade. *)
NothingMeasured ==
    /\ outcome = "exit 1"
    /\ ~\E r \in DOMAIN Seen : Seen[r].ok

(* read_effect_runs' last queries, the two scorers (score_report raises on a  *)
(* bad report), the verdict, and read_provenance, which raises when the DB    *)
(* has no tables, or again when it could not be read before.                  *)
Grade ==
    /\ pc = "grade"
    /\ pc' = "done"
    /\ IF ~report.object THEN record' = Error("report")
       ELSE IF NothingMeasured THEN record' = Error("harness")
       ELSE \/ db # "bare" /\ record' = Graded(EffectValues(Seen, report.run))
            \/ (db = "bare" \/ unread) /\ record' = Error("provenance")
    /\ UNCHANGED <<svcVars, setup, db, runs, outcome, report, acts, asmts, unread, left>>

-----------------------------------------------------------------------------
Runner ==
    \/ StartServer \/ ServerReady \/ ServerNeverReady
    \/ CloseServer \/ Leave
    \/ ComputeRefs \/ ReadActivities \/ ReadAssessments \/ Grade

External ==
    \/ OpenDb \/ WriteRow \/ RunFails \/ Process
    \/ \E mode \in Modes, vals \in Outcomes : BeginRun(mode, vals)
    \/ DriverReturns \/ DriverExits

(* The seed is over; a process may outlive it. *)
Over == pc = "done" /\ UNCHANGED vars

Next == Runner \/ External \/ DriverTimesOut \/ Over

Spec == Init /\ [][Next]_vars

(* The runner keeps stepping, and the wall-clock budget is enforced whatever *)
(* the agent and its server do.                                              *)
FairSpec == Spec /\ WF_vars(Runner) /\ WF_vars(DriverTimesOut)

-----------------------------------------------------------------------------
(* Properties.                                                             *)

TypeOK ==
    /\ ServiceTypeOK
    /\ pc \in {"start", "agent", "closing", "refs", "acts", "asmts", "grade", "done"}
    /\ setup \in Setups
    /\ db \in {"absent", "bare", "ready"}
    /\ runs \in Seq(RunRows) /\ Len(runs) <= MaxRuns
    /\ left \in Seq(RunRows) /\ Len(left) <= Len(runs)
    /\ outcome \in {"none", "exit 0", "exit 1", "timeout", "raise", "cut"}
    /\ report \in Reports
    /\ DOMAIN acts \subseteq DOMAIN runs /\ asmts \subseteq DOMAIN runs
    /\ \A r \in DOMAIN acts : acts[r] \in BOOLEAN
    /\ unread \in BOOLEAN
    /\ record.kind \in {"none", "graded", "error"}
    /\ record.kind = "graded" =>
          /\ record.effects \in [Metrics -> Values]
          /\ record.basis \in {"named", "fallback_last", "nothing"}

(* oracle.py: "pass by doing nothing (and pass-by-forged-report) structurally  *)
(* impossible".  A seed passes only if for every required metric some run of   *)
(* the right mode completed, wrote its rows, and came to the right value.      *)
PassIsEarned ==
    record.kind = "graded" /\ record.passed =>
        \A m \in Required : \E r \in DOMAIN runs :
            /\ runs[r].act = "completed" /\ runs[r].assessed
            /\ runs[r].mode = ModeOf[m] /\ runs[r].vals[m] = "right"
            /\ m \in Summary \/ runs[r].final

(* A run that had succeeded when the driver ended and that the report names is *)
(* what is graded for its mode, whatever the agent went on to run after it and *)
(* however the driver ended.                                                   *)
NamedRunIsGraded ==
    record.kind = "graded" /\ ~unread /\ report.run \in DOMAIN left /\ Written(left[report.run]) =>
        \A m \in Metrics : ModeOf[m] = left[report.run].mode =>
            record.effects[m] = left[report.run].vals[m]

(* select_run: "else its LAST successful run of the mode".  A run that had       *)
(* succeeded when the driver ended is passed over only for a later one, or for   *)
(* the one the report names: a metric is graded from one that completed in its   *)
(* mode, and comes out empty only where the recorder rows of another were late.  *)
GradedRunIsRecent ==
    record.kind = "graded" /\ ~unread =>
        \A m \in Metrics, r \in DOMAIN left :
            Written(left[r]) /\ left[r].mode = ModeOf[m] =>
                \E i \in DOMAIN runs :
                    /\ i >= r \/ i = report.run
                    /\ runs[i].act = "completed" /\ runs[i].mode = ModeOf[m]
                    /\ \/ record.effects[m] = runs[i].vals[m]
                       \/ record.effects[m] = "none" /\ m \notin Summary /\ i # r

(* run.py: "An abnormal exit that cost no work is a harness error, not a result".  *)
(* Making a seed an error for its exit status throws no completed run away: none    *)
(* that was there when the harness exited, read later beside a worker that may live *)
(* on, and, once the group was signalled, none that could turn up afterwards.       *)
HarnessErrorsLoseNothing ==
    record = Error("harness") /\ ~unread =>
        /\ \A r \in DOMAIN left : left[r].act # "completed"
        /\ svc = "closed" => \A r \in DOMAIN runs : runs[r].act # "completed"

(* A seed is lost to its driver only if no run of it had completed. *)
WorkIsGraded ==
    record.kind = "error" /\ record.why \in {"harness", "raise"} =>
        \A r \in DOMAIN left : left[r].act # "completed"

(* What is in the DB now, read in one go. *)
Settled == [r \in {i \in DOMAIN runs : runs[i].act # "absent"} |->
               Effect(runs[r], runs[r].act = "completed", runs[r].assessed, runs[r].final)]

(* Once the teardown has signalled the server's group nothing writes to the DB *)
(* any more: the record is what any later reading of the DB would give, which  *)
(* is what re-scoring stored records rests on.                                 *)
VerdictReproducible ==
    svc = "closed" /\ record.kind = "graded" /\ ~unread =>
        /\ record.effects = EffectValues(Settled, report.run)
        /\ record.basis = SelectionBasis(Settled, report.run)

(* The HTTP server is gone before its seed is graded, stuck in a solve or not. *)
ServerNeverLeaks ==
    Http /\ pc \in {"refs", "acts", "asmts", "grade", "done"} => ~Alive(server)

(* Every seed whose agent was started gets a record: neither a harness that     *)
(* hangs nor a server that ignores SIGTERM holds up the matrix.                 *)
SeedEnds == pc = "agent" ~> pc = "done" /\ record.kind # "none"

(* HarnessError: "An agent that reasons badly, picks the wrong components, or  *)
(* never converges produces a graded FAIL -- a RESULT": a seed whose harness   *)
(* exited cleanly is an error only if the references could not be had.         *)
CleanExitIsAResult ==
    outcome = "exit 0" /\ record.kind = "error" => record.why = "refs"
=============================================================================
