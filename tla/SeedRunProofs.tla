----------------------------- MODULE SeedRunProofs -----------------------------
(***************************************************************************)
(* What a seed guarantees for any metrics, any number of omd runs, any     *)
(* values they come to and any report: its server is gone when it is       *)
(* graded, a pass is earned, the named run is what is graded.              *)
(***************************************************************************)
EXTENDS SeedRun, NaturalLemmas

-----------------------------------------------------------------------------
(* The inductive invariant.                                                *)

(* Where the runner is says how far its server is: what it tore down does  *)
(* not come back, and what it signalled runs no more Python.               *)
ServerInv ==
    /\ pc = "start" <=> svc \in {"idle", "waiting"}
    /\ pc = "agent" => svc = "serving"
    /\ svc \in {"term", "alone"} => pc = "closing"
    /\ svc \in {"waiting", "term", "alone"} => Http
    /\ pc \notin {"start", "agent", "closing"} => Closed
    /\ svc # "idle" => server # "none"
    /\ svc \in {"closed", "abandoned"} => server = "dead"
    /\ svc = "alone" => server \in {"deaf", "dead"}
    /\ svc \in {"term", "closed"} => server \in {"deaf", "dead"} /\ worker \in {"none", "deaf"}

(* Rows are written into tables that exist, by a run that the agent began. *)
RowsInv ==
    /\ pc = "start" => worker = "none"
    /\ runs # <<>> => db = "ready"
    /\ worker # "none" => runs # <<>>

(* What later rows may add to a run that was looked at before. *)
Grown(old, new) ==
    /\ new.mode = old.mode /\ new.vals = old.vals
    /\ old.act = "completed" => new.act = "completed"
    /\ old.final => new.final
    /\ old.assessed => new.assessed

(* The runs there were when the driver ended are there still. *)
LeftInv ==
    /\ pc \in {"start", "agent"} => left = <<>> /\ outcome = "none"
    /\ \A r \in DOMAIN left : Grown(left[r], runs[r])

ActsNow  == [r \in {i \in DOMAIN runs : db = "ready" /\ runs[i].act # "absent"}
               |-> runs[r].act = "completed"]
AsmtsNow == {r \in DOMAIN runs : runs[r].assessed}

(* A reader sees rows that are there, and those that were there when the   *)
(* driver ended; on a server that was signalled, all there will ever be.   *)
ReadInv ==
    /\ pc \in {"asmts", "grade"} =>
        /\ \A r \in DOMAIN acts : acts[r] => runs[r].act = "completed"
        /\ ~unread => \A r \in DOMAIN left :
                         left[r].act = "completed" => r \in DOMAIN acts /\ acts[r]
        /\ svc = "closed" /\ ~unread => acts = ActsNow
    /\ pc = "grade" =>
        /\ \A r \in asmts : runs[r].assessed
        /\ \A r \in DOMAIN left : left[r].assessed => r \in asmts
        /\ svc = "closed" => asmts = AsmtsNow

(* Only the end of a seed writes its record, and says truly why. *)
RecordInv ==
    /\ pc # "done" => record = NoRecord
    /\ pc \in {"refs", "acts", "asmts", "grade"} => outcome \notin {"raise", "cut"}
    /\ record.kind = "error" =>
        /\ record.why \in {"raise", "refs", "report", "harness", "provenance"}
        /\ record.why = "raise" => outcome \in {"raise", "cut"}

VerdictInv ==
    /\ PassIsEarned /\ NamedRunIsGraded /\ GradedRunIsRecent
    /\ HarnessErrorsLoseNothing /\ VerdictReproducible

SeedInv ==
    /\ TypeOK /\ ServerInv /\ RowsInv /\ LeftInv
    /\ ReadInv /\ RecordInv /\ VerdictInv

-----------------------------------------------------------------------------
(* The oracle.                                                             *)

LEMMA LenFits ==
    ASSUME NEW S, NEW s \in Seq(S)
    PROVE  Len(s) \in Nat /\ Len(s) <= Len(s)
<1>1. Len(s) \in Nat
    OBVIOUS
<1> QED BY <1>1

LEMMA LatestIsIn ==
    ASSUME NEW n \in Nat, NEW S \in SUBSET (1 .. n), S # {}
    PROVE  Latest(S) \in S /\ \A j \in S : j <= Latest(S)
<1>1. \E i \in S : \A j \in S : j <= i
    BY GreatestElement
<1> QED BY <1>1 DEF Latest

(* The run graded for a mode succeeded in it, and is the named one if that *)
(* one did, the latest otherwise.                                          *)
LEMMA SelectedRun ==
    ASSUME NEW n \in Nat, NEW seen, DOMAIN seen \subseteq 1 .. n, NEW mode, NEW named
    PROVE  LET i == SelectRun(seen, mode, named)
           IN  /\ i # NoRun => i \in Candidates(seen, mode)
               /\ named \in Candidates(seen, mode) => i = named /\ i # NoRun
               /\ \A c \in Candidates(seen, mode) :
                     i \in Candidates(seen, mode) /\ i # NoRun /\ (i = named \/ i >= c)
<1>1. Candidates(seen, mode) \in SUBSET (1 .. n)
    BY DEF Candidates
<1>2. Candidates(seen, mode) # {} =>
          /\ Latest(Candidates(seen, mode)) \in Candidates(seen, mode)
          /\ \A c \in Candidates(seen, mode) : c <= Latest(Candidates(seen, mode))
    BY <1>1, LatestIsIn
<1>3. NoRun \notin Candidates(seen, mode)
    BY <1>1 DEF NoRun
<1>4. CASE Candidates(seen, mode) = {}
    BY <1>4 DEF SelectRun
<1>5. CASE Candidates(seen, mode) # {}
    <2>1. SelectRun(seen, mode, named) = IF named \in Candidates(seen, mode) THEN named
                                         ELSE Latest(Candidates(seen, mode))
        BY <1>5 DEF SelectRun
    <2>2. \A c \in Candidates(seen, mode) : c \in Int
        BY <1>1
    <2> HIDE DEF Candidates, Latest, SelectRun
    <2> QED BY <1>2, <1>3, <1>5, <2>1, <2>2
<1> QED BY <1>4, <1>5

LEMMA EffectType ==
    ASSUME NEW rows \in RunRows, NEW ok \in BOOLEAN, NEW a \in BOOLEAN, NEW f \in BOOLEAN
    PROVE  Effect(rows, ok, a, f) \in EffectRun
BY DEF Effect, EffectRun, RunRows, Values

LEMMA EffectValuesType ==
    ASSUME NEW n \in Nat, NEW seen, DOMAIN seen \subseteq 1 .. n,
           \A r \in DOMAIN seen : seen[r] \in EffectRun, NEW named
    PROVE  /\ EffectValues(seen, named) \in [Metrics -> Values]
           /\ SelectionBasis(seen, named) \in {"named", "fallback_last", "nothing"}
<1>1. ASSUME NEW m \in Metrics PROVE EffectValue(seen, m, named) \in Values
    <2> DEFINE i == SelectRun(seen, ModeOf[m], named)
    <2>1. i # NoRun => i \in DOMAIN seen
        BY SelectedRun DEF Candidates
    <2> QED BY <2>1 DEF EffectValue, EffectRun, Values
<1>2. EffectValues(seen, named) \in [Metrics -> Values]
    BY <1>1 DEF EffectValues
<1> QED BY <1>2 DEF SelectionBasis

-----------------------------------------------------------------------------
(* Steps that are not the runner's.                                        *)

LEMMA SeedInvInit == Init => SeedInv
<1> SUFFICES ASSUME Init PROVE SeedInv
    OBVIOUS
<1>1. TypeOK
    <2>1. runs = <<>> /\ left = <<>> /\ acts = <<>> /\ asmts = {}
        BY DEF Init
    <2>2. ServiceTypeOK /\ report \in Reports /\ record.kind = "none"
        BY DEF Init, ServiceInit, ServiceTypeOK, Reports, NoRecord
    <2>3. DOMAIN acts = {}
        BY <2>1
    <2>4. unread \in BOOLEAN
        BY DEF Init
    <2> QED BY <2>1, <2>2, <2>3, <2>4, MaxRunsAssumption DEF Init, TypeOK
<1>2. ServerInv /\ RowsInv /\ LeftInv /\ ReadInv /\ RecordInv
    BY DEF Init, ServiceInit, ServerInv, RowsInv, LeftInv, ReadInv, RecordInv, NoRecord
<1>3. VerdictInv
    BY DEF Init, NoRecord, VerdictInv, PassIsEarned, NamedRunIsGraded, GradedRunIsRecent,
           HarnessErrorsLoseNothing, VerdictReproducible, Error
<1> QED BY <1>1, <1>2, <1>3 DEF SeedInv

Kept == UNCHANGED <<pc, setup, outcome, report, acts, asmts, unread, record, left>>

LEMMA CurrentRun ==
    ASSUME TypeOK, runs # <<>>
    PROVE  Current \in DOMAIN runs /\ Rows \in RunRows
<1>1. runs \in Seq(RunRows)
    BY DEF TypeOK
<1>2. Len(runs) \in 1 .. Len(runs)
    BY <1>1
<1> QED BY <1>1, <1>2 DEF Current, Rows

(* A run begun, a row written, a run failed: the runs only grow. *)
RowStep == WriteRow \/ RunFails \/ \E mode \in Modes, vals \in Outcomes : BeginRun(mode, vals)

LEMMA RunsGrow ==
    ASSUME SeedInv, RowStep
    PROVE  /\ Kept /\ UNCHANGED <<svc, server, db>>
           /\ db = "ready" /\ svc \notin {"term", "closed"} /\ pc # "start"
           /\ worker' \in {"none", "python"}
           /\ runs' \in Seq(RunRows) /\ Len(runs') <= MaxRuns
           /\ Len(runs) <= Len(runs') /\ runs' # <<>>
           /\ \A r \in DOMAIN runs : Grown(runs[r], runs'[r])
<1>1. runs \in Seq(RunRows) /\ Len(runs) <= MaxRuns /\ MaxRuns \in Nat
    BY MaxRunsAssumption DEF SeedInv, TypeOK
<1>2. \A r \in DOMAIN runs : runs[r] \in RunRows
    BY <1>1
<1>3. ASSUME NEW mode \in Modes, NEW vals \in Outcomes, BeginRun(mode, vals)
      PROVE  /\ runs' \in Seq(RunRows) /\ Len(runs') <= MaxRuns
             /\ Len(runs) <= Len(runs') /\ runs' # <<>>
             /\ \A r \in DOMAIN runs : Grown(runs[r], runs'[r])
    <2> DEFINE row == [mode |-> mode, vals |-> vals, act |-> "absent",
                       final |-> FALSE, assessed |-> FALSE]
    <2>1. row \in RunRows
        BY OutcomeAssumption DEF RunRows
    <2>2. runs' = Append(runs, row) /\ Len(runs) < MaxRuns
        BY <1>3 DEF BeginRun
    <2> HIDE DEF row
    <2>3. \A r \in DOMAIN runs : runs'[r] = runs[r]
        BY <1>1, <2>2
    <2> QED BY <1>1, <2>1, <2>2, <2>3 DEF Grown
<1>4. ASSUME NEW row \in RunRows, runs # <<>>, Grown(Rows, row),
             runs' = [runs EXCEPT ![Current] = row]
      PROVE  /\ runs' \in Seq(RunRows) /\ Len(runs') <= MaxRuns
             /\ Len(runs) <= Len(runs') /\ runs' # <<>>
             /\ \A r \in DOMAIN runs : Grown(runs[r], runs'[r])
    <2>1. Len(runs') = Len(runs) /\ runs' \in Seq(RunRows)
        BY <1>1, <1>4 DEF Current
    <2>2. \A r \in DOMAIN runs : runs'[r] = runs[r] \/ (r = Current /\ runs'[r] = row)
        BY <1>1, <1>4
    <2> QED BY <1>1, <1>4, <2>1, <2>2 DEF Grown, Rows
<1>5. worker = "python" => runs # <<>> /\ Rows \in RunRows
    BY CurrentRun DEF SeedInv, RowsInv
<1>6. ASSUME WriteRow
      PROVE  \E row \in RunRows : Grown(Rows, row) /\ runs' = [runs EXCEPT ![Current] = row]
    <2>1. PICK row \in MoreRows : runs' = [runs EXCEPT ![Current] = row]
        BY <1>6 DEF WriteRow
    <2>2. row \in RunRows /\ Grown(Rows, row)
        BY <1>5, <1>6, <2>1 DEF WriteRow, MoreRows, RunRows, Grown
    <2> QED BY <2>1, <2>2
<1>7. ASSUME RunFails
      PROVE  \E row \in RunRows : Grown(Rows, row) /\ runs' = [runs EXCEPT ![Current] = row]
    <2> DEFINE row == [Rows EXCEPT !.act = "failed"]
    <2>1. row \in RunRows /\ Grown(Rows, row)
        BY <1>5, <1>7 DEF RunFails, RunRows, Grown
    <2>2. runs' = [runs EXCEPT ![Current] = row]
        BY <1>7 DEF RunFails, Rows
    <2> QED BY <2>1, <2>2
<1>8. /\ runs' \in Seq(RunRows) /\ Len(runs') <= MaxRuns
      /\ Len(runs) <= Len(runs') /\ runs' # <<>>
      /\ \A r \in DOMAIN runs : Grown(runs[r], runs'[r])
    BY <1>3, <1>4, <1>5, <1>6, <1>7 DEF RowStep, WriteRow, RunFails
<1>9. Kept /\ UNCHANGED <<svc, server, db>> /\ worker' \in {"none", "python"}
    BY DEF RowStep, WriteRow, RunFails, BeginRun, Kept
<1>10. db = "ready" /\ svc \notin {"term", "closed"} /\ pc # "start"
    BY DEF RowStep, WriteRow, RunFails, BeginRun, SeedInv, ServerInv, RowsInv
<1> QED BY <1>8, <1>9, <1>10

LEMMA RowStepKeeps ==
    ASSUME SeedInv, RowStep
    PROVE  SeedInv'
<1>1. TypeOK'
    <2>1. worker' \in {"none", "python"} /\ runs' \in Seq(RunRows) /\ Len(runs') <= MaxRuns
        BY RunsGrow
    <2>2. runs \in Seq(RunRows) /\ left \in Seq(RunRows) /\ Len(left) <= Len(runs)
        BY DEF SeedInv, TypeOK
    <2>3. Len(runs) <= Len(runs') /\ Kept /\ UNCHANGED <<svc, server, db>>
        BY RunsGrow
    <2>4. Len(left') <= Len(runs') /\ DOMAIN runs \subseteq DOMAIN runs'
        BY <2>1, <2>2, <2>3 DEF Kept
    <2>5. /\ DOMAIN acts' \subseteq DOMAIN runs' /\ asmts' \subseteq DOMAIN runs'
          /\ left' \in Seq(RunRows) /\ ServiceTypeOK'
        BY <2>1, <2>3, <2>4 DEF Kept, SeedInv, TypeOK, ServiceTypeOK
    <2> QED BY <2>1, <2>3, <2>4, <2>5 DEF Kept, SeedInv, TypeOK
<1>2. ServerInv' /\ RowsInv'
    BY RunsGrow DEF Kept, SeedInv, ServerInv, RowsInv, Closed, Http
<1>3. DOMAIN left \subseteq DOMAIN runs
    <2>1. runs \in Seq(RunRows) /\ left \in Seq(RunRows) /\ Len(left) <= Len(runs)
        BY DEF SeedInv, TypeOK
    <2> QED BY <2>1
<1>4. LeftInv'
    <2>1. \A r \in DOMAIN left : Grown(left[r], runs'[r])
        BY <1>3, RunsGrow DEF SeedInv, LeftInv, Grown
    <2> QED BY <2>1, RunsGrow DEF Kept, SeedInv, LeftInv, Driver
<1>5. ReadInv'
    BY <1>3, RunsGrow DEF Kept, SeedInv, TypeOK, ReadInv, Grown
<1>6. RecordInv'
    BY RunsGrow DEF Kept, SeedInv, RecordInv
<1>7. PassIsEarned'
    <2>1. runs \in Seq(RunRows) /\ runs' \in Seq(RunRows) /\ Len(runs) <= Len(runs')
        BY RunsGrow DEF SeedInv, TypeOK
    <2>2. DOMAIN runs \subseteq DOMAIN runs'
        BY <2>1
    <2> QED BY <2>2, RunsGrow DEF Kept, SeedInv, VerdictInv, PassIsEarned, Grown
<1>8. NamedRunIsGraded' /\ HarnessErrorsLoseNothing' /\ VerdictReproducible'
    BY RunsGrow DEF Kept, SeedInv, VerdictInv, NamedRunIsGraded, HarnessErrorsLoseNothing, Error,
                    VerdictReproducible, Written
<1>9. GradedRunIsRecent'
    <2>1. runs \in Seq(RunRows) /\ runs' \in Seq(RunRows) /\ Len(runs) <= Len(runs')
        BY RunsGrow DEF SeedInv, TypeOK
    <2>2. DOMAIN runs \subseteq DOMAIN runs'
        BY <2>1
    <2>3. \A i \in DOMAIN runs :
              /\ runs'[i].mode = runs[i].mode /\ runs'[i].vals = runs[i].vals
              /\ runs[i].act = "completed" => runs'[i].act = "completed"
        BY RunsGrow DEF Grown
    <2>4. UNCHANGED <<record, unread, left, report>>
        BY RunsGrow DEF Kept
    <2> QED BY <2>2, <2>3, <2>4 DEF SeedInv, VerdictInv, GradedRunIsRecent, Written
<1> QED BY <1>1, <1>2, <1>4, <1>5, <1>6, <1>7, <1>8, <1>9 DEF SeedInv, VerdictInv

(* Steps of the processes, and of the runner's side of the server: once it *)
(* is closed nothing changes what a reader would see.                      *)
LEMMA QuietStep ==
    ASSUME SeedInv, Kept, UNCHANGED runs, db' \in {"absent", "bare", "ready"},
           ServiceTypeOK', ServerInv', RowsInv',
           pc = "closing" \/ (svc' = "closed" => svc = "closed" /\ db' = db)
    PROVE  SeedInv'
<1>1. TypeOK'
    BY DEF Kept, SeedInv, TypeOK
<1>2. LeftInv' /\ RecordInv'
    BY DEF Kept, SeedInv, LeftInv, RecordInv, Driver
<1>3. ReadInv'
    <2>1. CASE pc = "closing"
        BY <2>1 DEF Kept, ReadInv
    <2>2. CASE svc' = "closed" => svc = "closed" /\ db' = db
        BY <2>2 DEF Kept, SeedInv, ReadInv, ActsNow, AsmtsNow
    <2> QED BY <2>1, <2>2
<1>4. PassIsEarned' /\ NamedRunIsGraded' /\ GradedRunIsRecent' /\ HarnessErrorsLoseNothing'
    <2>1. PassIsEarned' /\ NamedRunIsGraded' /\ GradedRunIsRecent'
        BY DEF Kept, SeedInv, VerdictInv, PassIsEarned, NamedRunIsGraded, GradedRunIsRecent, Written
    <2>2. ASSUME pc = "closing"
          PROVE  HarnessErrorsLoseNothing'
        <3>1. record' = NoRecord
            BY <2>2 DEF Kept, SeedInv, RecordInv
        <3>2. NoRecord.kind # Error("harness").kind
            BY DEF NoRecord, Error
        <3> QED BY <3>1, <3>2 DEF HarnessErrorsLoseNothing, Error
    <2>3. ASSUME svc' = "closed" => svc = "closed" /\ db' = db
          PROVE  HarnessErrorsLoseNothing'
        BY <2>3 DEF Kept, SeedInv, VerdictInv, HarnessErrorsLoseNothing, Error
    <2> QED BY <2>1, <2>2, <2>3
<1>5. VerdictReproducible'
    <2>1. CASE pc = "closing"
        BY <2>1 DEF Kept, SeedInv, RecordInv, NoRecord, VerdictReproducible
    <2>2. CASE svc' = "closed" => svc = "closed" /\ db' = db
        BY <2>2 DEF Kept, SeedInv, VerdictInv, VerdictReproducible, Settled
    <2> QED BY <2>1, <2>2
<1> QED BY <1>1, <1>2, <1>3, <1>4, <1>5 DEF SeedInv, VerdictInv

LEMMA ProcessSteps ==
    ASSUME SeedInv, OpenDb \/ Process \/ CloseServer
    PROVE  SeedInv'
<1>1. ServiceTypeOK
    BY DEF SeedInv, TypeOK
<1>2. CASE OpenDb
    <2>1. Kept /\ UNCHANGED runs /\ db' \in {"absent", "bare", "ready"} /\ svc # "closed"
        BY <1>2 DEF OpenDb, Kept, SeedInv, ServerInv
    <2>2. ServiceTypeOK' /\ ServerInv' /\ RowsInv' /\ svc' = svc
        BY <1>1, <1>2 DEF OpenDb, svcVars, ServiceTypeOK, SeedInv, ServerInv, RowsInv, Closed, Http
    <2> QED BY <2>1, <2>2, QuietStep
<1>3. CASE Process
    <2>1. Kept /\ UNCHANGED <<runs, db, svc>>
        BY <1>3 DEF Process, Kept, Boots, ServerCrashes, ServerHears, EnterSolve, LeaveSolve
    <2>2. ServiceTypeOK'
        BY <1>1, <1>3 DEF Process, Boots, ServerCrashes, ServerHears, EnterSolve, LeaveSolve,
                          ServiceTypeOK
    <2>3. ServerInv' /\ RowsInv'
        BY <1>3, <2>1 DEF Process, Boots, ServerCrashes, ServerHears, EnterSolve, LeaveSolve,
                          Kept, SeedInv, ServerInv, RowsInv, Closed, Http
    <2>4. db \in {"absent", "bare", "ready"}
        BY DEF SeedInv, TypeOK
    <2> QED BY <2>1, <2>2, <2>3, <2>4, QuietStep
<1>4. CASE CloseServer
    <2>1. Kept /\ UNCHANGED <<runs, db>> /\ pc = "closing" /\ Http
        BY <1>4 DEF CloseServer, Kept, others
    <2>2. ServiceTypeOK'
        BY <1>1, <1>4 DEF CloseServer, Teardown, Term, TermSuffices, Kill, Ended, TermedWorker,
                          ServiceTypeOK
    <2>3. ServerInv'
        BY <1>1, <1>4, <2>1
           DEF CloseServer, Teardown, Term, TermSuffices, Kill, Ended, TermedWorker, Alive,
               ServiceTypeOK, Kept, SeedInv, ServerInv, Http
    <2>4. RowsInv'
        BY <1>1, <1>4, <2>1
           DEF CloseServer, Teardown, Term, TermSuffices, Kill, Ended, TermedWorker,
               ServiceTypeOK, Kept, SeedInv, RowsInv
    <2>5. db \in {"absent", "bare", "ready"}
        BY DEF SeedInv, TypeOK
    <2> QED BY <2>1, <2>2, <2>3, <2>4, <2>5, QuietStep
<1> QED BY <1>2, <1>3, <1>4

-----------------------------------------------------------------------------
(* The runner, up to the verdict.                                          *)

LEMMA NoVerdict ==
    ASSUME record'.kind # "graded",
           record' # Error("harness")
    PROVE  VerdictInv'
BY DEF VerdictInv, PassIsEarned, NamedRunIsGraded, GradedRunIsRecent,
       HarnessErrorsLoseNothing, VerdictReproducible, Error

LEMMA ServerSteps ==
    ASSUME SeedInv, StartServer \/ ServerReady \/ ServerNeverReady
    PROVE  SeedInv'
<1>1. ServiceTypeOK /\ pc = "start" /\ record = NoRecord /\ left = <<>>
    BY DEF StartServer, ServerReady, ServerNeverReady, SeedInv, TypeOK, RecordInv, LeftInv
<1>2. ServiceTypeOK'
    BY <1>1 DEF StartServer, Launch, SpawnStdio, ServerReady, Ready, ServerNeverReady,
                StartupCrashes, StartupTimesOut, Term, TermedWorker, ServiceTypeOK
<1>3. /\ UNCHANGED <<setup, db, runs, report, acts, asmts, unread, record, left>>
      /\ \/ pc' \in {"start", "agent"} /\ outcome' = outcome
         \/ pc' = "closing" /\ outcome' = "raise"
    BY <1>1 DEF StartServer, ServerReady, ServerNeverReady, others
<1>4. TypeOK'
    BY <1>2, <1>3 DEF SeedInv, TypeOK
<1>5. ServerInv'
    <2>1. worker = "none" /\ (svc # "idle" => server # "none")
        BY <1>1 DEF SeedInv, ServerInv, RowsInv
    <2>2. CASE StartServer
        BY <1>1, <2>1, <2>2 DEF StartServer, Launch, SpawnStdio, others, ServerInv, Http
    <2>3. CASE ServerReady
        BY <1>1, <2>1, <2>3 DEF ServerReady, Ready, ServerInv
    <2>4. CASE ServerNeverReady
        <3>1. svc = "waiting" => Http
            BY DEF SeedInv, ServerInv
        <3> QED BY <1>1, <2>1, <2>4, <3>1
                DEF ServerNeverReady, StartupCrashes, StartupTimesOut, Term, TermedWorker, Alive,
                    ServiceTypeOK, ServerInv, Http
    <2> QED BY <2>2, <2>3, <2>4
<1>6. RowsInv'
    BY <1>1, <1>3 DEF StartServer, Launch, SpawnStdio, ServerReady, Ready, ServerNeverReady,
                      StartupCrashes, StartupTimesOut, Term, TermedWorker,
                      SeedInv, RowsInv
<1>7. LeftInv' /\ ReadInv' /\ RecordInv'
    BY <1>1, <1>3 DEF SeedInv, LeftInv, ReadInv, RecordInv, NoRecord
<1>8. VerdictInv'
    BY <1>1, <1>3, NoVerdict DEF NoRecord, Error
<1> QED BY <1>4, <1>5, <1>6, <1>7, <1>8 DEF SeedInv

LEMMA DriverSteps ==
    ASSUME SeedInv, DriverReturns \/ DriverTimesOut \/ DriverExits
    PROVE  SeedInv'
<1>1. NoReport \in Reports
    BY DEF Reports
<1>2. PICK how \in {"exit 0", "exit 1", "timeout", "raise", "cut"}, said \in Reports :
          DriverEnds(how, said)
    BY <1>1 DEF DriverReturns, DriverTimesOut, DriverExits
<1>3. /\ pc = "agent" /\ pc' = "closing" /\ outcome' = how /\ report' = said /\ left' = runs
      /\ UNCHANGED <<setup, db, runs, acts, asmts, unread, record>>
    BY <1>2 DEF DriverEnds
<1>4. /\ svc = "serving" /\ svc' = svc
      /\ \/ UNCHANGED <<server, worker>>
         \/ server' = "dead" /\ worker' = "none"
    BY <1>3 DEF DriverReturns, DriverTimesOut, DriverExits, svcVars, SeedInv, ServerInv
<1>5. record = NoRecord
    BY <1>3 DEF SeedInv, RecordInv
<1>6. TypeOK'
    <2>1. ServiceTypeOK'
        BY <1>4 DEF SeedInv, TypeOK, ServiceTypeOK
    <2>2. runs \in Seq(RunRows)
        BY DEF SeedInv, TypeOK
    <2>3. Len(runs) <= Len(runs)
        BY <2>2, LenFits
    <2>4. Len(left') = Len(runs) /\ Len(runs') = Len(runs)
        BY <1>3
    <2>5. Len(left') <= Len(runs')
        BY <2>3, <2>4
    <2> QED BY <2>5, <1>3, <2>1, <2>2 DEF SeedInv, TypeOK
<1>7. ServerInv' /\ RowsInv'
    BY <1>3, <1>4 DEF SeedInv, ServerInv, RowsInv, Closed, Http
<1>8. LeftInv' /\ ReadInv' /\ RecordInv'
    BY <1>2, <1>3, <1>5 DEF LeftInv, Grown, ReadInv, RecordInv, NoRecord, Driver
<1>9. VerdictInv'
    BY <1>3, <1>5, NoVerdict DEF NoRecord, Error
<1> QED BY <1>6, <1>7, <1>8, <1>9 DEF SeedInv

(* After the server: what is read, what is left and the server stay. *)
LEMMA PlaceStep ==
    ASSUME SeedInv, UNCHANGED <<svcVars, setup, db, runs, outcome, report, left>>, unread' \in BOOLEAN,
           DOMAIN acts' \subseteq DOMAIN runs, \A r \in DOMAIN acts' : acts'[r] \in BOOLEAN,
           asmts' \subseteq DOMAIN runs,
           Closed, pc \notin {"start", "agent"},
           pc' \in {"refs", "acts", "asmts", "grade", "done"},
           record'.kind \in {"none", "graded", "error"},
           record'.kind = "graded" => /\ record'.effects \in [Metrics -> Values]
                                      /\ record'.basis \in {"named", "fallback_last", "nothing"}
    PROVE  TypeOK' /\ ServerInv' /\ RowsInv' /\ LeftInv'
<1> USE DEF svcVars
<1>1. TypeOK'
    <2>1. ServiceTypeOK' /\ Len(left') <= Len(runs')
        BY DEF SeedInv, TypeOK, ServiceTypeOK
    <2>2. DOMAIN acts' \subseteq DOMAIN runs' /\ asmts' \subseteq DOMAIN runs'
        OBVIOUS
    <2> QED BY <2>1, <2>2 DEF SeedInv, TypeOK
<1>2. ServerInv'
    <2>1. svc \in {"closed", "abandoned"} \/ ~Http
        BY DEF Closed
    <2>2. svc \notin {"idle", "waiting"} /\ pc # "start"
        BY DEF SeedInv, ServerInv
    <2>3. UNCHANGED <<svc, server, worker>> /\ Closed'
        BY DEF Closed, Http
    <2>4. pc' \notin {"start", "agent"} /\ svc' \notin {"term", "alone"}
        BY <2>1, <2>2, <2>3 DEF SeedInv, ServerInv
    <2> QED BY <2>2, <2>3, <2>4 DEF SeedInv, ServerInv
<1>3. RowsInv' /\ LeftInv'
    BY DEF svcVars, SeedInv, RowsInv, LeftInv, Driver
<1> QED BY <1>1, <1>2, <1>3

LEMMA LeaveStep ==
    ASSUME SeedInv, Leave \/ ComputeRefs
    PROVE  SeedInv'
<1>1. /\ UNCHANGED <<svcVars, setup, db, runs, outcome, report, left, acts, asmts, unread>>
      /\ Closed /\ pc \in {"closing", "refs"} /\ record = NoRecord
    BY DEF Leave, ComputeRefs, SeedInv, ServerInv, RecordInv
<1>2. \/ pc' \in {"refs", "acts"} /\ record' = record /\ outcome \notin {"raise", "cut"}
      \/ pc' = "done" /\ record' = Error("raise") /\ outcome \in {"raise", "cut"}
      \/ pc' = "done" /\ record' = Error("refs") 
    BY DEF Leave, ComputeRefs, SeedInv, RecordInv
<1>3. record'.kind \in {"none", "error"}
    BY <1>1, <1>2 DEF NoRecord, Error
<1>4. TypeOK' /\ ServerInv' /\ RowsInv' /\ LeftInv'
    BY <1>1, <1>2, <1>3, PlaceStep DEF SeedInv, TypeOK
<1>5. ReadInv'
    BY <1>2 DEF ReadInv
<1>6. RecordInv'
    <2>1. record'.kind = "error" => record'.why \in {"raise", "refs"}
        BY <1>1, <1>2 DEF NoRecord, Error
    <2>2. record'.kind = "error" /\ record'.why = "raise" => outcome' \in {"raise", "cut"}
        BY <1>1, <1>2 DEF NoRecord, Error
    <2> QED BY <1>1, <1>2, <2>1, <2>2 DEF RecordInv
<1>7. VerdictInv'
    BY <1>1, <1>2, <1>3, NoVerdict DEF NoRecord, Error
<1> QED BY <1>4, <1>5, <1>6, <1>7 DEF SeedInv

(* What was left when the driver ended is what a reader of the DB finds. *)
LEMMA ReadSteps ==
    ASSUME SeedInv, ReadActivities \/ ReadAssessments
    PROVE  SeedInv'
<1>1. /\ UNCHANGED <<svcVars, setup, db, runs, outcome, report, left, record>>
      /\ pc' \in {"asmts", "grade"} /\ pc \in {"acts", "asmts"}
      /\ Closed /\ record = NoRecord /\ outcome \notin {"raise", "cut"}
    BY DEF ReadActivities, ReadAssessments, SeedInv, ServerInv, RecordInv
<1>2. runs \in Seq(RunRows) /\ left \in Seq(RunRows) /\ DOMAIN left \subseteq DOMAIN runs
    <2>1. runs \in Seq(RunRows) /\ left \in Seq(RunRows) /\ Len(left) <= Len(runs)
        BY DEF SeedInv, TypeOK
    <2> QED BY <2>1
<1>3. \A r \in DOMAIN left : Grown(left[r], runs[r])
    BY DEF SeedInv, LeftInv
<1>4. ReadActivities =>
          /\ asmts' = asmts
          /\ (acts' = ActsNow /\ unread' = unread) \/ (acts' = <<>> /\ unread' = TRUE)
    BY DEF ReadActivities, ActsNow
<1>5. ReadAssessments => acts' = acts /\ asmts' = AsmtsNow /\ unread' = unread
    BY DEF ReadAssessments, AsmtsNow
<1>6. /\ DOMAIN acts' \subseteq DOMAIN runs /\ \A r \in DOMAIN acts' : acts'[r] \in BOOLEAN
      /\ asmts' \subseteq DOMAIN runs /\ unread' \in BOOLEAN
    <2>1. DOMAIN <<>> = {}
        OBVIOUS
    <2>2. DOMAIN ActsNow \subseteq DOMAIN runs /\ \A r \in DOMAIN ActsNow : ActsNow[r] \in BOOLEAN
        BY DEF ActsNow
    <2> QED BY <1>4, <1>5, <2>1, <2>2 DEF SeedInv, TypeOK, AsmtsNow
<1>7. TypeOK' /\ ServerInv' /\ RowsInv' /\ LeftInv'
    BY <1>1, <1>6, PlaceStep DEF NoRecord
<1>8. ReadInv'
    <2>1. CASE ReadActivities
        <3>1. \A r \in DOMAIN left : left[r].act = "completed" =>
                  r \in DOMAIN ActsNow /\ ActsNow[r]
            <4>1. SUFFICES ASSUME NEW r \in DOMAIN left, left[r].act = "completed"
                           PROVE  r \in DOMAIN ActsNow /\ ActsNow[r]
                OBVIOUS
            <4>2. r \in DOMAIN runs /\ runs[r].act = "completed"
                BY <1>2, <1>3, <4>1 DEF Grown
            <4>3. db = "ready"
                BY <4>2 DEF SeedInv, RowsInv
            <4> QED BY <4>2, <4>3 DEF ActsNow
        <3>2. \A r \in DOMAIN ActsNow : ActsNow[r] => runs[r].act = "completed"
            BY DEF ActsNow
        <3>3. ActsNow' = ActsNow
            BY <1>1 DEF ActsNow
        <3>4. pc' = "asmts"
            BY <2>1 DEF ReadActivities
        <3>5. DOMAIN <<>> = {}
            OBVIOUS
        <3> QED BY <1>1, <1>4, <2>1, <3>1, <3>2, <3>3, <3>4, <3>5 DEF ReadInv
    <2>2. CASE ReadAssessments
        <3>1. ActsNow' = ActsNow /\ AsmtsNow' = AsmtsNow
            BY <1>1 DEF ActsNow, AsmtsNow
        <3>2. \A r \in DOMAIN left : left[r].assessed => r \in AsmtsNow
            BY <1>2, <1>3 DEF Grown, AsmtsNow
        <3>3. pc = "asmts"
            BY <2>2 DEF ReadAssessments
        <3> QED BY <1>1, <1>5, <2>2, <3>1, <3>2, <3>3
                DEF svcVars, SeedInv, ReadInv, AsmtsNow
    <2> QED BY <2>1, <2>2
<1>9. RecordInv'
    BY <1>1 DEF RecordInv, NoRecord
<1>10. VerdictInv'
    BY <1>1, NoVerdict DEF NoRecord, Error
<1> QED BY <1>7, <1>8, <1>9, <1>10 DEF SeedInv

-----------------------------------------------------------------------------
(* The verdict.                                                            *)

LEMMA SeenRuns ==
    ASSUME SeedInv, pc = "grade"
    PROVE  /\ Len(runs) \in Nat /\ DOMAIN Seen = DOMAIN acts
           /\ DOMAIN Seen \subseteq 1 .. Len(runs) /\ DOMAIN Seen \subseteq DOMAIN runs
           /\ \A r \in DOMAIN Seen :
                /\ runs[r] \in RunRows /\ acts[r] \in BOOLEAN /\ Seen[r] \in EffectRun
                /\ Seen[r] = Effect(runs[r], acts[r], r \in asmts, runs[r].final)
<1>1. runs \in Seq(RunRows)
    BY DEF SeedInv, TypeOK
<1>2. Len(runs) \in Nat /\ DOMAIN runs = 1 .. Len(runs) /\ \A r \in DOMAIN runs : runs[r] \in RunRows
    BY <1>1
<1>3. DOMAIN acts \subseteq DOMAIN runs /\ \A r \in DOMAIN acts : acts[r] \in BOOLEAN
    BY DEF SeedInv, TypeOK
<1>4. \A r \in DOMAIN acts :
          /\ runs[r] \in RunRows
          /\ Effect(runs[r], acts[r], r \in asmts, runs[r].final) \in EffectRun
    <2> SUFFICES ASSUME NEW r \in DOMAIN acts
                 PROVE  /\ runs[r] \in RunRows
                        /\ Effect(runs[r], acts[r], r \in asmts, runs[r].final) \in EffectRun
        OBVIOUS
    <2>1. runs[r] \in RunRows /\ acts[r] \in BOOLEAN
        BY <1>2, <1>3
    <2>2. runs[r].final \in BOOLEAN /\ (r \in asmts) \in BOOLEAN
        BY <2>1 DEF RunRows
    <2> QED BY <2>1, <2>2, EffectType
<1> QED BY <1>2, <1>3, <1>4 DEF Seen

(* What the oracle grades for a metric is the value of a run that           *)
(* completed, was assessed in its mode and has the value's row.             *)
LEMMA GradedValue ==
    ASSUME SeedInv, pc = "grade", NEW m \in Metrics, NEW named,
           EffectValue(Seen, m, named) # "none"
    PROVE  \E r \in DOMAIN runs :
              /\ runs[r].act = "completed" /\ runs[r].assessed
              /\ runs[r].mode = ModeOf[m] /\ runs[r].vals[m] = EffectValue(Seen, m, named)
              /\ m \in Summary \/ runs[r].final
<1> DEFINE r == SelectRun(Seen, ModeOf[m], named)
<1>1. r # NoRun /\ EffectValue(Seen, m, named) = Seen[r].vals[m]
    BY DEF EffectValue
<1>2. r \in DOMAIN Seen /\ Seen[r].ok /\ Seen[r].mode = ModeOf[m]
    BY <1>1, SeenRuns, SelectedRun DEF Candidates
<1> HIDE DEF r
<1>3. /\ r \in DOMAIN runs /\ r \in DOMAIN acts /\ runs[r] \in RunRows /\ acts[r] \in BOOLEAN
      /\ Seen[r] = Effect(runs[r], acts[r], r \in asmts, runs[r].final)
    BY <1>2, SeenRuns
<1>4. /\ Seen[r].ok = acts[r]
      /\ Seen[r].mode = IF r \in asmts THEN runs[r].mode ELSE "none"
      /\ Seen[r].vals[m] = IF (m \in Summary /\ r \in asmts) \/ (m \notin Summary /\ runs[r].final)
                           THEN runs[r].vals[m] ELSE "none"
    BY <1>3 DEF Effect
<1>5. r \in asmts /\ runs[r].mode = ModeOf[m]
    BY <1>2, <1>4, ModeAssumption
<1>6. runs[r].act = "completed" /\ runs[r].assessed
    BY <1>2, <1>3, <1>4, <1>5 DEF SeedInv, ReadInv
<1> QED BY <1>1, <1>3, <1>4, <1>5, <1>6

(* A run that was all there when the driver ended can be graded for its     *)
(* mode, with its value.                                                    *)
LEMMA LeftIsCandidate ==
    ASSUME SeedInv, pc = "grade", ~unread, NEW n \in DOMAIN left, Written(left[n]),
           NEW m \in Metrics, ModeOf[m] = left[n].mode
    PROVE  /\ n \in DOMAIN runs /\ Grown(left[n], runs[n])
           /\ n \in Candidates(Seen, ModeOf[m]) /\ Seen[n].vals[m] = left[n].vals[m]
<1>1. n \in DOMAIN runs /\ Grown(left[n], runs[n])
    <2>1. runs \in Seq(RunRows) /\ left \in Seq(RunRows) /\ Len(left) <= Len(runs)
        BY DEF SeedInv, TypeOK
    <2> QED BY <2>1 DEF SeedInv, LeftInv
<1>2. n \in DOMAIN acts /\ acts[n] = TRUE /\ n \in asmts
    BY DEF SeedInv, TypeOK, ReadInv, Written
<1>3. runs[n] \in RunRows /\ Seen[n] = Effect(runs[n], acts[n], n \in asmts, runs[n].final)
    BY <1>2, SeenRuns
<1>4. runs[n].final
    BY <1>1 DEF Grown, Written
<1>5. Seen[n].ok = TRUE /\ Seen[n].mode = runs[n].mode /\ Seen[n].vals[m] = runs[n].vals[m]
    BY <1>2, <1>3, <1>4 DEF Effect
<1>6. n \in Candidates(Seen, ModeOf[m])
    BY <1>1, <1>2, <1>5, SeenRuns DEF Candidates, Grown
<1> QED BY <1>1, <1>5, <1>6 DEF Grown

(* A named run that was all there when the driver ended is what is graded. *)
LEMMA NamedValue ==
    ASSUME SeedInv, pc = "grade", ~unread, NEW n \in DOMAIN left, Written(left[n]),
           NEW m \in Metrics, ModeOf[m] = left[n].mode
    PROVE  EffectValue(Seen, m, n) = left[n].vals[m]
<1>1. n \in Candidates(Seen, ModeOf[m]) /\ Seen[n].vals[m] = left[n].vals[m]
    BY LeftIsCandidate
<1>2. SelectRun(Seen, ModeOf[m], n) = n /\ n # NoRun
    BY <1>1, SeenRuns, SelectedRun
<1> QED BY <1>1, <1>2 DEF EffectValue

(* Beside a run q that was all there, what is graded for its mode is q, a   *)
(* later run or the named one; without a value only if it is not q.         *)
LEMMA RecentValue ==
    ASSUME SeedInv, pc = "grade", ~unread, NEW q \in DOMAIN left, Written(left[q]),
           NEW m \in Metrics, ModeOf[m] = left[q].mode, NEW named
    PROVE  \E i \in DOMAIN runs :
               /\ i >= q \/ i = named
               /\ runs[i].act = "completed" /\ runs[i].mode = ModeOf[m]
               /\ \/ EffectValue(Seen, m, named) = runs[i].vals[m]
                  \/ EffectValue(Seen, m, named) = "none" /\ m \notin Summary /\ i # q
<1>1. /\ q \in DOMAIN runs /\ Grown(left[q], runs[q])
      /\ q \in Candidates(Seen, ModeOf[m]) /\ Seen[q].vals[m] = left[q].vals[m]
    BY LeftIsCandidate
<1> DEFINE i == SelectRun(Seen, ModeOf[m], named)
<1>2. /\ i \in Candidates(Seen, ModeOf[m]) /\ i # NoRun /\ (i = named \/ i >= q)
    BY <1>1, SeenRuns, SelectedRun
<1>3. EffectValue(Seen, m, named) = Seen[i].vals[m]
    BY <1>2 DEF EffectValue
<1> HIDE DEF i
<1>4. i \in DOMAIN Seen /\ Seen[i].ok /\ Seen[i].mode = ModeOf[m]
    BY <1>2 DEF Candidates
<1>5. /\ i \in DOMAIN runs /\ i \in DOMAIN acts /\ runs[i] \in RunRows /\ acts[i] \in BOOLEAN
      /\ Seen[i] = Effect(runs[i], acts[i], i \in asmts, runs[i].final)
    BY <1>4, SeenRuns
<1>6. /\ Seen[i].ok = acts[i]
      /\ Seen[i].mode = IF i \in asmts THEN runs[i].mode ELSE "none"
      /\ Seen[i].vals[m] = IF (m \in Summary /\ i \in asmts) \/ (m \notin Summary /\ runs[i].final)
                           THEN runs[i].vals[m] ELSE "none"
    BY <1>5 DEF Effect
<1>7. i \in asmts /\ runs[i].mode = ModeOf[m]
    BY <1>4, <1>6, ModeAssumption
<1>8. runs[i].act = "completed"
    BY <1>4, <1>5, <1>6 DEF SeedInv, ReadInv
<1>9. \/ Seen[i].vals[m] = runs[i].vals[m]
      \/ Seen[i].vals[m] = "none" /\ m \notin Summary /\ i # q
    BY <1>1, <1>6, <1>7 DEF Grown
<1> QED BY <1>2, <1>3, <1>5, <1>7, <1>8, <1>9

(* On a server that was signalled the reader saw all there will ever be. *)
LEMMA SeenIsSettled ==
    ASSUME SeedInv, pc = "grade", svc = "closed", ~unread
    PROVE  Seen = Settled
<1>1. acts = ActsNow /\ asmts = AsmtsNow
    BY DEF SeedInv, ReadInv
<1>2. {i \in DOMAIN runs : db = "ready" /\ runs[i].act # "absent"}
          = {i \in DOMAIN runs : runs[i].act # "absent"}
    <2>1. runs = <<>> => DOMAIN runs = {}
        OBVIOUS
    <2> QED BY <2>1 DEF SeedInv, RowsInv
<1>3. DOMAIN acts = {i \in DOMAIN runs : runs[i].act # "absent"}
    BY <1>1, <1>2 DEF ActsNow
<1>4. \A r \in DOMAIN acts : acts[r] = (runs[r].act = "completed")
    BY <1>1 DEF ActsNow
<1>5. \A r \in DOMAIN acts : (r \in asmts) = runs[r].assessed
    <2>1. runs \in Seq(RunRows)
        BY DEF SeedInv, TypeOK
    <2>2. \A r \in DOMAIN runs : runs[r] \in RunRows
        BY <2>1
    <2>3. \A r \in DOMAIN runs : runs[r].assessed \in BOOLEAN
        BY <2>2 DEF RunRows
    <2> QED BY <1>1, <1>3, <2>3 DEF AsmtsNow
<1> QED BY <1>3, <1>4, <1>5 DEF Seen, Settled

LEMMA GradeStep ==
    ASSUME SeedInv, Grade
    PROVE  SeedInv'
<1> DEFINE effects == EffectValues(Seen, report.run)
<1>1. /\ UNCHANGED <<svcVars, setup, db, runs, outcome, report, left, acts, asmts, unread>>
      /\ pc = "grade" /\ pc' = "done" /\ Closed
    BY DEF Grade, SeedInv, ServerInv, RecordInv
<1>2. \/ record' = Graded(effects)
      \/ \E why \in {"report", "provenance"} : record' = Error(why)
      \/ record' = Error("harness") /\ NothingMeasured
    BY DEF Grade
<1>3. /\ effects \in [Metrics -> Values]
      /\ SelectionBasis(Seen, report.run) \in {"named", "fallback_last", "nothing"}
    BY <1>1, SeenRuns, EffectValuesType
<1>4. /\ record' = Graded(effects) => /\ record'.kind = "graded"
                                      /\ record'.passed = Passes(effects)
                                      /\ record'.effects = effects
                                      /\ record'.basis = SelectionBasis(Seen, report.run)
      /\ \A why : record' = Error(why) => record'.kind = "error" /\ record'.why = why
    BY DEF Graded, Error
<1>5. record'.kind = "graded" => record' = Graded(effects)
    BY <1>2, <1>4
<1> HIDE DEF effects
<1>6. TypeOK' /\ ServerInv' /\ RowsInv' /\ LeftInv'
    BY <1>1, <1>2, <1>3, <1>4, PlaceStep DEF SeedInv, TypeOK
<1>7. ReadInv' /\ RecordInv'
    <2>1. record'.kind = "error" => record'.why \in {"report", "harness", "provenance"}
        BY <1>2, <1>4
    <2> QED BY <1>1, <2>1 DEF ReadInv, RecordInv
<1>8. PassIsEarned'
    <2> SUFFICES ASSUME record'.kind = "graded", record'.passed, NEW m \in Required
                 PROVE  \E r \in DOMAIN runs :
                            /\ runs[r].act = "completed" /\ runs[r].assessed
                            /\ runs[r].mode = ModeOf[m] /\ runs[r].vals[m] = "right"
                            /\ m \in Summary \/ runs[r].final
        BY <1>1 DEF PassIsEarned
    <2>1. effects[m] = "right" /\ m \in Metrics
        BY <1>4, <1>5, MetricAssumption DEF Passes
    <2>2. EffectValue(Seen, m, report.run) = "right"
        BY <2>1 DEF effects, EffectValues
    <2> QED BY <1>1, <2>1, <2>2, GradedValue
<1>9. NamedRunIsGraded'
    <2> SUFFICES ASSUME record'.kind = "graded", ~unread, report.run \in DOMAIN left,
                        Written(left[report.run]), NEW m \in Metrics,
                        ModeOf[m] = left[report.run].mode
                 PROVE  record'.effects[m] = left[report.run].vals[m]
        BY <1>1 DEF NamedRunIsGraded, Written
    <2>1. record'.effects[m] = EffectValue(Seen, m, report.run)
        BY <1>4, <1>5 DEF effects, EffectValues
    <2> QED BY <1>1, <2>1, NamedValue
<1>10. HarnessErrorsLoseNothing'
    <2> SUFFICES ASSUME record' = Error("harness"), ~unread
                 PROVE  /\ \A r \in DOMAIN left : left[r].act # "completed"
                        /\ svc = "closed" => \A r \in DOMAIN runs : runs[r].act # "completed"
        BY <1>1 DEF HarnessErrorsLoseNothing, svcVars
    <2>1. \A r \in DOMAIN Seen : ~Seen[r].ok
        <3>1. record'.kind = "error" /\ record'.why = "harness"
            BY <1>4
        <3> QED BY <1>2, <1>4, <3>1 DEF NothingMeasured
    <2>2. \A r \in DOMAIN acts : ~acts[r]
        <3> SUFFICES ASSUME NEW r \in DOMAIN acts PROVE ~acts[r]
            OBVIOUS
        <3>1. /\ runs[r] \in RunRows /\ acts[r] \in BOOLEAN /\ r \in DOMAIN Seen
              /\ Seen[r] = Effect(runs[r], acts[r], r \in asmts, runs[r].final)
            BY <1>1, SeenRuns
        <3>2. Seen[r].ok = acts[r]
            BY <3>1 DEF Effect
        <3> QED BY <2>1, <3>1, <3>2
    <2>3. \A r \in DOMAIN left : left[r].act # "completed"
        BY <1>1, <2>2 DEF SeedInv, ReadInv
    <2>4. ASSUME svc = "closed", NEW r \in DOMAIN runs, runs[r].act = "completed"
          PROVE  FALSE
        <3>1. acts = ActsNow /\ db = "ready"
            BY <1>1, <2>4 DEF SeedInv, ReadInv, RowsInv
        <3>2. r \in DOMAIN ActsNow /\ ActsNow[r]
            BY <2>4, <3>1 DEF ActsNow
        <3> QED BY <2>2, <3>1, <3>2
    <2> QED BY <2>3, <2>4
<1>11. VerdictReproducible'
    <2> SUFFICES ASSUME svc = "closed", record'.kind = "graded", ~unread
                 PROVE  /\ record'.effects = EffectValues(Settled, report.run)
                        /\ record'.basis = SelectionBasis(Settled, report.run)
        BY <1>1 DEF VerdictReproducible, svcVars, Settled
    <2> QED BY <1>1, <1>4, <1>5, SeenIsSettled DEF effects
<1>12. GradedRunIsRecent'
    <2> SUFFICES ASSUME record'.kind = "graded", ~unread, NEW m \in Metrics, NEW r \in DOMAIN left,
                        Written(left[r]), left[r].mode = ModeOf[m]
                 PROVE  \E i \in DOMAIN runs :
                            /\ i >= r \/ i = report.run
                            /\ runs[i].act = "completed" /\ runs[i].mode = ModeOf[m]
                            /\ \/ record'.effects[m] = runs[i].vals[m]
                               \/ record'.effects[m] = "none" /\ m \notin Summary /\ i # r
        BY <1>1 DEF GradedRunIsRecent, Written
    <2>1. record'.effects[m] = EffectValue(Seen, m, report.run)
        BY <1>4, <1>5 DEF effects, EffectValues
    <2> QED BY <1>1, <2>1, RecentValue
<1> QED BY <1>6, <1>7, <1>8, <1>9, <1>10, <1>11, <1>12 DEF SeedInv, VerdictInv

-----------------------------------------------------------------------------
(* The invariant, and what follows.                                        *)

LEMMA SeedInvStep == SeedInv /\ [Next]_vars => SeedInv'
<1> SUFFICES ASSUME SeedInv, [Next]_vars PROVE SeedInv'
    OBVIOUS
<1>1. CASE Runner
    BY <1>1, ServerSteps, ProcessSteps, LeaveStep, ReadSteps, GradeStep DEF Runner
<1>2. CASE External
    BY <1>2, ProcessSteps, RowStepKeeps, DriverSteps DEF External, RowStep
<1>3. CASE DriverTimesOut
    BY <1>3, DriverSteps
<1>4. CASE UNCHANGED vars
    <2>1. Kept /\ UNCHANGED <<svcVars, runs, db>>
        BY <1>4 DEF vars, Kept
    <2>2. ServiceTypeOK' /\ ServerInv' /\ RowsInv' /\ db' \in {"absent", "bare", "ready"}
        BY <2>1 DEF Kept, svcVars, SeedInv, TypeOK, ServiceTypeOK, ServerInv, RowsInv, Closed, Http
    <2> QED BY <2>1, <2>2, QuietStep DEF svcVars
<1> QED BY <1>1, <1>2, <1>3, <1>4 DEF Next, Over

LEMMA SeedInvAlways == Spec => []SeedInv
BY SeedInvInit, SeedInvStep, PTL DEF Spec

(* A seed's state keeps its types. *)
THEOREM SeedTyping == Spec => []TypeOK
<1>1. SeedInv => TypeOK
    BY DEF SeedInv
<1> QED BY <1>1, SeedInvAlways, PTL

(* Whatever an agent runs, breaks off or claims, a seed passes only on runs  *)
(* that completed in the right mode with the right values (oracle.py:38-40).   *)
THEOREM PassesAreEarned == Spec => []PassIsEarned
<1>1. SeedInv => PassIsEarned
    BY DEF SeedInv, VerdictInv
<1> QED BY <1>1, SeedInvAlways, PTL

(* The run the report names is what is graded if it had succeeded, however   *)
(* many runs follow it and however the driver ended (oracle.py:208-242).  *)
THEOREM NamedRunsAreGraded == Spec => []NamedRunIsGraded
<1>1. SeedInv => NamedRunIsGraded
    BY DEF SeedInv, VerdictInv
<1> QED BY <1>1, SeedInvAlways, PTL

(* No run that had succeeded is passed over for an earlier one, unless the   *)
(* report names that (oracle.py:208-225).                                    *)
THEOREM LaterWorkIsNeverPassedOver == Spec => []GradedRunIsRecent
<1>1. SeedInv => GradedRunIsRecent
    BY DEF SeedInv, VerdictInv
<1> QED BY <1>1, SeedInvAlways, PTL

(* A seed made an error for its exit status had no completed run when the    *)
(* harness exited, and none shows up later (run.py:273-280).                 *)
THEOREM HarnessErrorsHadNoWork == Spec => []HarnessErrorsLoseNothing
<1>1. SeedInv => HarnessErrorsLoseNothing
    BY DEF SeedInv, VerdictInv
<1> QED BY <1>1, SeedInvAlways, PTL

(* After a teardown that signalled the group, grading again what is in the   *)
(* DB gives the values and the basis on record.                              *)
THEOREM VerdictsAreReproducible == Spec => []VerdictReproducible
<1>1. SeedInv => VerdictReproducible
    BY DEF SeedInv, VerdictInv
<1> QED BY <1>1, SeedInvAlways, PTL

(* No omd server outlives the grading of its seed (omd_service.py:144-168). *)
THEOREM ServersNeverLeak == Spec => []ServerNeverLeaks
<1>1. SeedInv => ServerNeverLeaks
    BY DEF SeedInv, ServerInv, Closed, Alive, ServerNeverLeaks
<1> QED BY <1>1, SeedInvAlways, PTL
================================================================================
