------------------------------- MODULE Campaign -------------------------------
(***************************************************************************)
(* run_campaign and the run_matrix loop it drives: preflight, then for each *)
(* cell of the manifests skip it, halt before it, resume it or start it    *)
(* afresh; each seed's record is flushed as it finishes; the table is      *)
(* re-rendered after every cell; a regrade closes the run however it ends. *)
(*                                                                         *)
(* One runner process at a time works on the results directory.  It may be *)
(* interrupted (Ctrl-C), killed, or fail to write; the operator may start  *)
(* it again, with or without --force, and with another manifest.           *)
(*                                                                         *)
(* Every cell of the shipped manifests has exactly one harness, so a cell  *)
(* is a case and an arm and its file holds rows of that one arm.           *)
(***************************************************************************)
EXTENDS RecordStore, Sequences

CONSTANTS
    Anchor,     \* arms that run on the Claude credential
    Plans,      \* the cell sequences the operator may launch (arm, composite, --only)
    Wants,      \* seeds per cell the manifests may ask for
    Faults,     \* kinds of trouble this instance meets
    MaxFaults,  \* bound: how many of them happen
    MaxForced   \* bound: how many campaigns are forced

FaultKinds == {"crash", "tear", "interrupt", "write", "orphan"}

ASSUME AnchorAssumption == Anchor \subseteq Models
ASSUME PlansAssumption  == Plans \subseteq Seq(Cells)
ASSUME WantsAssumption  == Wants \subseteq 1 .. MaxSeeds
ASSUME FaultsAssumption == Faults \subseteq FaultKinds /\ MaxFaults \in Nat /\ MaxForced \in Nat

VARIABLES
    pc,         \* where the runner is
    plan,       \* the cells of this campaign, in order
    force,      \* --force
    want,       \* config.seeds
    idx,        \* the cell the case loop is at
    file,       \* the records file run_matrix has open
    todo,       \* seeds the loop of run_matrix has still to run
    table,      \* table.md: one summary per tabulated cell
    entries,    \* manifest.json "cases": what became of each cell
    ran,        \* <<cell, seed>> pairs this campaign ran
    stop,       \* "no", "halt" or "raise": why the case loop was left
    exit,       \* how the last campaign ended
    last,       \* the newest stamp given out
    sameSecond, \* that stamp's second may not be over
    faults,     \* troubles so far
    forced      \* forced campaigns so far

runVars   == <<plan, force, want>>
clockVars == <<last, sameSecond>>
bounds    == <<faults, forced>>
vars == <<diskVars, pc, runVars, idx, file, todo, table, entries, ran, stop, exit,
          clockVars, bounds>>

Cell == plan[idx]
Arm  == Cell[2]
Status == CaseStatus(Cell, want)
InPlan == idx <= Len(plan)

Summary(f, m) == [file |-> f, arm |-> m, seeds |-> Regrade(f, m)]
Entry(st)     == [cell |-> Cell, status |-> st]

Trouble(kind) ==
    /\ kind \in Faults
    /\ faults < MaxFaults
    /\ faults' = faults + 1

Init ==
    /\ DiskInit
    /\ pc = "idle"
    /\ plan = <<>> /\ force = FALSE /\ want = 1
    /\ idx = 1
    /\ file = CHOOSE f \in Files : TRUE
    /\ todo = {}
    /\ table = <<>> /\ entries = <<>> /\ ran = {}
    /\ stop = "no" /\ exit = "none"
    /\ last = 0 /\ sameSecond = FALSE
    /\ faults = 0 /\ forced = 0

-----------------------------------------------------------------------------
(* The operator launches a campaign.                                       *)

Launch(p, f, w) ==
    /\ pc = "idle"
    /\ IF f THEN forced < MaxForced /\ forced' = forced + 1 ELSE UNCHANGED forced
    /\ pc' = "preflight"
    /\ plan' = p /\ force' = f /\ want' = w
    /\ idx' = 1 /\ table' = <<>> /\ entries' = <<>> /\ ran' = {}
    /\ stop' = "no" /\ exit' = "none"
    /\ sameSecond' = FALSE
    /\ UNCHANGED <<diskVars, file, todo, last, faults>>

PreflightPasses ==
    /\ pc = "preflight"
    /\ pc' = "case"
    /\ UNCHANGED <<diskVars, runVars, idx, file, todo, table, entries, ran, stop,
                   exit, clockVars, bounds>>

PreflightFails ==
    /\ pc = "preflight"
    /\ stop' = "halt" /\ pc' = "finish"
    /\ UNCHANGED <<diskVars, runVars, idx, file, todo, table, entries, ran, exit,
                   clockVars, bounds>>

-----------------------------------------------------------------------------
(* The case loop.                                                          *)

(* A graded cell is tabulated from its records and left alone. *)
SkipCase ==
    /\ pc = "case" /\ InPlan
    /\ Status = "graded" /\ ~force
    /\ table' = Append(table, Summary(AnswerFile(Cell), Arm))
    /\ entries' = Append(entries, Entry("skipped"))
    /\ idx' = idx + 1
    /\ UNCHANGED <<diskVars, pc, runVars, file, todo, ran, stop, exit, clockVars, bounds>>

MustRun == pc = "case" /\ InPlan /\ (Status # "graded" \/ force)

(* The credential is probed only before a cell that uses it. *)
ProbeFails ==
    /\ MustRun /\ Arm \in Anchor
    /\ stop' = "halt" /\ pc' = "finish"
    /\ UNCHANGED <<diskVars, runVars, idx, file, todo, table, entries, ran, exit,
                   clockVars, bounds>>

(* Fault: a partial cell is started again rather than resumed. *)
NeverResumes == FALSE

Resumes == Status = "resumable" /\ AnswerFile(Cell) \in manifest

(* Fault: the seeds are counted from one. *)
RangeFromOne == 1 .. want

SeedRange == {s \in Seeds : s < want}

ResumeWithout(done) ==
    /\ MustRun /\ Resumes
    /\ file' = AnswerFile(Cell)
    /\ todo' = SeedRange \ done
    /\ pc' = "seed"
    /\ UNCHANGED <<diskVars, runVars, idx, table, entries, ran, stop, exit, clockVars,
                   bounds>>

(* Faults: nothing is reused; error rows are reused like results. *)
ResumeRerunningAll == ResumeWithout({})
ResumeKeepingErrors == ResumeWithout(Found(AnswerFile(Cell), Arm))

(* load_resume_records drops the error rows: those seeds run again. *)
ResumeCase == ResumeWithout(GradedIn(AnswerFile(Cell), Arm))

StartUnder(stamp) ==
    /\ MustRun /\ ~Resumes
    /\ OpenFresh(<<Cell[1], stamp>>)
    /\ file' = <<Cell[1], stamp>>
    /\ todo' = SeedRange
    /\ last' = stamp /\ sameSecond' = TRUE
    /\ pc' = "seed"
    /\ UNCHANGED <<runVars, idx, table, entries, ran, stop, exit, bounds>>

(* Fault: every case of a campaign starts under the campaign's own stamp. *)
StartUnderCampaignStamp(stamp) ==
    /\ stamp = IF entries = <<>> THEN last + 1 ELSE last
    /\ StartUnder(stamp)

(* Not started, forced, or records without a manifest: a new file under a new *)
(* stamp.  Stamps have one-second resolution, so a run that starts within the *)
(* second of the last one gets the same stamp.                                *)
StartCase(stamp) ==
    /\ stamp \in {last + 1} \cup (IF sameSecond THEN {last} ELSE {})
    /\ StartUnder(stamp)

AllCasesDone ==
    /\ pc = "case" /\ ~InPlan
    /\ pc' = "finish"
    /\ UNCHANGED <<diskVars, runVars, idx, file, todo, table, entries, ran, stop, exit,
                   clockVars, bounds>>

-----------------------------------------------------------------------------
(* The seed loop of run_matrix.                                            *)

(* Fault: the seeds run last to first. *)
HighestSeed == CHOOSE s \in todo : \A u \in todo : u <= s

NextSeed == CHOOSE s \in todo : \A u \in todo : s <= u

(* run_cell returned a record, or raised and became an error row.  A graded *)
(* seed has taken an agent run, so its second is over.                      *)
RunSeed(v) ==
    /\ pc = "seed" /\ todo # {}
    /\ AppendRow(file, Arm, NextSeed, v)
    /\ todo' = todo \ {NextSeed}
    /\ ran' = ran \cup {<<Cell, NextSeed>>}
    /\ sameSecond' = (sameSecond /\ v = "error")
    /\ UNCHANGED <<pc, runVars, idx, file, table, entries, stop, exit, last, bounds>>

(* Every seed has a row: regrade the file, tabulate it, ask for its status. *)
EndCase ==
    /\ pc = "seed" /\ todo = {}
    /\ table' = Append(table, Summary(file, Arm))
    /\ entries' = Append(entries, Entry(Status))
    /\ idx' = idx + 1 /\ pc' = "case"
    /\ UNCHANGED <<diskVars, runVars, file, todo, ran, stop, exit, clockVars, bounds>>

(* An exception escapes run_matrix (disk full): the case is entered as failed, *)
(* a record being written may be left cut short, and the campaign goes on.     *)
WriteFails ==
    /\ pc = "seed"
    /\ Trouble("write")
    /\ \/ todo # {} /\ "tear" \in Faults /\ TearFile(file)
       \/ UNCHANGED diskVars
    /\ entries' = Append(entries, Entry("failed"))
    /\ idx' = idx + 1 /\ pc' = "case"
    /\ UNCHANGED <<runVars, file, todo, table, ran, stop, exit, clockVars, forced>>

-----------------------------------------------------------------------------
(* Ends.                                                                   *)

(* Ctrl-C inside a case is caught; anywhere else it unwinds through finally. *)
Interrupt ==
    /\ pc # "idle"
    /\ Trouble("interrupt")
    /\ pc' = "finish"
    /\ IF pc = "seed"
       THEN stop' = "halt" /\ entries' = Append(entries, Entry("interrupted"))
       ELSE stop' = "raise" /\ UNCHANGED entries
    /\ UNCHANGED <<diskVars, runVars, idx, file, todo, table, ran, exit, clockVars, forced>>

FinishWith(code) ==
    /\ pc = "finish"
    /\ exit' = code
    /\ pc' = "idle" /\ idx' = 1 /\ todo' = {}
    /\ UNCHANGED <<diskVars, runVars, file, table, entries, ran, stop, clockVars, bounds>>

(* Fault: a halted campaign reports success. *)
FinishQuietly == FinishWith(IF torn # {} \/ stop = "raise" THEN "raised" ELSE "0")

(* _finish regrades every file of the directory; an unreadable one raises. *)
Finish == FinishWith(IF torn # {} \/ stop = "raise" THEN "raised"
                     ELSE IF stop = "halt" THEN "1" ELSE "0")

(* The runner is killed; mid-write, the line it was writing stays partial. *)
Crash ==
    /\ pc # "idle"
    /\ Trouble("crash")
    /\ \/ pc = "seed" /\ todo # {} /\ "tear" \in Faults /\ TearFile(file)
       \/ UNCHANGED diskVars
    /\ exit' = "killed" /\ pc' = "idle" /\ idx' = 1 /\ todo' = {}
    /\ UNCHANGED <<runVars, file, table, entries, ran, stop, clockVars, forced>>

(* Someone removes a manifest and leaves its records. *)
LoseManifest(f) ==
    /\ pc = "idle" /\ f \in manifest
    /\ Trouble("orphan")
    /\ manifest' = manifest \ {f}
    /\ UNCHANGED <<rows, torn, pc, runVars, idx, file, todo, table, entries, ran, stop,
                   exit, clockVars, forced>>

-----------------------------------------------------------------------------
Runner ==
    \/ PreflightPasses \/ PreflightFails
    \/ SkipCase \/ ProbeFails \/ ResumeCase
    \/ \E t \in Stamps : StartCase(t)
    \/ AllCasesDone
    \/ \E v \in Row \ {"none"} : RunSeed(v)
    \/ EndCase \/ Finish

Environment ==
    \/ \E p \in Plans, f \in BOOLEAN, w \in Wants : Launch(p, f, w)
    \/ WriteFails \/ Interrupt \/ Crash
    \/ \E f \in Files : LoseManifest(f)

Next == Runner \/ Environment

Spec == Init /\ [][Next]_vars

(* The operator keeps launching each manifest without --force, the runner      *)
(* keeps running, and whatever fails a check or loses a seed does not last: a  *)
(* step that is possible again and again is at some point taken.               *)
FairSpec ==
    /\ Spec
    /\ WF_vars(SkipCase) /\ WF_vars(AllCasesDone) /\ WF_vars(EndCase) /\ WF_vars(Finish)
    /\ SF_vars(\E v \in Graded : RunSeed(v))
    /\ \A w \in Wants :
          /\ SF_vars(want = w /\ ResumeCase)
          /\ SF_vars(want = w /\ \E t \in Stamps : StartCase(t))
          /\ \A p \in Plans : /\ SF_vars(Launch(p, FALSE, w))
                            /\ SF_vars(plan = p /\ want = w /\ PreflightPasses)

-----------------------------------------------------------------------------
(* Properties.                                                             *)

Summaries == [file : Files, arm : Models, seeds : UNION {[S -> Row] : S \in SUBSET Seeds}]
Entries   == [cell : Cells, status : {"skipped", "failed", "interrupted",
                                      "graded", "resumable", "not_started"}]

TypeOK ==
    /\ DiskTypeOK
    /\ pc \in {"idle", "preflight", "case", "seed", "finish"}
    /\ plan \in Seq(Cells) /\ force \in BOOLEAN /\ want \in 1 .. MaxSeeds
    /\ idx \in Nat \ {0} /\ file \in Files /\ todo \subseteq Seeds
    /\ table \in Seq(Summaries) /\ entries \in Seq(Entries)
    /\ ran \subseteq Cells \X Seeds
    /\ stop \in {"no", "halt", "raise"}
    /\ exit \in {"none", "0", "1", "raised", "killed"}
    /\ last \in 0 .. MaxStamp /\ sameSecond \in BOOLEAN
    /\ faults \in Nat /\ forced \in Nat

(* The seeds recorded in a file are 0 .. k for some k: there is never a gap, *)
(* whatever was interrupted, resumed, or asked for with fewer seeds.         *)
(* case_status counts rows where it means "all of them"; this is why it may. *)
SeedsFormPrefix ==
    \A f \in Files, m \in Models :
        \A s \in Found(f, m) : \A u \in Seeds : u < s => u \in Found(f, m)

(* A records file holds one arm.  regrade_file tabulates every cell of a file *)
(* in the name of the case that was skipped or run: two arms in one file would *)
(* count seeds twice.                                                          *)
OneArmPerFile ==
    \A f \in Files : \A m, n \in Models :
        Found(f, m) # {} /\ Found(f, n) # {} => m = n

(* The safety of the records rests on two facts about the run in progress.  *)

(* The file run_matrix has open belongs to the cell the case loop is at, was *)
(* named by a stamp already given out, holds that arm only, and has a row    *)
(* for every seed it is not going to run; no seed it will run is graded.     *)
Placed ==
    pc = "seed" =>
        /\ file[1] = Cell[1] /\ file[2] <= last
        /\ \A m \in Models \ {Arm} : Found(file, m) = {}
        /\ \A s \in todo : rows[file][Arm][s] \notin Graded
        /\ \A s \in todo, u \in Seeds : u < s => u \in todo \cup Found(file, Arm)

(* Stamps not given out yet name no records; while a stamp may be given out *)
(* a second time, its files hold no result.                                 *)
ClockInv ==
    \A f \in Files, m \in Models :
        /\ f[2] > last => Found(f, m) = {}
        /\ sameSecond /\ f[2] = last => GradedIn(f, m) = {}

RecordsInv == Placed /\ ClockInv /\ SeedsFormPrefix /\ OneArmPerFile

(* "graded" is only ever said of a cell all of whose wanted seeds have a result *)
(* in the file that answers for it: no lost seed hides behind a skip.           *)
GradedMeansComplete ==
    \A c \in Cells, w \in 1 .. MaxSeeds :
        CaseStatus(c, w) = "graded" => \A s \in Seeds : s < w => Verdict(c, s) \in Graded

(* A campaign that ends with status 0 has an entry for every cell of its plan, *)
(* and the cells it calls done are complete on disk.                           *)
ZeroExitAccountsForPlan ==
    exit = "0" =>
        /\ Len(entries) = Len(plan)
        /\ \A i \in DOMAIN entries :
              /\ entries[i].cell = plan[i]
              /\ entries[i].status \in {"skipped", "graded"} =>
                    \A s \in Seeds : s < want => Verdict(plan[i], s) \in Graded

(* Every result the live table shows is still in the file it was read from: *)
(* no later cell of the campaign, not even one that starts within the same  *)
(* second, overwrites it.                                                   *)
TabulatedResultsOnDisk ==
    \A i \in DOMAIN table : \A s \in DOMAIN table[i].seeds :
        table[i].seeds[s] \in Graded =>
            rows[table[i].file][table[i].arm][s] = table[i].seeds[s]

(* A graded row is never changed or truncated away once it is written. *)
GradedRowsPermanent ==
    [][\A f \in Files, m \in Models : \A s \in GradedIn(f, m) :
          rows'[f][m][s] = rows[f][m][s]]_vars

(* Honest resume: unless the operator forces it, a seed runs only when the     *)
(* newest file with rows of its cell has no result for it, or that file was    *)
(* damaged (its last line torn, its manifest lost).                            *)
Held(c) == {t \in Stamps : Found(<<c[1], t>>, c[2]) # {}}
NewestHeld(c) == <<c[1], CHOOSE t \in Held(c) : \A u \in Held(c) : u <= t>>
HeldGraded(c, s) == Held(c) # {} /\ rows[NewestHeld(c)][c[2]][s] \in Graded
Damaged(f) == f \in torn \/ f \notin manifest

NoResampling ==
    [][\A cs \in ran' \ ran :
         force \/ ~HeldGraded(cs[1], cs[2]) \/ Damaged(NewestHeld(cs[1]))]_vars

(* Re-running the same command finishes the measurement: from some point on *)
(* every cell of every plan is graded.                                      *)
EventuallyGraded ==
    <>[](\A p \in Plans, w \in Wants : \A i \in DOMAIN p : CaseStatus(p[i], w) = "graded")

(* Seen through case_status's choice of file, the directory is a ledger that *)
(* only forced campaigns start over (module SeedLedger).                     *)
Ledger == INSTANCE SeedLedger
            WITH ledger <- [c \in Cells |-> [s \in Seeds |-> Verdict(c, s)]]
ImplementsLedger == Ledger!LedgerSpec
=============================================================================
