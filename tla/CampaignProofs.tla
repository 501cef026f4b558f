---------------------------- MODULE CampaignProofs ----------------------------
(***************************************************************************)
(* Proofs about Campaign, for every set of cases and arms, every plan, any *)
(* number of seeds, stamps and faults.                                     *)
(***************************************************************************)
EXTENDS Campaign, NaturalLemmas, FiniteSetTheorems

(* The scan of case_status returns the newest of the files that answer. *)
LEMMA NewestStampAnswers ==
    ASSUME NEW c \in Cells, Answering(c) # {}
    PROVE  /\ NewestStamp(c) \in Answering(c)
           /\ NewestStamp(c) \in Stamps
           /\ \A u \in Answering(c) : u <= NewestStamp(c)
           /\ AnswerFile(c) \in Files
           /\ AnswerFile(c)[1] = c[1]
           /\ AnswerFile(c)[2] = NewestStamp(c)
           /\ Found(AnswerFile(c), c[2]) # {}
           /\ AnswerFile(c) \notin torn
<1>1. Answering(c) \in SUBSET (1 .. MaxStamp)
    BY DEF Answering, Stamps
<1>2. \E t \in Answering(c) : \A u \in Answering(c) : u <= t
    BY <1>1, GreatestElement, BoundsAssumption
<1>3. /\ NewestStamp(c) \in Answering(c)
      /\ \A u \in Answering(c) : u <= NewestStamp(c)
    BY <1>2 DEF NewestStamp
<1> QED BY <1>3 DEF Answering, AnswerFile, Files, Stamps, Cells

(* A cell that is resumed has rows of its arm in the file that answers. *)
LEMMA ResumableAnswers ==
    ASSUME NEW c \in Cells, NEW w, CaseStatus(c, w) # "not_started"
    PROVE  Answering(c) # {}
BY DEF CaseStatus

LEMMA NextSeedIsLeast ==
    ASSUME todo \subseteq Seeds, todo # {}
    PROVE  NextSeed \in todo /\ \A u \in todo : NextSeed <= u
<1>1. todo \in SUBSET Nat
    BY DEF Seeds
<1>2. \E s \in todo : \A u \in todo : s <= u
    BY <1>1, LeastElement
<1> QED BY <1>2 DEF NextSeed
-----------------------------------------------------------------------------
(* Type correctness.  A step inside a case reads plan[idx], so the type     *)
(* invariant is inductive only together with idx staying within the plan.  *)

InCase == pc = "seed" => InPlan
TypeInv == TypeOK /\ InCase

LEMMA CellType ==
    ASSUME TypeOK, InPlan
    PROVE  /\ Cell \in Cells /\ Arm \in Models /\ Cell[1] \in Cases
           /\ Cell = <<Cell[1], Arm>>
BY DEF TypeOK, InPlan, Cell, Arm, Cells

LEMMA StatusType ==
    ASSUME NEW c, NEW w
    PROVE  CaseStatus(c, w) \in {"graded", "resumable", "not_started"}
BY DEF CaseStatus

LEMMA SummaryType ==
    ASSUME TypeOK, NEW f \in Files, NEW m \in Models
    PROVE  Summary(f, m) \in Summaries
<1>1. Found(f, m) \in SUBSET Seeds
    BY DEF Found
<1>2. Regrade(f, m) \in [Found(f, m) -> Row]
    BY <1>1 DEF Regrade, TypeOK, DiskTypeOK
<1>3. Regrade(f, m) \in UNION {[S -> Row] : S \in SUBSET Seeds}
    BY <1>1, <1>2
<1> QED BY <1>3 DEF Summary, Summaries

LEMMA EntryType ==
    ASSUME TypeOK, InPlan,
           NEW st \in {"skipped", "failed", "interrupted", "graded", "resumable", "not_started"}
    PROVE  Entry(st) \in Entries
BY CellType DEF Entry, Entries

LEMMA OpenFreshType ==
    ASSUME DiskTypeOK, NEW f \in Files, OpenFresh(f)
    PROVE  DiskTypeOK'
BY DEF DiskTypeOK, OpenFresh, EmptyFile, Row

LEMMA AppendRowType ==
    ASSUME DiskTypeOK, NEW f \in Files, NEW m \in Models, NEW s \in Seeds, NEW v \in Row,
           AppendRow(f, m, s, v)
    PROVE  DiskTypeOK'
BY DEF DiskTypeOK, AppendRow

LEMMA TypeInvInit == Init => TypeInv
<1> SUFFICES ASSUME Init PROVE TypeInv
    OBVIOUS
<1>1. Files # {}
    <2>1. PICK c \in Cases : TRUE
        BY CasesAssumption
    <2>2. 1 \in Stamps
        BY BoundsAssumption DEF Stamps
    <2>3. <<c, 1>> \in Files
        BY <2>1, <2>2 DEF Files
    <2> QED BY <2>3
<1>2. file \in Files
    BY <1>1 DEF Init
<1>3. DiskTypeOK
    BY DEF Init, DiskInit, DiskTypeOK, EmptyFile, Row
<1>4. want \in 1 .. MaxSeeds /\ last \in 0 .. MaxStamp
    BY BoundsAssumption DEF Init
<1>5. plan \in Seq(Cells) /\ table \in Seq(Summaries) /\ entries \in Seq(Entries) /\ InCase
    BY DEF Init, InCase
<1>6. force \in BOOLEAN /\ sameSecond \in BOOLEAN
    BY Zenon DEF Init
<1>7. TypeOK
    BY <1>2, <1>3, <1>4, <1>5, <1>6 DEF Init, TypeOK
<1> QED BY <1>5, <1>7 DEF TypeInv

LEMMA TypeInvStep == TypeInv /\ [Next]_vars => TypeInv'
<1> SUFFICES ASSUME TypeInv, [Next]_vars PROVE TypeInv'
    OBVIOUS
<1> USE DEF TypeInv
<1>0. TypeOK /\ InCase
    OBVIOUS
<1>1. ASSUME NEW p \in Plans, NEW f \in BOOLEAN, NEW w \in Wants, Launch(p, f, w)
      PROVE  TypeInv'
    <2>1. p \in Seq(Cells) /\ w \in 1 .. MaxSeeds
        BY PlansAssumption, WantsAssumption
    <2>2. DiskTypeOK' /\ InCase'
        BY <1>1 DEF Launch, TypeOK, DiskTypeOK, InCase, diskVars
    <2>3. forced' \in Nat
        BY <1>1 DEF Launch, TypeOK
    <2>4. table' = <<>> /\ entries' = <<>>
        BY <1>1 DEF Launch
    <2>5. table' \in Seq(Summaries) /\ entries' \in Seq(Entries)
        BY <2>4
    <2>6. force' \in BOOLEAN /\ sameSecond' \in BOOLEAN
        BY <1>1, Zenon DEF Launch
    <2> QED BY <1>1, <2>1, <2>2, <2>3, <2>5, <2>6 DEF Launch, TypeOK
<1>2. CASE PreflightPasses
    BY <1>2 DEF PreflightPasses, TypeOK, DiskTypeOK, InCase, diskVars, runVars, clockVars, bounds
<1>3. CASE PreflightFails
    BY <1>3 DEF PreflightFails, TypeOK, DiskTypeOK, InCase, diskVars, runVars, clockVars, bounds
<1>4. CASE SkipCase
    <2>1. InPlan /\ Answering(Cell) # {}
        BY <1>4 DEF SkipCase, Status, CaseStatus
    <2>2. AnswerFile(Cell) \in Files /\ Arm \in Models
        BY <2>1, CellType, NewestStampAnswers
    <2>3. table' \in Seq(Summaries)
        BY <1>4, <2>2, SummaryType DEF SkipCase, TypeOK
    <2>4. entries' \in Seq(Entries)
        BY <1>4, <2>1, EntryType DEF SkipCase, TypeOK
    <2> QED BY <1>4, <2>3, <2>4
            DEF SkipCase, TypeOK, DiskTypeOK, InCase, diskVars, runVars, clockVars, bounds
<1>5. CASE ProbeFails
    BY <1>5 DEF ProbeFails, MustRun, TypeOK, DiskTypeOK, InCase, diskVars, runVars,
                clockVars, bounds
<1>6. CASE ResumeCase
    <2>1. InPlan /\ Answering(Cell) # {}
        BY <1>6 DEF ResumeCase, ResumeWithout, MustRun, Resumes, Status, CaseStatus
    <2>2. AnswerFile(Cell) \in Files
        BY <2>1, CellType, NewestStampAnswers
    <2>3. todo' \subseteq Seeds
        BY <1>6 DEF ResumeCase, ResumeWithout, SeedRange
    <2> QED BY <1>6, <2>1, <2>2, <2>3
            DEF ResumeCase, ResumeWithout, TypeOK, DiskTypeOK, InCase, InPlan, diskVars,
                runVars, clockVars, bounds
<1>7. ASSUME NEW t \in Stamps, StartCase(t) PROVE TypeInv'
    <2>1. InPlan
        BY <1>7 DEF StartCase, StartUnder, MustRun
    <2>2. <<Cell[1], t>> \in Files
        BY <2>1, CellType DEF Files
    <2>3. DiskTypeOK'
        BY <1>7, <2>2, OpenFreshType DEF StartCase, StartUnder, TypeOK
    <2>4. todo' \subseteq Seeds
        BY <1>7 DEF StartCase, StartUnder, SeedRange
    <2>5. last' \in 0 .. MaxStamp
        BY <1>7, BoundsAssumption DEF StartCase, StartUnder, Stamps
    <2> QED BY <1>7, <2>1, <2>2, <2>3, <2>4, <2>5
            DEF StartCase, StartUnder, TypeOK, InCase, InPlan, runVars, bounds
<1>8. CASE AllCasesDone
    BY <1>8 DEF AllCasesDone, TypeOK, DiskTypeOK, InCase, diskVars, runVars, clockVars, bounds
<1>9. ASSUME NEW v \in Row \ {"none"}, RunSeed(v) PROVE TypeInv'
    <2>1. InPlan /\ Arm \in Models /\ Cell \in Cells
        BY <1>9, CellType DEF RunSeed, InCase
    <2>2. NextSeed \in Seeds
        BY <1>9, NextSeedIsLeast DEF RunSeed, TypeOK
    <2>3. DiskTypeOK'
        BY <1>9, <2>1, <2>2, AppendRowType DEF RunSeed, TypeOK
    <2>4. ran' \subseteq Cells \X Seeds
        BY <1>9, <2>1, <2>2 DEF RunSeed, TypeOK
    <2>5. todo' \subseteq Seeds /\ sameSecond' \in BOOLEAN
        BY <1>9 DEF RunSeed, TypeOK
    <2> QED BY <1>9, <2>1, <2>3, <2>4, <2>5
            DEF RunSeed, TypeOK, InCase, InPlan, runVars, bounds
<1>10. CASE EndCase
    <2>1. InPlan
        BY <1>10 DEF EndCase, InCase
    <2>2. table' \in Seq(Summaries)
        BY <1>10, <2>1, SummaryType, CellType DEF EndCase, TypeOK
    <2>3. entries' \in Seq(Entries)
        <3>1. Entry(Status) \in Entries
            BY <2>1, EntryType, StatusType DEF Status
        <3> QED BY <1>10, <3>1 DEF EndCase, TypeOK
    <2> QED BY <1>10, <2>2, <2>3
            DEF EndCase, TypeOK, DiskTypeOK, InCase, diskVars, runVars, clockVars, bounds
<1>11. CASE WriteFails
    <2>1. InPlan
        BY <1>11 DEF WriteFails, InCase
    <2>2. DiskTypeOK'
        BY <1>11 DEF WriteFails, TearFile, TypeOK, DiskTypeOK, diskVars
    <2>3. entries' \in Seq(Entries)
        BY <1>11, <2>1, EntryType DEF WriteFails, TypeOK
    <2> QED BY <1>11, <2>2, <2>3
            DEF WriteFails, Trouble, TypeOK, InCase, runVars, clockVars
<1>12. CASE Interrupt
    <2>1. entries' \in Seq(Entries)
        <3>1. CASE pc = "seed"
            <4>1. Entry("interrupted") \in Entries
                BY <3>1, EntryType DEF InCase
            <4> QED BY <1>12, <3>1, <4>1 DEF Interrupt, TypeOK
        <3> QED BY <1>12, <3>1 DEF Interrupt, TypeOK
    <2>2. stop' \in {"no", "halt", "raise"}
        BY <1>12 DEF Interrupt
    <2> QED BY <1>12, <2>1, <2>2
            DEF Interrupt, Trouble, TypeOK, DiskTypeOK, InCase, diskVars, runVars, clockVars
<1>13. CASE Finish
    BY <1>13 DEF Finish, FinishWith, TypeOK, DiskTypeOK, InCase, diskVars, runVars,
                 clockVars, bounds
<1>14. CASE Crash
    <2>1. DiskTypeOK'
        BY <1>14 DEF Crash, TearFile, TypeOK, DiskTypeOK, diskVars
    <2> QED BY <1>14, <2>1 DEF Crash, Trouble, TypeOK, InCase, runVars, clockVars
<1>15. ASSUME NEW f \in Files, LoseManifest(f) PROVE TypeInv'
    BY <1>15 DEF LoseManifest, Trouble, TypeOK, DiskTypeOK, InCase, runVars, clockVars
<1>16. CASE UNCHANGED vars
    BY <1>16 DEF vars, TypeOK, DiskTypeOK, InCase, InPlan, diskVars, runVars, clockVars, bounds
<1> QED BY <1>1, <1>2, <1>3, <1>4, <1>5, <1>6, <1>7, <1>8, <1>9, <1>10, <1>11, <1>12,
           <1>13, <1>14, <1>15, <1>16 DEF Next, Runner, Environment

(* Every state of the runner and of the results directory is well formed. *)
THEOREM Typing == Spec => []TypeOK
<1>1. TypeInv => TypeOK
    BY DEF TypeInv
<1> QED BY TypeInvInit, TypeInvStep, <1>1, PTL DEF Spec
-----------------------------------------------------------------------------
(* What the two writes of run_matrix do, row by row.                        *)

LEMMA AppendRowRows ==
    ASSUME DiskTypeOK, NEW f \in Files, NEW m \in Models, NEW s \in Seeds, NEW v,
           AppendRow(f, m, s, v)
    PROVE  \A g \in Files, n \in Models, u \in Seeds :
               rows'[g][n][u] = IF g = f /\ n = m /\ u = s THEN v ELSE rows[g][n][u]
BY DEF DiskTypeOK, AppendRow

LEMMA OpenFreshRows ==
    ASSUME DiskTypeOK, NEW f \in Files, OpenFresh(f)
    PROVE  \A g \in Files, n \in Models, u \in Seeds :
               rows'[g][n][u] = IF g = f THEN "none" ELSE rows[g][n][u]
BY DEF DiskTypeOK, OpenFresh, EmptyFile

(* A step that leaves the records alone, and no case open, keeps what is     *)
(* known of them.                                                            *)
LEMMA RecordsKept ==
    ASSUME RecordsInv, rows' = rows, last' = last, sameSecond' => sameSecond, pc' # "seed"
    PROVE  RecordsInv'
<1>1. Placed'
    BY DEF Placed
<1>2. ClockInv'
    BY DEF RecordsInv, ClockInv, Found, GradedIn
<1>3. SeedsFormPrefix' /\ OneArmPerFile'
    BY DEF RecordsInv, SeedsFormPrefix, OneArmPerFile, Found
<1> QED BY <1>1, <1>2, <1>3 DEF RecordsInv

(* Resuming: the answering file was written under a stamp given out, by this *)
(* arm alone; what is not graded in it is to run.                            *)
LEMMA RecordsResumed ==
    ASSUME TypeInv, RecordsInv, ResumeCase
    PROVE  RecordsInv'
<1> DEFINE f == AnswerFile(Cell)
<1>1. /\ InPlan /\ Answering(Cell) # {}
      /\ f = file' /\ todo' = SeedRange \ GradedIn(f, Arm)
      /\ plan' = plan /\ idx' = idx /\ last' = last /\ sameSecond' = sameSecond
      /\ rows' = rows
    BY DEF ResumeCase, ResumeWithout, MustRun, Resumes, Status, CaseStatus, runVars,
           clockVars, diskVars
<1>2. Cell \in Cells /\ Arm \in Models /\ Arm = Cell[2] /\ Cell' = Cell /\ Arm' = Arm
    BY <1>1, CellType DEF TypeInv, Cell, Arm
<1>3. f \in Files /\ f[1] = Cell[1] /\ Found(f, Arm) # {}
    BY <1>1, <1>2, NewestStampAnswers
<1>4. f[2] <= last
    <2>1. f[2] \in Nat /\ last \in Nat
        BY <1>3 DEF Files, Stamps, TypeInv, TypeOK
    <2> QED BY <1>2, <1>3, <2>1 DEF RecordsInv, ClockInv
<1>5. \A m \in Models \ {Arm} : Found(f, m) = {}
    BY <1>2, <1>3 DEF RecordsInv, OneArmPerFile
<1>6. \A s \in todo' : rows[f][Arm][s] \notin Graded
    BY <1>1 DEF GradedIn, SeedRange
<1>7. \A s \in todo', u \in Seeds : u < s => u \in todo' \cup Found(f, Arm)
    <2> SUFFICES ASSUME NEW s \in todo', NEW u \in Seeds, u < s,
                        u \notin Found(f, Arm)
                 PROVE  u \in todo'
        OBVIOUS
    <2>1. u \notin GradedIn(f, Arm)
        BY GradedAssumption DEF GradedIn, Found
    <2>2. s \in Seeds /\ s < want
        BY <1>1 DEF SeedRange
    <2>3. u < want
        BY <2>2 DEF Seeds, TypeInv, TypeOK
    <2> QED BY <1>1, <2>1, <2>3 DEF SeedRange
<1>8. Placed'
    BY <1>1, <1>2, <1>3, <1>4, <1>5, <1>6, <1>7 DEF Placed, Found
<1>9. ClockInv'
    BY <1>1 DEF RecordsInv, ClockInv, Found, GradedIn
<1>10. SeedsFormPrefix' /\ OneArmPerFile'
    BY <1>1 DEF RecordsInv, SeedsFormPrefix, OneArmPerFile, Found
<1> QED BY <1>8, <1>9, <1>10 DEF RecordsInv

(* Starting: the file is empty, whatever its name named before. *)
LEMMA RecordsStarted ==
    ASSUME TypeInv, RecordsInv, NEW t \in Stamps, StartCase(t)
    PROVE  RecordsInv'
<1> DEFINE f == <<Cell[1], t>>
<1>1. /\ InPlan /\ OpenFresh(f) /\ file' = f /\ todo' = SeedRange
      /\ plan' = plan /\ idx' = idx /\ last' = t
      /\ t = last + 1 \/ (sameSecond /\ t = last)
    BY DEF StartCase, StartUnder, MustRun, runVars
<1>2. Cell \in Cells /\ Arm \in Models /\ f \in Files /\ Cell' = Cell /\ Arm' = Arm
    BY <1>1, CellType DEF TypeInv, Cell, Arm, Files
<1>3. \A g \in Files, n \in Models, u \in Seeds :
          rows'[g][n][u] = IF g = f THEN "none" ELSE rows[g][n][u]
    BY <1>1, <1>2, OpenFreshRows DEF TypeInv, TypeOK
<1>4. \A g \in Files, n \in Models :
          /\ g = f => Found(g, n)' = {} /\ GradedIn(g, n)' = {}
          /\ g # f => Found(g, n)' = Found(g, n) /\ GradedIn(g, n)' = GradedIn(g, n)
    BY <1>3, GradedAssumption DEF Found, GradedIn
<1>5. todo' \subseteq Seeds /\ \A s \in todo', u \in Seeds : u < s => u \in todo'
    <2>1. \A s, u \in Seeds : s < want /\ u < s => u < want
        BY DEF Seeds, TypeInv, TypeOK
    <2> QED BY <1>1, <2>1 DEF SeedRange
<1>6. Placed'
    <2>1. file'[1] = Cell'[1] /\ file'[2] <= last'
        BY <1>1, <1>2 DEF Stamps
    <2>2. \A m \in Models : Found(f, m)' = {}
        BY <1>2, <1>4
    <2>3. \A m \in Models' : Found(file, m)' = {}
        BY <1>1, <1>2, <1>3 DEF Found
    <2>4. \A s \in todo' : rows'[file'][Arm'][s] \notin Graded
        BY <1>1, <1>2, <1>3, <1>5, GradedAssumption
    <2> QED BY <1>5, <2>1, <2>3, <2>4 DEF Placed
<1>7. ClockInv'
    <2> SUFFICES ASSUME NEW g \in Files, NEW n \in Models
                 PROVE  /\ g[2] > last' => Found(g, n)' = {}
                        /\ g[2] = last' => GradedIn(g, n)' = {}
        BY DEF ClockInv
    <2>1. CASE g = f
        BY <1>4, <2>1
    <2>2. CASE g # f
        <3>1. Found(g, n)' = Found(g, n) /\ GradedIn(g, n)' = GradedIn(g, n)
            BY <1>4, <2>2
        <3>2. g[2] \in Nat /\ last \in Nat /\ t \in Nat
            BY DEF Files, Stamps, TypeInv, TypeOK
        <3>3. GradedIn(g, n) \subseteq Found(g, n)
            BY GradedAssumption DEF GradedIn, Found
        <3>4. /\ g[2] > last => Found(g, n) = {}
              /\ sameSecond /\ g[2] = last => GradedIn(g, n) = {}
            BY DEF RecordsInv, ClockInv
        <3> QED BY <1>1, <3>1, <3>2, <3>3, <3>4
    <2> QED BY <2>1, <2>2
<1>8. SeedsFormPrefix'
    BY <1>4 DEF RecordsInv, SeedsFormPrefix
<1>9. OneArmPerFile'
    BY <1>4 DEF RecordsInv, OneArmPerFile
<1> QED BY <1>6, <1>7, <1>8, <1>9 DEF RecordsInv

(* Running the next seed: it is the least one left, so every seed before it *)
(* has a row already, and its own row was no result.                        *)
LEMMA RecordsRun ==
    ASSUME TypeInv, RecordsInv, NEW v \in Row \ {"none"}, RunSeed(v)
    PROVE  /\ RecordsInv'
           /\ \A g \in Files, n \in Models : \A u \in GradedIn(g, n) :
                  rows'[g][n][u] = rows[g][n][u]
<1>1. /\ pc = "seed" /\ pc' = "seed" /\ InPlan /\ todo # {} /\ todo \subseteq Seeds
      /\ AppendRow(file, Arm, NextSeed, v) /\ todo' = todo \ {NextSeed}
      /\ plan' = plan /\ idx' = idx /\ last' = last /\ file' = file
      /\ sameSecond' => sameSecond /\ v = "error"
    BY DEF RunSeed, TypeInv, InCase, TypeOK, runVars
<1>2. /\ Cell \in Cells /\ Arm \in Models /\ file \in Files
      /\ Cell' = Cell /\ Arm' = Arm
    BY <1>1, CellType DEF TypeInv, TypeOK, Cell, Arm
<1>3. NextSeed \in todo /\ NextSeed \in Seeds /\ \A u \in todo : NextSeed <= u
    BY <1>1, NextSeedIsLeast
<1>4. \A g \in Files, n \in Models, u \in Seeds :
          rows'[g][n][u] = IF g = file /\ n = Arm /\ u = NextSeed THEN v ELSE rows[g][n][u]
    BY <1>1, <1>2, <1>3, AppendRowRows DEF TypeInv, TypeOK
<1>5. v # "none"
    OBVIOUS
<1>6. \A g \in Files, n \in Models :
          Found(g, n)' = IF g = file /\ n = Arm THEN Found(g, n) \cup {NextSeed}
                         ELSE Found(g, n)
    BY <1>3, <1>4, <1>5 DEF Found
<1>7. /\ file[1] = Cell[1] /\ file[2] <= last
      /\ \A m \in Models \ {Arm} : Found(file, m) = {}
      /\ \A s \in todo : rows[file][Arm][s] \notin Graded
      /\ \A s \in todo, u \in Seeds : u < s => u \in todo \cup Found(file, Arm)
    BY <1>1 DEF RecordsInv, Placed
<1>8. Placed'
    <2>1. \A m \in Models \ {Arm}, u \in Seeds : rows'[file][m][u] = "none"
        BY <1>2, <1>4, <1>7 DEF Found
    <2>2. \A m \in Models \ {Arm} : Found(file, m)' = {}
        BY <1>1, <2>1 DEF Found
    <2>3. \A s \in todo' : rows'[file][Arm][s] \notin Graded
        BY <1>1, <1>2, <1>4, <1>7
    <2>4. \A s \in todo', u \in Seeds : u < s => u \in todo' \cup Found(file, Arm)'
        <3>1. Found(file, Arm)' = Found(file, Arm) \cup {NextSeed}
            BY <1>1, <1>2, <1>3, <1>4, <1>5 DEF Found
        <3> QED BY <1>1, <1>7, <3>1
    <2> QED BY <1>1, <1>2, <1>7, <2>2, <2>3, <2>4 DEF Placed
<1>9. ClockInv'
    <2> SUFFICES ASSUME NEW g \in Files, NEW n \in Models
                 PROVE  /\ g[2] > last => Found(g, n)' = {}
                        /\ sameSecond' /\ g[2] = last => GradedIn(g, n)' = {}
        BY <1>1 DEF ClockInv
    <2>1. g[2] > last => Found(g, n)' = {}
        <3>1. g[2] > last => g # file
            BY <1>2, <1>7 DEF Files, Stamps, TypeInv, TypeOK
        <3> QED BY <1>6, <3>1 DEF RecordsInv, ClockInv
    <2>2. ASSUME sameSecond', g[2] = last PROVE GradedIn(g, n)' = {}
        <3>1. GradedIn(g, n) = {} /\ v \notin Graded
            BY <1>1, <2>2, GradedAssumption DEF RecordsInv, ClockInv
        <3> QED BY <1>4, <3>1 DEF GradedIn
    <2> QED BY <2>1, <2>2
<1>10. SeedsFormPrefix'
    <2> SUFFICES ASSUME NEW g \in Files, NEW n \in Models,
                        NEW s \in Found(g, n)', NEW u \in Seeds, u < s
                 PROVE  u \in Found(g, n)'
        BY DEF SeedsFormPrefix
    <2>1. CASE s \in Found(g, n)
        BY <1>6, <2>1 DEF RecordsInv, SeedsFormPrefix
    <2>2. CASE s \notin Found(g, n)
        <3>1. g = file /\ n = Arm /\ s = NextSeed
            BY <1>6, <2>2
        <3>2. u \notin todo
            BY <1>3, <3>1 DEF Seeds
        <3>3. u \in Found(file, Arm)
            BY <1>3, <1>7, <3>1, <3>2
        <3> QED BY <1>6, <3>1, <3>3
    <2> QED BY <2>1, <2>2
<1>11. OneArmPerFile'
    <2> SUFFICES ASSUME NEW g \in Files, NEW m \in Models, NEW n \in Models,
                        Found(g, m)' # {}, Found(g, n)' # {}
                 PROVE  m = n
        BY DEF OneArmPerFile
    <2>1. CASE g = file
        BY <1>6, <1>7, <2>1
    <2>2. CASE g # file
        BY <1>6, <2>2 DEF RecordsInv, OneArmPerFile
    <2> QED BY <2>1, <2>2
<1>12. \A g \in Files, n \in Models : \A u \in GradedIn(g, n) :
           rows'[g][n][u] = rows[g][n][u]
    BY <1>3, <1>4, <1>7 DEF GradedIn
<1> QED BY <1>8, <1>9, <1>10, <1>11, <1>12 DEF RecordsInv

LEMMA RecordsInit == Init => RecordsInv
<1> SUFFICES ASSUME Init PROVE RecordsInv
    OBVIOUS
<1>1. \A f \in Files, m \in Models : Found(f, m) = {} /\ GradedIn(f, m) = {}
    BY GradedAssumption DEF Init, DiskInit, EmptyFile, Found, GradedIn
<1> QED BY <1>1 DEF Init, RecordsInv, Placed, ClockInv, SeedsFormPrefix, OneArmPerFile

LEMMA RecordsStep ==
    ASSUME TypeInv, RecordsInv, [Next]_vars
    PROVE  /\ RecordsInv'
           /\ \A f \in Files, m \in Models : \A s \in GradedIn(f, m) :
                  rows'[f][m][s] = rows[f][m][s]
<1> DEFINE GradedKept == \A f \in Files, m \in Models : \A s \in GradedIn(f, m) :
                             rows'[f][m][s] = rows[f][m][s]
           Quiet == /\ rows' = rows /\ last' = last /\ pc' # "seed"
                    /\ sameSecond' => sameSecond
<1>1. ASSUME Quiet PROVE RecordsInv' /\ GradedKept
    BY <1>1, RecordsKept
<1>2. ASSUME NEW p \in Plans, NEW f \in BOOLEAN, NEW w \in Wants, Launch(p, f, w)
      PROVE  Quiet
    BY <1>2 DEF Launch, diskVars
<1>3. CASE PreflightPasses \/ PreflightFails \/ AllCasesDone \/ Finish
    <2>1. Quiet
        BY <1>3 DEF PreflightPasses, PreflightFails, AllCasesDone, Finish, FinishWith,
                    diskVars, clockVars
    <2> QED BY <1>1, <2>1
<1>4. CASE SkipCase \/ ProbeFails \/ EndCase
    <2>1. Quiet
        BY <1>4 DEF SkipCase, ProbeFails, MustRun, EndCase, diskVars, clockVars
    <2> QED BY <1>1, <2>1
<1>5. CASE WriteFails \/ Interrupt \/ Crash
    <2>1. Quiet
        BY <1>5 DEF WriteFails, Interrupt, Crash, TearFile, diskVars, clockVars
    <2> QED BY <1>1, <2>1
<1>6. ASSUME NEW f \in Files, LoseManifest(f) PROVE Quiet
    BY <1>6 DEF LoseManifest, clockVars
<1>7. CASE ResumeCase
    <2>1. RecordsInv'
        BY <1>7, RecordsResumed
    <2>2. rows' = rows
        BY <1>7 DEF ResumeCase, ResumeWithout, diskVars
    <2> QED BY <2>1, <2>2
<1>8. ASSUME NEW t \in Stamps, StartCase(t) PROVE RecordsInv' /\ GradedKept
    <2>1. RecordsInv'
        BY <1>8, RecordsStarted
    <2>2. InPlan /\ OpenFresh(<<Cell[1], t>>)
          /\ (t = last + 1 \/ (sameSecond /\ t = last))
        BY <1>8 DEF StartCase, StartUnder, MustRun
    <2>3. <<Cell[1], t>> \in Files /\ last \in Nat
        BY <2>2, CellType DEF TypeInv, TypeOK, Files
    <2>4. \A m \in Models : GradedIn(<<Cell[1], t>>, m) = {}
        <3>1. CASE t = last + 1
            <4>1. \A m \in Models : Found(<<Cell[1], t>>, m) = {}
                BY <2>3, <3>1 DEF RecordsInv, ClockInv
            <4> QED BY <4>1, GradedAssumption DEF Found, GradedIn
        <3>2. CASE sameSecond /\ t = last
            BY <2>3, <3>2 DEF RecordsInv, ClockInv
        <3> QED BY <2>2, <3>1, <3>2
    <2>5. \A g \in Files, n \in Models, u \in Seeds :
              g # <<Cell[1], t>> => rows'[g][n][u] = rows[g][n][u]
        BY <2>2, <2>3, OpenFreshRows DEF TypeInv, TypeOK
    <2>6. GradedKept
        BY <2>4, <2>5 DEF GradedIn
    <2> QED BY <2>1, <2>6
<1>9. ASSUME NEW v \in Row \ {"none"}, RunSeed(v) PROVE RecordsInv' /\ GradedKept
    BY <1>9, RecordsRun
<1>10. CASE UNCHANGED vars
    <2>1. /\ rows' = rows /\ last' = last /\ sameSecond' = sameSecond /\ pc' = pc
          /\ file' = file /\ todo' = todo /\ Cell' = Cell /\ Arm' = Arm
        BY <1>10 DEF vars, diskVars, runVars, clockVars, Cell, Arm
    <2>2. RecordsInv'
        BY <2>1 DEF RecordsInv, Placed, ClockInv, SeedsFormPrefix, OneArmPerFile, Found,
                    GradedIn
    <2> QED BY <2>1, <2>2
<1> QED BY <1>1, <1>2, <1>3, <1>4, <1>5, <1>6, <1>7, <1>8, <1>9, <1>10
        DEF Next, Runner, Environment

LEMMA RecordsAlways == Spec => [](TypeInv /\ RecordsInv)
<1>1. Init => TypeInv /\ RecordsInv
    BY TypeInvInit, RecordsInit
<1>2. TypeInv /\ RecordsInv /\ [Next]_vars => TypeInv' /\ RecordsInv'
    BY TypeInvStep, RecordsStep
<1> QED BY <1>1, <1>2, PTL DEF Spec

(* However a campaign is interrupted, killed, resumed or re-run, the seeds of *)
(* a records file are an initial segment of the seeds.                        *)
THEOREM SeedsAreAPrefix == Spec => []SeedsFormPrefix
<1>1. RecordsInv => SeedsFormPrefix
    BY DEF RecordsInv
<1> QED BY <1>1, RecordsAlways, PTL

(* The file, the arm and the clock of the run in progress fit what is recorded: *)
(* no seed it is going to run has a result.                                     *)
THEOREM RecordsStayInOrder == Spec => []RecordsInv
BY RecordsAlways, PTL

(* Two arms never share a records file, even within one second of each other. *)
THEOREM ArmsNeverShareAFile == Spec => []OneArmPerFile
<1>1. RecordsInv => OneArmPerFile
    BY DEF RecordsInv
<1> QED BY <1>1, RecordsAlways, PTL

(* No step of any run, forced or not, changes a row that carries a verdict. *)
THEOREM VerdictsArePermanent == Spec => GradedRowsPermanent
<1>1. TypeInv /\ RecordsInv /\ [Next]_vars =>
          [\A f \in Files, m \in Models : \A s \in GradedIn(f, m) :
              rows'[f][m][s] = rows[f][m][s]]_vars
    BY RecordsStep
<1> QED BY <1>1, RecordsAlways, PTL DEF Spec, GradedRowsPermanent
-----------------------------------------------------------------------------
(* Why counting rows is enough to call a cell graded.                       *)

(* An initial segment of the seeds with at least w members holds the first w. *)
LEMMA CountingAPrefix ==
    ASSUME NEW F \in SUBSET Seeds, NEW w \in Nat, Cardinality(F) >= w,
           \A s \in F, u \in Seeds : u < s => u \in F
    PROVE  \A s \in Seeds : s < w => s \in F
<1> SUFFICES ASSUME NEW s \in Seeds, s < w, s \notin F PROVE FALSE
    OBVIOUS
<1>1. s \in Nat /\ \A x \in F : x \in Nat
    BY DEF Seeds
<1>2. F \subseteq 0 .. (s - 1)
    <2> SUFFICES ASSUME NEW x \in F PROVE x < s
        BY <1>1
    <2>1. x # s /\ ~(s < x)
        OBVIOUS
    <2> QED BY <1>1, <2>1
<1>3. IsFiniteSet(0 .. (s - 1)) /\ Cardinality(0 .. (s - 1)) <= s
    <2>1. 0 \in Int /\ s - 1 \in Int
        BY <1>1
    <2>2. /\ IsFiniteSet(0 .. (s - 1))
          /\ Cardinality(0 .. (s - 1)) = IF 0 > s - 1 THEN 0 ELSE (s - 1) - 0 + 1
        BY <2>1, FS_Interval
    <2> QED BY <1>1, <2>2
<1>4. IsFiniteSet(F) /\ Cardinality(F) <= Cardinality(0 .. (s - 1))
    BY <1>2, <1>3, FS_Subset
<1>5. Cardinality(F) \in Nat /\ Cardinality(0 .. (s - 1)) \in Nat
    BY <1>3, <1>4, FS_CardinalityType
<1> QED BY <1>1, <1>3, <1>4, <1>5

(* A cell that is graded has a result for every seed: counting the rows *)
(* will do because they are a prefix and none is an error.              *)
LEMMA CompleteIfGraded ==
    ASSUME TypeInv, RecordsInv
    PROVE  GradedMeansComplete
<1> SUFFICES ASSUME NEW c \in Cells, NEW w \in 1 .. MaxSeeds,
                    CaseStatus(c, w) = "graded",
                    NEW s \in Seeds, s < w
             PROVE  Verdict(c, s) \in Graded
    BY DEF GradedMeansComplete
<1> DEFINE f == AnswerFile(c)
<1>1. Answering(c) # {} /\ Errors(f, c[2]) = {} /\ Cardinality(Found(f, c[2])) >= w
    <2>1. Answering(c) # {} /\ Errors(f, c[2]) = {}
          /\ ~(Cardinality(Found(f, c[2])) < w)
        BY DEF CaseStatus
    <2>2. IsFiniteSet(Found(f, c[2]))
        <3>1. IsFiniteSet(Seeds)
            BY BoundsAssumption, FS_Interval DEF Seeds
        <3>2. Found(f, c[2]) \subseteq Seeds
            BY DEF Found
        <3> QED BY <3>1, <3>2, FS_Subset
    <2>3. Cardinality(Found(f, c[2])) \in Nat /\ w \in Nat
        BY <2>2, FS_CardinalityType
    <2> QED BY <2>1, <2>3
<1>2. f \in Files /\ c[2] \in Models
    BY <1>1, NewestStampAnswers DEF Cells
<1>3. s \in Found(f, c[2])
    <2>1. \A x \in Found(f, c[2]), u \in Seeds : u < x => u \in Found(f, c[2])
        BY <1>2 DEF RecordsInv, SeedsFormPrefix
    <2>2. Found(f, c[2]) \in SUBSET Seeds /\ w \in Nat
        BY DEF Found
    <2> QED BY <1>1, <2>1, <2>2, CountingAPrefix
<1>4. rows[f][c[2]][s] \in Row
    BY <1>2 DEF TypeInv, TypeOK, DiskTypeOK
<1>5. rows[f][c[2]][s] # "none" /\ rows[f][c[2]][s] # "error"
    BY <1>1, <1>3 DEF Found, Errors
<1> QED BY <1>1, <1>4, <1>5 DEF Verdict, Row

(* case_status counts the rows of the newest file and calls a cell graded when *)
(* there are enough and none is an error.  Because the seeds of a file are a   *)
(* prefix, every wanted seed then has a result: a skip never hides a hole.     *)
THEOREM GradedIsComplete == Spec => []GradedMeansComplete
BY CompleteIfGraded, RecordsAlways, PTL
-----------------------------------------------------------------------------
(* The live table.  Its rows are copied from files that were regraded, so   *)
(* what keeps it true is that verdicts are permanent.                       *)

LEMMA TableStep ==
    ASSUME TypeInv, RecordsInv, TabulatedResultsOnDisk, [Next]_vars
    PROVE  TabulatedResultsOnDisk'
<1>1. \A f \in Files, m \in Models : \A s \in GradedIn(f, m) :
          rows'[f][m][s] = rows[f][m][s]
    BY RecordsStep
<1>2. ASSUME NEW i \in DOMAIN table, NEW s \in DOMAIN table[i].seeds,
             table[i].seeds[s] \in Graded
      PROVE  rows'[table[i].file][table[i].arm][s] = table[i].seeds[s]
    <2>1. table[i] \in Summaries
        BY DEF TypeInv, TypeOK
    <2>2. table[i].file \in Files /\ table[i].arm \in Models /\ s \in Seeds
        BY <2>1 DEF Summaries
    <2>3. rows[table[i].file][table[i].arm][s] = table[i].seeds[s]
        BY <1>2 DEF TabulatedResultsOnDisk
    <2> QED BY <1>1, <1>2, <2>2, <2>3 DEF GradedIn
<1>3. ASSUME table' = table PROVE TabulatedResultsOnDisk'
    BY <1>2, <1>3 DEF TabulatedResultsOnDisk
<1>4. ASSUME table' = <<>> PROVE TabulatedResultsOnDisk'
    BY <1>4 DEF TabulatedResultsOnDisk
<1> DEFINE added == table'[Len(table) + 1]
<1>5. ASSUME table' = Append(table, added),
             \A s \in DOMAIN added.seeds :
                 added.seeds[s] \in Graded => rows'[added.file][added.arm][s] = added.seeds[s]
      PROVE  TabulatedResultsOnDisk'
    <2> SUFFICES ASSUME NEW i \in DOMAIN table', NEW s \in DOMAIN table'[i].seeds,
                        table'[i].seeds[s] \in Graded
                 PROVE  rows'[table'[i].file][table'[i].arm][s] = table'[i].seeds[s]
        BY DEF TabulatedResultsOnDisk
    <2>1. table \in Seq(Summaries)
        BY DEF TypeInv, TypeOK
    <2>2. DOMAIN table' = 1 .. Len(table) + 1 /\ DOMAIN table = 1 .. Len(table)
        BY <1>5, <2>1
    <2>3. CASE i \in DOMAIN table
        <3>1. table'[i] = table[i]
            BY <1>5, <2>1, <2>3
        <3> QED BY <1>2, <2>3, <3>1
    <2>4. CASE i = Len(table) + 1
        BY <1>5, <2>4
    <2> QED BY <2>2, <2>3, <2>4
<1>6. CASE SkipCase
    <2>1. table' = Append(table, Summary(AnswerFile(Cell), Arm)) /\ rows' = rows
        BY <1>6 DEF SkipCase, diskVars
    <2>2. added = Summary(AnswerFile(Cell), Arm)
        BY <2>1 DEF TypeInv, TypeOK
    <2> QED BY <1>5, <2>1, <2>2 DEF Summary, Regrade
<1>7. CASE EndCase
    <2>1. table' = Append(table, Summary(file, Arm)) /\ rows' = rows
        BY <1>7 DEF EndCase, diskVars
    <2>2. added = Summary(file, Arm)
        BY <2>1 DEF TypeInv, TypeOK
    <2> QED BY <1>5, <2>1, <2>2 DEF Summary, Regrade
<1>8. ASSUME NEW p \in Plans, NEW f \in BOOLEAN, NEW w \in Wants, Launch(p, f, w)
      PROVE  TabulatedResultsOnDisk'
    BY <1>4, <1>8 DEF Launch
<1>9. CASE PreflightPasses \/ PreflightFails \/ ProbeFails \/ AllCasesDone \/ Finish
    BY <1>3, <1>9 DEF PreflightPasses, PreflightFails, ProbeFails, AllCasesDone, Finish,
                      FinishWith
<1>10. CASE ResumeCase
    BY <1>3, <1>10 DEF ResumeCase, ResumeWithout
<1>11. ASSUME NEW t \in Stamps, StartCase(t) PROVE TabulatedResultsOnDisk'
    BY <1>3, <1>11 DEF StartCase, StartUnder
<1>12. ASSUME NEW v \in Row \ {"none"}, RunSeed(v) PROVE TabulatedResultsOnDisk'
    BY <1>3, <1>12 DEF RunSeed
<1>13. CASE WriteFails \/ Interrupt \/ Crash
    BY <1>3, <1>13 DEF WriteFails, Interrupt, Crash
<1>14. ASSUME NEW f \in Files, LoseManifest(f) PROVE TabulatedResultsOnDisk'
    BY <1>3, <1>14 DEF LoseManifest
<1>15. CASE UNCHANGED vars
    BY <1>3, <1>15 DEF vars
<1> QED BY <1>6, <1>7, <1>8, <1>9, <1>10, <1>11, <1>12, <1>13, <1>14, <1>15
        DEF Next, Runner, Environment

(* Every result of the live table can still be read from the file it came from. *)
THEOREM TableIsBackedByRecords == Spec => []TabulatedResultsOnDisk
<1>1. Init => TabulatedResultsOnDisk
    BY DEF Init, TabulatedResultsOnDisk
<1>2. TypeInv /\ RecordsInv /\ TabulatedResultsOnDisk /\ [Next]_vars
          => TabulatedResultsOnDisk'
    BY TableStep
<1> QED BY <1>1, <1>2, RecordsAlways, PTL DEF Spec
-----------------------------------------------------------------------------
(* Honest resume.  What is not in the open file was damaged: this depends on *)
(* manifests staying beside the files of the current campaign.               *)

Top(c, t) == t \in Held(c) /\ \A u \in Held(c) : u <= t

(* Without --force the open file is the newest with rows of its cell, or the *)
(* newest is damaged.                                                        *)
OpenFileInv ==
    pc = "seed" =>
        /\ file \in manifest
        /\ ~force => \A t \in Stamps : Top(Cell, t) =>
               <<Cell[1], t>> = file \/ Damaged(<<Cell[1], t>>)

(* A file that may still be opened a second time has its manifest. *)
ManifestInv ==
    sameSecond /\ pc # "idle" =>
        \A c \in Cells : last \in Held(c) => <<c[1], last>> \in manifest

DamageInv == OpenFileInv /\ ManifestInv

LEMMA NewestHeldIsTop ==
    ASSUME NEW c \in Cells, Held(c) # {}
    PROVE  \E t \in Stamps : Top(c, t) /\ NewestHeld(c) = <<c[1], t>>
<1>1. Held(c) \in SUBSET (1 .. MaxStamp)
    BY DEF Held, Stamps
<1>2. \E t \in Held(c) : \A u \in Held(c) : u <= t
    BY <1>1, GreatestElement, BoundsAssumption
<1> DEFINE t == CHOOSE x \in Held(c) : \A u \in Held(c) : u <= x
<1>3. t \in Held(c) /\ \A u \in Held(c) : u <= t
    BY <1>2
<1>4. NewestHeld(c) = <<c[1], t>>
    BY DEF NewestHeld
<1> HIDE DEF t
<1> QED BY <1>3, <1>4 DEF Top, Held

LEMMA HeldKept ==
    ASSUME rows' = rows, NEW c
    PROVE  Held(c)' = Held(c)
BY DEF Held, Found

LEMMA AnsweringIsHeld ==
    ASSUME NEW c
    PROVE  /\ Answering(c) \subseteq Held(c) /\ Held(c) \subseteq Stamps
           /\ \A t \in Held(c) : t \in Answering(c) \/ <<c[1], t>> \in torn
BY DEF Answering, Held

LEMMA DamageKept ==
    ASSUME DamageInv, rows' = rows, last' = last, pc' # "seed",
           sameSecond' /\ pc' # "idle" => sameSecond /\ pc # "idle" /\ manifest' = manifest
    PROVE  DamageInv'
<1>1. \A c \in Cells : Held(c)' = Held(c)
    BY HeldKept
<1> QED BY <1>1 DEF DamageInv, OpenFileInv, ManifestInv

LEMMA DamageResumed ==
    ASSUME TypeInv, RecordsInv, DamageInv, ResumeCase
    PROVE  DamageInv'
<1>1. /\ InPlan /\ Answering(Cell) # {} /\ file' = AnswerFile(Cell) /\ file' \in manifest
      /\ pc = "case" /\ UNCHANGED <<rows, torn, manifest, plan, idx, last, sameSecond>>
    BY DEF ResumeCase, ResumeWithout, MustRun, Resumes, Status, CaseStatus, runVars,
           clockVars, diskVars
<1>2. Cell \in Cells /\ Cell' = Cell
    BY <1>1, CellType DEF TypeInv, Cell
<1>3. \A c : Held(c)' = Held(c)
    BY <1>1, HeldKept
<1>4. \A t \in Stamps : Top(Cell, t) => <<Cell[1], t>> = file' \/ Damaged(<<Cell[1], t>>)
    <2> SUFFICES ASSUME NEW t \in Stamps, Top(Cell, t), <<Cell[1], t>> \notin torn
                 PROVE  <<Cell[1], t>> = file'
        BY DEF Damaged
    <2>1. t \in Answering(Cell)
        BY AnsweringIsHeld DEF Top
    <2>2. NewestStamp(Cell) \in Stamps /\ t <= NewestStamp(Cell) /\ NewestStamp(Cell) <= t
        BY <1>1, <1>2, <2>1, NewestStampAnswers, AnsweringIsHeld DEF Top
    <2>3. t = NewestStamp(Cell)
        BY <2>2 DEF Stamps
    <2> QED BY <1>1, <2>3 DEF AnswerFile
<1>5. OpenFileInv'
    BY <1>1, <1>2, <1>3, <1>4 DEF OpenFileInv, Top, Damaged
<1>6. ManifestInv'
    BY <1>1, <1>3 DEF DamageInv, ManifestInv
<1> QED BY <1>5, <1>6 DEF DamageInv

LEMMA DamageStarted ==
    ASSUME TypeInv, RecordsInv, DamageInv, NEW t \in Stamps, StartCase(t)
    PROVE  DamageInv'
<1> DEFINE f == <<Cell[1], t>>
<1>1. /\ InPlan /\ OpenFresh(f) /\ file' = f /\ pc = "case" /\ ~Resumes
      /\ UNCHANGED <<plan, idx, force>> /\ last' = t
      /\ t = last + 1 \/ (sameSecond /\ t = last)
      /\ Status # "graded" \/ force
    BY DEF StartCase, StartUnder, MustRun, runVars
<1>2. Cell \in Cells /\ Cell' = Cell /\ Arm = Cell[2] /\ f \in Files
    BY <1>1, CellType DEF TypeInv, Cell, Arm, Files
<1>3. torn' = torn \ {f} /\ manifest' = manifest \cup {f}
    BY <1>1 DEF OpenFresh
<1>4. \A g \in Files, n \in Models :
          Found(g, n)' = IF g = f THEN {} ELSE Found(g, n)
    <2>1. \A g \in Files, n \in Models, u \in Seeds :
              rows'[g][n][u] = IF g = f THEN "none" ELSE rows[g][n][u]
        BY <1>1, <1>2, OpenFreshRows DEF TypeInv, TypeOK
    <2> QED BY <2>1 DEF Found
<1>5. \A c \in Cells : Held(c)' = {u \in Held(c) : <<c[1], u>> # f}
    BY <1>4 DEF Held, Cells, Files
<1>6. \A c \in Cells : t \in Held(c) => t = last /\ sameSecond /\ <<c[1], t>> \in manifest
    <2> SUFFICES ASSUME NEW c \in Cells, t \in Held(c)
                 PROVE  t = last /\ sameSecond /\ <<c[1], t>> \in manifest
        OBVIOUS
    <2>1. Found(<<c[1], t>>, c[2]) # {} /\ <<c[1], t>> \in Files /\ c[2] \in Models
        BY DEF Held, Cells, Files
    <2>2. ~(t > last)
        BY <2>1 DEF RecordsInv, ClockInv
    <2>3. t = last /\ sameSecond
        BY <1>1, <2>2 DEF TypeInv, TypeOK
    <2> QED BY <1>1, <2>3 DEF DamageInv, ManifestInv
<1>7. ManifestInv'
    BY <1>1, <1>3, <1>5, <1>6 DEF ManifestInv
<1>8. ASSUME ~force, NEW u \in Stamps, Top(Cell, u)' PROVE Damaged(<<Cell[1], u>>)'
    <2>1. u \in Held(Cell) /\ u # t /\ \A x \in Held(Cell) : x # t => x <= u
        BY <1>2, <1>5, <1>8 DEF Top
    <2>2. <<Cell[1], u>> # f
        BY <2>1
    <2>3. CASE u \notin Answering(Cell)
        BY <1>2, <1>3, <2>1, <2>2, <2>3, AnsweringIsHeld DEF Damaged
    <2>4. CASE u \in Answering(Cell)
        <3>1. Status = "resumable" /\ AnswerFile(Cell) \notin manifest
            BY <1>1, <1>8, <2>4, StatusType DEF Status, CaseStatus, Resumes
        <3>2. /\ NewestStamp(Cell) \in Answering(Cell) /\ NewestStamp(Cell) \in Stamps
              /\ u <= NewestStamp(Cell)
            BY <1>2, <2>4, NewestStampAnswers
        <3>3. NewestStamp(Cell) # t
            BY <1>2, <1>6, <3>1, <3>2, AnsweringIsHeld DEF AnswerFile
        <3>4. NewestStamp(Cell) <= u
            BY <2>1, <3>2, <3>3, AnsweringIsHeld
        <3>5. u = NewestStamp(Cell)
            BY <3>2, <3>4 DEF Stamps
        <3> QED BY <1>2, <1>3, <2>2, <3>1, <3>5 DEF AnswerFile, Damaged
    <2> QED BY <2>3, <2>4
<1>9. OpenFileInv'
    BY <1>1, <1>2, <1>3, <1>8 DEF OpenFileInv
<1> QED BY <1>7, <1>9 DEF DamageInv

LEMMA DamageRun ==
    ASSUME TypeInv, RecordsInv, DamageInv, NEW v \in Row \ {"none"}, RunSeed(v)
    PROVE  DamageInv'
<1>1. /\ pc = "seed" /\ InPlan /\ todo # {} /\ todo \subseteq Seeds
      /\ AppendRow(file, Arm, NextSeed, v) /\ file \in Files /\ file[1] = Cell[1]
      /\ UNCHANGED <<torn, manifest, plan, force, idx, last, file>>
      /\ sameSecond' => sameSecond
    BY DEF RunSeed, AppendRow, TypeInv, InCase, TypeOK, runVars, RecordsInv, Placed
<1>2. Cell \in Cells /\ Arm \in Models /\ Cell' = Cell
    BY <1>1, CellType DEF TypeInv, Cell
<1>3. NextSeed \in Seeds
    BY <1>1, NextSeedIsLeast
<1>4. \A g \in Files, n \in Models : g # file => Found(g, n)' = Found(g, n)
    <2>1. \A g \in Files, n \in Models, u \in Seeds :
              g # file => rows'[g][n][u] = rows[g][n][u]
        BY <1>1, <1>2, <1>3, AppendRowRows DEF TypeInv, TypeOK
    <2> QED BY <2>1 DEF Found
<1>5. \A c \in Cells : \A u \in Held(c)' : u \in Held(c) \/ <<c[1], u>> = file
    BY <1>4 DEF Held, Cells, Files
<1>6. \A c \in Cells : Held(c) \subseteq Held(c)'
    <2>1. \A g \in Files, n \in Models, u \in Seeds :
              rows'[g][n][u] = IF g = file /\ n = Arm /\ u = NextSeed THEN v ELSE rows[g][n][u]
        BY <1>1, <1>2, <1>3, AppendRowRows DEF TypeInv, TypeOK
    <2>2. \A g \in Files, n \in Models : Found(g, n) \subseteq Found(g, n)'
        BY <2>1 DEF Found
    <2> QED BY <2>2 DEF Held, Cells, Files
<1>7. OpenFileInv'
    <2>1. ASSUME ~force, NEW t \in Stamps, Top(Cell, t)', <<Cell[1], t>> # file
          PROVE  Damaged(<<Cell[1], t>>)
        <3>1. Top(Cell, t)
            BY <1>2, <1>5, <1>6, <2>1 DEF Top
        <3> QED BY <1>1, <2>1, <3>1 DEF DamageInv, OpenFileInv
    <2> QED BY <1>1, <1>2, <2>1 DEF OpenFileInv, Damaged, DamageInv
<1>8. ManifestInv'
    BY <1>1, <1>5 DEF DamageInv, ManifestInv, OpenFileInv
<1> QED BY <1>7, <1>8 DEF DamageInv

LEMMA DamageStep == TypeInv /\ RecordsInv /\ DamageInv /\ [Next]_vars => DamageInv'
<1> SUFFICES ASSUME TypeInv, RecordsInv, DamageInv, [Next]_vars PROVE DamageInv'
    OBVIOUS
<1>1. ASSUME NEW p \in Plans, NEW f \in BOOLEAN, NEW w \in Wants, Launch(p, f, w)
      PROVE  DamageInv'
    BY <1>1, DamageKept DEF Launch, diskVars
<1>2. CASE PreflightPasses \/ PreflightFails \/ AllCasesDone \/ Finish
    BY <1>2, DamageKept DEF PreflightPasses, PreflightFails, AllCasesDone, Finish, FinishWith,
                            diskVars, clockVars
<1>3. CASE SkipCase \/ ProbeFails \/ EndCase
    BY <1>3, DamageKept DEF SkipCase, ProbeFails, MustRun, EndCase, diskVars, clockVars
<1>4. CASE WriteFails \/ Interrupt \/ Crash
    BY <1>4, DamageKept DEF WriteFails, Interrupt, Crash, TearFile, diskVars, clockVars
<1>5. ASSUME NEW f \in Files, LoseManifest(f) PROVE DamageInv'
    BY <1>5, DamageKept DEF LoseManifest, clockVars
<1>6. CASE ResumeCase
    BY <1>6, DamageResumed
<1>7. ASSUME NEW t \in Stamps, StartCase(t) PROVE DamageInv'
    BY <1>7, DamageStarted
<1>8. ASSUME NEW v \in Row \ {"none"}, RunSeed(v) PROVE DamageInv'
    BY <1>8, DamageRun
<1>9. CASE UNCHANGED vars
    <2>1. UNCHANGED <<rows, torn, manifest, pc, plan, force, idx, file, last, sameSecond>>
        BY <1>9 DEF vars, diskVars, runVars, clockVars
    <2>2. \A c : Held(c)' = Held(c)
        BY <2>1, HeldKept
    <2> QED BY <2>1, <2>2 DEF DamageInv, OpenFileInv, ManifestInv, Top, Damaged, Cell
<1> QED BY <1>1, <1>2, <1>3, <1>4, <1>5, <1>6, <1>7, <1>8, <1>9
        DEF Next, Runner, Environment

(* Money is spent on a seed only if the newest records of its cell hold no   *)
(* result for it, or were damaged, or the operator forced it                 *)
(* (results_index.py case_status, run.py load_resume_records).               *)
THEOREM ResumesAreHonest == Spec => NoResampling
<1>1. Init => DamageInv
    <2>1. Init => pc = "idle"
        BY DEF Init
    <2> QED BY <2>1 DEF DamageInv, OpenFileInv, ManifestInv
<1>2. TypeInv /\ RecordsInv /\ DamageInv /\ [Next]_vars =>
          [\A cs \in ran' \ ran :
             force \/ ~HeldGraded(cs[1], cs[2]) \/ Damaged(NewestHeld(cs[1]))]_vars
    <2> SUFFICES ASSUME TypeInv, RecordsInv, DamageInv, [Next]_vars, NEW cs \in ran' \ ran,
                        ~force, HeldGraded(cs[1], cs[2])
                 PROVE  Damaged(NewestHeld(cs[1]))
        OBVIOUS
    <2>1. \E v \in Row \ {"none"} : RunSeed(v)
        <3>1. ASSUME NEW p \in Plans, NEW f \in BOOLEAN, NEW w \in Wants, Launch(p, f, w)
              PROVE  ran' = {}
            BY <3>1 DEF Launch
        <3>2. ASSUME PreflightPasses \/ PreflightFails \/ AllCasesDone \/ Finish \/ SkipCase
                   \/ ProbeFails \/ EndCase \/ WriteFails \/ Interrupt \/ Crash \/ ResumeCase
              PROVE ran' = ran
            BY <3>2 DEF PreflightPasses, PreflightFails, AllCasesDone, Finish, FinishWith,
                        SkipCase, ProbeFails, EndCase, WriteFails, Interrupt, Crash,
                        ResumeCase, ResumeWithout
        <3>3. ASSUME NEW t \in Stamps, StartCase(t) PROVE ran' = ran
            BY <3>3 DEF StartCase, StartUnder
        <3>4. ASSUME NEW f \in Files, LoseManifest(f) PROVE ran' = ran
            BY <3>4 DEF LoseManifest
        <3>5. UNCHANGED vars => ran' = ran
            BY DEF vars
        <3> QED BY <3>1, <3>2, <3>3, <3>4, <3>5 DEF Next, Runner, Environment
    <2>2. /\ pc = "seed" /\ InPlan /\ cs = <<Cell, NextSeed>>
          /\ todo # {} /\ todo \subseteq Seeds
        BY <2>1 DEF RunSeed, TypeInv, InCase, TypeOK
    <2>3. Cell \in Cells /\ Arm = Cell[2] /\ cs[1] = Cell /\ cs[2] = NextSeed
        BY <2>2, CellType DEF TypeInv, Arm
    <2>4. Held(Cell) # {} /\ rows[NewestHeld(Cell)][Arm][NextSeed] \in Graded
        BY <2>3 DEF HeldGraded
    <2>5. PICK t \in Stamps : Top(Cell, t) /\ NewestHeld(Cell) = <<Cell[1], t>>
        BY <2>3, <2>4, NewestHeldIsTop
    <2>6. NewestHeld(Cell) = file \/ Damaged(NewestHeld(Cell))
        BY <2>2, <2>5 DEF DamageInv, OpenFileInv
    <2>7. rows[file][Arm][NextSeed] \notin Graded
        BY <2>2, NextSeedIsLeast DEF RecordsInv, Placed
    <2> QED BY <2>3, <2>4, <2>6, <2>7
<1>3. Spec => []DamageInv
    BY <1>1, DamageStep, RecordsAlways, PTL DEF Spec
<1> QED BY <1>2, <1>3, RecordsAlways, PTL DEF Spec, NoResampling

-----------------------------------------------------------------------------
(* Exit 0.  A plan that names a cell twice can end with 0 and a lost cell   *)
(* it calls graded: forced, the second naming starts the cell over.         *)

NamesCellsOnce(p) == \A i, j \in DOMAIN p : p[i] = p[j] => i = j

AccountablePlans == MaxForced = 0 \/ \A p \in Plans : NamesCellsOnce(p)

Called(i) == entries[i].status \in {"skipped", "graded"}

(* Every entry is of the cell of its place in the plan, and a cell it calls *)
(* done is graded now.                                                      *)
Accounts ==
    \A i \in DOMAIN entries :
        /\ entries[i].cell = plan[i]
        /\ Called(i) => CaseStatus(plan[i], want) = "graded"

InLoop == pc \in {"case", "seed"} \/ (pc = "finish" /\ stop = "no")

(* The entries are those of the cells before this one, and the cell in hand *)
(* is not one of those that were called done.                               *)
EntriesInv ==
    /\ force => MaxForced # 0
    /\ MaxForced = 0 \/ NamesCellsOnce(plan)
    /\ pc = "preflight" => idx = 1 /\ entries = <<>> /\ stop = "no"
    /\ pc \in {"case", "seed"} => stop = "no" /\ Len(entries) = idx - 1 /\ idx <= Len(plan) + 1
    /\ pc = "finish" /\ stop = "no" => Len(entries) = Len(plan)
    /\ exit = "0" => pc = "idle" /\ Len(entries) = Len(plan)
    /\ InLoop \/ exit = "0" => Accounts
    /\ pc = "seed" => \A i \in DOMAIN entries : Called(i) => plan[i] # Cell

(* A cell whose newest readable file is still that, and unchanged. *)
LEMMA StatusKept ==
    ASSUME NEW c \in Cells, NEW w, Answering(c) # {},
           Answering(c)' \subseteq Answering(c), NewestStamp(c) \in Answering(c)',
           \A s \in Seeds : rows'[AnswerFile(c)][c[2]][s] = rows[AnswerFile(c)][c[2]][s]
    PROVE  CaseStatus(c, w)' = CaseStatus(c, w)
<1> DEFINE A == Answering(c)'
           n == NewestStamp(c)
<1>1. n \in A /\ A \subseteq Stamps /\ \A u \in A : u <= n
    BY NewestStampAnswers DEF Answering
<1>2. NewestStamp(c)' = CHOOSE t \in A : \A u \in A : u <= t
    BY DEF NewestStamp
<1> HIDE DEF A, n
<1>3. (CHOOSE t \in A : \A u \in A : u <= t) = n
    BY <1>1 DEF Stamps
<1>4. AnswerFile(c)' = AnswerFile(c)
    BY <1>2, <1>3 DEF AnswerFile, n
<1>5. /\ Found(AnswerFile(c), c[2])' = Found(AnswerFile(c), c[2])
      /\ Errors(AnswerFile(c), c[2])' = Errors(AnswerFile(c), c[2])
    BY <1>4 DEF Found, Errors
<1> QED BY <1>1, <1>5 DEF CaseStatus, A

(* Where rows and torn lines stay, so does every status. *)
LEMMA StatusStays ==
    ASSUME rows' = rows, torn' = torn
    PROVE  \A c, w : CaseStatus(c, w)' = CaseStatus(c, w)
BY DEF CaseStatus, Answering, AnswerFile, NewestStamp, Found, Errors

(* A cell that is graded has its newest file, with a result for seed 0. *)
LEMMA GradedAnswers ==
    ASSUME TypeInv, RecordsInv, NEW c \in Cells, NEW w \in 1 .. MaxSeeds, CaseStatus(c, w) = "graded"
    PROVE  /\ Answering(c) # {} /\ AnswerFile(c) \in Files /\ c[2] \in Models
           /\ AnswerFile(c) = <<c[1], NewestStamp(c)>> /\ NewestStamp(c) \in Answering(c)
           /\ GradedIn(AnswerFile(c), c[2]) # {}
<1>1. Answering(c) # {}
    BY DEF CaseStatus
<1>2. 0 \in Seeds /\ 0 < w
    BY BoundsAssumption DEF Seeds
<1>3. rows[AnswerFile(c)][c[2]][0] \in Graded
    BY <1>1, <1>2, CompleteIfGraded DEF GradedMeansComplete, Verdict
<1> QED BY <1>1, <1>2, <1>3, NewestStampAnswers DEF AnswerFile, GradedIn, Cells

(* A seed of one cell leaves the others. *)
LEMMA RunLeavesOthers ==
    ASSUME TypeInv, RecordsInv, NEW v \in Row \ {"none"}, RunSeed(v),
           NEW c \in Cells, c # Cell, NEW w
    PROVE  CaseStatus(c, w)' = CaseStatus(c, w)
<1>1. /\ pc = "seed" /\ InPlan /\ todo # {} /\ todo \subseteq Seeds
      /\ AppendRow(file, Arm, NextSeed, v) /\ file \in Files /\ file[1] = Cell[1]
      /\ torn' = torn
    BY DEF RunSeed, AppendRow, TypeInv, InCase, TypeOK, RecordsInv, Placed
<1>2. Cell \in Cells /\ Arm \in Models /\ Cell = <<Cell[1], Arm>>
    BY <1>1, CellType DEF TypeInv
<1>3. NextSeed \in Seeds
    BY <1>1, NextSeedIsLeast
<1>4. c[1] # Cell[1] \/ c[2] # Arm
    BY <1>2 DEF Cells
<1>5. ASSUME NEW t \in Stamps
      PROVE  \A s \in Seeds : rows'[<<c[1], t>>][c[2]][s] = rows[<<c[1], t>>][c[2]][s]
    <2>1. <<c[1], t>> \in Files /\ c[2] \in Models /\ (<<c[1], t>> # file \/ c[2] # Arm)
        BY <1>1, <1>4 DEF Cells, Files
    <2> QED BY <1>1, <1>2, <1>3, <2>1, AppendRowRows DEF TypeInv, TypeOK
<1>6. \A t \in Stamps : /\ Found(<<c[1], t>>, c[2])' = Found(<<c[1], t>>, c[2])
                        /\ Errors(<<c[1], t>>, c[2])' = Errors(<<c[1], t>>, c[2])
    BY <1>5 DEF Found, Errors
<1>7. Answering(c)' = Answering(c)
    BY <1>1, <1>6 DEF Answering
<1>8. CASE Answering(c) = {}
    BY <1>7, <1>8 DEF CaseStatus
<1>9. CASE Answering(c) # {}
    <2>1. NewestStamp(c) \in Stamps /\ NewestStamp(c) \in Answering(c)
        BY <1>9, NewestStampAnswers
    <2> QED BY <1>5, <1>7, <1>9, <2>1, StatusKept DEF AnswerFile
<1> QED BY <1>8, <1>9

(* A file opened anew is not the one that answers for a graded cell. *)
LEMMA StartLeavesGraded ==
    ASSUME TypeInv, RecordsInv, NEW t \in Stamps, StartCase(t),
           NEW c \in Cells, NEW w \in 1 .. MaxSeeds, CaseStatus(c, w) = "graded"
    PROVE  CaseStatus(c, w)' = "graded"
<1> DEFINE f == <<Cell[1], t>>
<1>1. /\ InPlan /\ OpenFresh(f) /\ (t = last + 1 \/ (sameSecond /\ t = last))
    BY DEF StartCase, StartUnder, MustRun
<1>2. f \in Files /\ last \in Nat /\ f[2] = t
    BY <1>1, CellType DEF TypeInv, TypeOK, Files
<1>3. \A m \in Models : GradedIn(f, m) = {}
    <2>1. CASE t = last + 1
        <3>1. \A m \in Models : Found(f, m) = {}
            BY <1>2, <2>1 DEF RecordsInv, ClockInv
        <3> QED BY <3>1, GradedAssumption DEF Found, GradedIn
    <2>2. CASE sameSecond /\ t = last
        BY <1>2, <2>2 DEF RecordsInv, ClockInv
    <2> QED BY <1>1, <2>1, <2>2
<1>4. \A g \in Files, n \in Models, u \in Seeds :
          rows'[g][n][u] = IF g = f THEN "none" ELSE rows[g][n][u]
    BY <1>1, <1>2, OpenFreshRows DEF TypeInv, TypeOK
<1>5. torn' = torn \ {f}
    BY <1>1 DEF OpenFresh
<1>6. /\ Answering(c) # {} /\ AnswerFile(c) \in Files /\ c[2] \in Models
      /\ AnswerFile(c) = <<c[1], NewestStamp(c)>> /\ NewestStamp(c) \in Answering(c)
      /\ GradedIn(AnswerFile(c), c[2]) # {}
    BY GradedAnswers
<1>7. AnswerFile(c) # f
    BY <1>3, <1>6
<1> HIDE DEF f
<1>8. \A u \in Stamps : <<c[1], u>> \in Files
    BY DEF Cells, Files
<1>9. \A u \in Stamps : Found(<<c[1], u>>, c[2])' =
                            IF <<c[1], u>> = f THEN {} ELSE Found(<<c[1], u>>, c[2])
    BY <1>4, <1>6, <1>8 DEF Found
<1>10. Answering(c)' \subseteq Answering(c) /\ NewestStamp(c) \in Answering(c)'
    BY <1>5, <1>6, <1>7, <1>9 DEF Answering
<1>11. \A s \in Seeds : rows'[AnswerFile(c)][c[2]][s] = rows[AnswerFile(c)][c[2]][s]
    BY <1>4, <1>6, <1>7
<1> QED BY <1>6, <1>10, <1>11, StatusKept

(* A torn line is in the file of the cell in hand. *)
LEMMA TearLeavesGraded ==
    ASSUME TypeInv, RecordsInv, pc = "seed", TearFile(file),
           NEW c \in Cells, c # Cell, NEW w \in 1 .. MaxSeeds, CaseStatus(c, w) = "graded"
    PROVE  CaseStatus(c, w)' = "graded"
<1>1. /\ InPlan /\ file \in Files /\ file[1] = Cell[1] /\ torn' = torn \cup {file} /\ rows' = rows
      /\ \A m \in Models \ {Arm} : Found(file, m) = {}
    BY DEF TearFile, TypeInv, InCase, TypeOK, RecordsInv, Placed
<1>2. Cell \in Cells /\ Arm \in Models /\ Cell = <<Cell[1], Arm>>
    BY <1>1, CellType DEF TypeInv
<1>3. c[1] # Cell[1] \/ c[2] # Arm
    BY <1>2 DEF Cells
<1>4. /\ Answering(c) # {} /\ c[2] \in Models /\ NewestStamp(c) \in Answering(c)
    BY GradedAnswers
<1>5. \A t \in Answering(c) : <<c[1], t>> # file
    BY <1>1, <1>3, <1>4 DEF Answering
<1>6. Answering(c)' = Answering(c)
    BY <1>1, <1>5 DEF Answering, Found
<1> QED BY <1>1, <1>4, <1>6, StatusKept

(* What the next state says of the cell at a place of its plan. *)
LEMMA StatusRead ==
    ASSUME NEW c, NEW w, NEW i, c = plan'[i], w = want'
    PROVE  CaseStatus(plan[i], want)' = CaseStatus(c, w)'
BY DEF CaseStatus, Answering, AnswerFile, NewestStamp, Found, Errors

(* Where a cell was called done, it stays graded whatever a step does. *)
LEMMA CalledStay ==
    ASSUME TypeInv, RecordsInv, EntriesInv, InLoop \/ exit = "0",
           \/ rows' = rows /\ torn' = torn
           \/ \E v \in Row \ {"none"} : RunSeed(v)
           \/ \E t \in Stamps : StartCase(t)
           \/ pc = "seed" /\ TearFile(file)
    PROVE  \A i \in DOMAIN entries, c \in Cells, w \in 1 .. MaxSeeds :
               Called(i) /\ c = plan[i] /\ w = want => CaseStatus(c, w)' = "graded"
<1> SUFFICES ASSUME NEW i \in DOMAIN entries, NEW c \in Cells, NEW w \in 1 .. MaxSeeds,
                    Called(i), c = plan[i], w = want
             PROVE  CaseStatus(c, w)' = "graded"
    OBVIOUS
<1>1. CaseStatus(c, w) = "graded"
    BY DEF EntriesInv, Accounts
<1>2. pc = "seed" => c # Cell
    BY DEF EntriesInv
<1>3. CASE rows' = rows /\ torn' = torn
    BY <1>1, <1>3, StatusStays
<1>4. ASSUME NEW v \in Row \ {"none"}, RunSeed(v) PROVE CaseStatus(c, w)' = "graded"
    <2>1. c # Cell
        BY <1>2, <1>4 DEF RunSeed
    <2> QED BY <1>1, <1>4, <2>1, RunLeavesOthers
<1>5. ASSUME NEW t \in Stamps, StartCase(t) PROVE CaseStatus(c, w)' = "graded"
    BY <1>1, <1>5, StartLeavesGraded
<1>6. CASE pc = "seed" /\ TearFile(file)
    BY <1>1, <1>2, <1>6, TearLeavesGraded
<1> QED BY <1>3, <1>4, <1>5, <1>6

(* So a step that adds no entry keeps the account ... *)
LEMMA AccountsKept ==
    ASSUME TypeInv, RecordsInv, EntriesInv, InLoop \/ exit = "0",
           \/ rows' = rows /\ torn' = torn
           \/ \E v \in Row \ {"none"} : RunSeed(v)
           \/ \E t \in Stamps : StartCase(t)
           \/ pc = "seed" /\ TearFile(file),
           UNCHANGED <<plan, want, entries>>
    PROVE  Accounts'
<1> SUFFICES ASSUME NEW i \in DOMAIN entries
             PROVE  /\ entries[i].cell = plan[i]
                    /\ Called(i) => CaseStatus(plan[i], want)' = "graded"
    BY DEF Accounts, Called
<1>1. entries[i].cell = plan[i]
    BY DEF EntriesInv, Accounts
<1>2. plan[i] \in Cells /\ want \in 1 .. MaxSeeds
    <2>1. /\ entries \in Seq(Entries) /\ plan \in Seq(Cells) /\ want \in 1 .. MaxSeeds
          /\ idx \in Nat \ {0}
        BY DEF TypeInv, TypeOK
    <2>2. Len(entries) <= Len(plan)
        BY <2>1 DEF EntriesInv, InLoop
    <2> QED BY <2>1, <2>2
<1>3. PICK c \in Cells, w \in 1 .. MaxSeeds : c = plan[i] /\ w = want
    BY <1>2
<1>4. Called(i) => CaseStatus(c, w)' = "graded"
    BY <1>3, CalledStay
<1>5. CaseStatus(plan[i], want)' = CaseStatus(c, w)'
    BY <1>3, StatusRead
<1> QED BY <1>1, <1>4, <1>5

(* ... and one that enters the cell in hand adds to it. *)
LEMMA EntryAdded ==
    ASSUME TypeInv, RecordsInv, EntriesInv, pc \in {"case", "seed"}, InPlan,
           (rows' = rows /\ torn' = torn) \/ (pc = "seed" /\ TearFile(file)),
           UNCHANGED <<plan, want>>, NEW st, entries' = Append(entries, Entry(st)),
           st \in {"skipped", "graded"} => Status = "graded" /\ rows' = rows /\ torn' = torn
    PROVE  Accounts' /\ Len(entries') = idx
<1>1. /\ entries \in Seq(Entries) /\ Len(entries) = idx - 1 /\ idx \in Nat \ {0}
      /\ plan \in Seq(Cells) /\ want \in 1 .. MaxSeeds /\ Accounts /\ idx \in DOMAIN plan
    BY DEF TypeInv, TypeOK, EntriesInv, InLoop, InPlan
<1>2. /\ Len(entries') = idx /\ DOMAIN entries' = DOMAIN entries \cup {idx}
      /\ \A i \in DOMAIN entries : entries'[i] = entries[i] /\ i # idx /\ i \in DOMAIN plan
      /\ entries'[idx] = Entry(st)
    <2> HIDE DEF Entry
    <2> QED BY <1>1
<1>3. ASSUME NEW i \in DOMAIN entries'
      PROVE  /\ entries'[i].cell = plan[i]
             /\ entries'[i].status \in {"skipped", "graded"} => CaseStatus(plan[i], want)' = "graded"
    <2>1. PICK c \in Cells, w \in 1 .. MaxSeeds : c = plan[i] /\ w = want
        BY <1>1, <1>2
    <2>2. CaseStatus(plan[i], want)' = CaseStatus(c, w)'
        BY <2>1, StatusRead
    <2>3. CASE i \in DOMAIN entries
        <3>1. entries'[i] = entries[i]
            BY <1>2, <2>3
        <3>2. Called(i) => CaseStatus(c, w)' = "graded"
            BY <2>1, <2>3, CalledStay DEF InLoop
        <3> QED BY <1>1, <2>2, <2>3, <3>1, <3>2 DEF Accounts, Called
    <2>4. CASE i = idx
        <3>1. entries'[i].cell = plan[i] /\ entries'[i].status = st
            BY <1>2, <2>4 DEF Entry, Cell
        <3>2. st \in {"skipped", "graded"} => CaseStatus(c, w) = "graded" /\ rows' = rows /\ torn' = torn
            BY <2>1, <2>4 DEF Status, Cell
        <3> QED BY <2>2, <3>1, <3>2, StatusStays
    <2> QED BY <1>2, <2>3, <2>4
<1> QED BY <1>2, <1>3 DEF Accounts, Called

(* The cell the loop turns to is not one it has called done. *)
LEMMA CellIsOpen ==
    ASSUME TypeInv, EntriesInv, MustRun, NEW i \in DOMAIN entries, Called(i)
    PROVE  plan[i] # Cell
<1>1. /\ entries \in Seq(Entries) /\ plan \in Seq(Cells) /\ Len(entries) = idx - 1
      /\ idx \in Nat \ {0} /\ idx <= Len(plan) /\ Accounts
    BY DEF TypeInv, TypeOK, EntriesInv, InLoop, MustRun, InPlan
<1>2. i \in DOMAIN plan /\ idx \in DOMAIN plan /\ i # idx
    BY <1>1
<1>3. CASE NamesCellsOnce(plan)
    BY <1>2, <1>3 DEF NamesCellsOnce, Cell
<1>4. CASE MaxForced = 0
    <2>1. CaseStatus(Cell, want) # "graded"
        BY <1>4 DEF EntriesInv, MustRun, Status
    <2> QED BY <1>1, <2>1 DEF Accounts
<1> QED BY <1>3, <1>4 DEF EntriesInv

(* Before the first campaign. *)
LEMMA EntriesInit == Init => EntriesInv
<1> SUFFICES ASSUME Init PROVE EntriesInv
    OBVIOUS
<1>1. pc = "idle" /\ plan = <<>> /\ exit = "none" /\ ~force
    BY DEF Init
<1> QED BY <1>1 DEF EntriesInv, NamesCellsOnce, InLoop

(* Every step keeps the account. *)
LEMMA EntriesStep ==
    ASSUME AccountablePlans, TypeInv, RecordsInv, EntriesInv, [Next]_vars
    PROVE  EntriesInv'
<1>0. /\ entries \in Seq(Entries) /\ plan \in Seq(Cells) /\ idx \in Nat \ {0}
      /\ exit = "0" => pc = "idle"
      /\ (pc = "seed" => InPlan) /\ MaxForced \in Nat /\ forced \in Nat
    BY FaultsAssumption DEF TypeInv, TypeOK, EntriesInv, InCase
<1>1. ASSUME NEW p \in Plans, NEW f \in BOOLEAN, NEW w \in Wants, Launch(p, f, w)
      PROVE  EntriesInv'
    <2>1. /\ pc' = "preflight" /\ plan' = p /\ force' = f /\ idx' = 1 /\ entries' = <<>>
          /\ stop' = "no" /\ exit' = "none"
          /\ f => MaxForced # 0
        BY <1>0, <1>1 DEF Launch
    <2> QED BY <2>1 DEF EntriesInv, InLoop, AccountablePlans
<1>2. CASE PreflightPasses
    <2>1. /\ pc = "preflight" /\ pc' = "case" /\ exit # "0"
          /\ UNCHANGED <<plan, force, want, idx, entries, stop, exit>>
        BY <1>0, <1>2 DEF PreflightPasses, runVars
    <2>2. idx = 1 /\ entries = <<>> /\ stop = "no" /\ Len(entries) = 0
        BY <2>1 DEF EntriesInv
    <2>3. Accounts'
        BY <2>1, <2>2 DEF Accounts
    <2>4. Len(plan) \in Nat
        BY <1>0
    <2> QED BY <2>1, <2>2, <2>3, <2>4 DEF EntriesInv
<1>3. CASE PreflightFails \/ ProbeFails
    <2>1. /\ pc # "idle" /\ pc' = "finish" /\ stop' = "halt"
          /\ UNCHANGED <<plan, force, exit>>
        BY <1>3 DEF PreflightFails, ProbeFails, MustRun, runVars
    <2> QED BY <1>0, <2>1 DEF EntriesInv, InLoop
<1>4. CASE SkipCase
    <2>1. /\ pc = "case" /\ pc' = pc /\ InPlan /\ Status = "graded" /\ rows' = rows /\ torn' = torn
          /\ entries' = Append(entries, Entry("skipped")) /\ idx' = idx + 1
          /\ UNCHANGED <<plan, force, want, stop, exit>>
        BY <1>4 DEF SkipCase, diskVars, runVars
    <2>2. Accounts' /\ Len(entries') = idx
        BY <2>1, EntryAdded
    <2>3. Len(entries') = idx' - 1 /\ idx' <= Len(plan) + 1
        BY <1>0, <2>1, <2>2 DEF InPlan
    <2> QED BY <1>0, <2>1, <2>2, <2>3 DEF EntriesInv
<1>5. ASSUME ResumeCase \/ \E t \in Stamps : StartCase(t)
      PROVE  EntriesInv'
    <2>1. /\ MustRun /\ pc = "case" /\ pc' = "seed"
          /\ UNCHANGED <<plan, force, want, idx, entries, stop, exit>>
        BY <1>5 DEF ResumeCase, ResumeWithout, StartCase, StartUnder, MustRun, runVars
    <2>2. Accounts'
        <3>1. (rows' = rows /\ torn' = torn) \/ \E t \in Stamps : StartCase(t)
            BY <1>5 DEF ResumeCase, ResumeWithout, diskVars
        <3> QED BY <2>1, <3>1, AccountsKept DEF InLoop
    <2>3. \A i \in DOMAIN entries : Called(i) => plan[i] # Cell
        BY <2>1, CellIsOpen
    <2> QED BY <1>0, <2>1, <2>2, <2>3 DEF EntriesInv, Called, Cell
<1>6. CASE AllCasesDone
    <2>1. /\ pc = "case" /\ ~InPlan /\ pc' = "finish" /\ rows' = rows /\ torn' = torn
          /\ UNCHANGED <<plan, force, want, idx, entries, stop, exit>>
        BY <1>6 DEF AllCasesDone, diskVars, runVars
    <2>2. Accounts'
        BY <2>1, AccountsKept DEF InLoop
    <2>3. Len(entries) = Len(plan)
        BY <1>0, <2>1 DEF EntriesInv, InPlan
    <2> QED BY <1>0, <2>1, <2>2, <2>3 DEF EntriesInv
<1>7. ASSUME NEW v \in Row \ {"none"}, RunSeed(v) PROVE EntriesInv'
    <2>1. /\ pc = "seed" /\ pc' = pc
          /\ UNCHANGED <<plan, force, want, idx, entries, stop, exit>>
        BY <1>7 DEF RunSeed, runVars
    <2>2. Accounts'
        BY <1>7, <2>1, AccountsKept DEF InLoop
    <2> QED BY <1>0, <2>1, <2>2 DEF EntriesInv, Called, Cell
<1>8. CASE EndCase
    <2>1. /\ pc = "seed" /\ pc' = "case" /\ InPlan /\ rows' = rows /\ torn' = torn
          /\ entries' = Append(entries, Entry(Status)) /\ idx' = idx + 1
          /\ UNCHANGED <<plan, force, want, stop, exit>>
        BY <1>0, <1>8 DEF EndCase, diskVars, runVars
    <2>2. Accounts' /\ Len(entries') = idx
        <3>1. Status \in {"graded", "resumable", "not_started"}
            BY StatusType DEF Status
        <3>2. PICK st : st = Status
            OBVIOUS
        <3> QED BY <2>1, <3>1, <3>2, EntryAdded
    <2>3. Len(entries') = idx' - 1 /\ idx' <= Len(plan) + 1
        BY <1>0, <2>1, <2>2 DEF InPlan
    <2> QED BY <1>0, <2>1, <2>2, <2>3 DEF EntriesInv
<1>9. CASE WriteFails
    <2>1. /\ pc = "seed" /\ pc' = "case" /\ InPlan
          /\ (rows' = rows /\ torn' = torn) \/ TearFile(file)
          /\ entries' = Append(entries, Entry("failed")) /\ idx' = idx + 1
          /\ UNCHANGED <<plan, force, want, stop, exit>>
        BY <1>0, <1>9 DEF WriteFails, diskVars, runVars
    <2>2. Accounts' /\ Len(entries') = idx
        BY <2>1, EntryAdded
    <2>3. Len(entries') = idx' - 1 /\ idx' <= Len(plan) + 1
        BY <1>0, <2>1, <2>2 DEF InPlan
    <2> QED BY <1>0, <2>1, <2>2, <2>3 DEF EntriesInv
<1>10. CASE Interrupt \/ Crash
    <2>1. /\ pc # "idle" /\ UNCHANGED <<plan, force>>
          /\ \/ pc' = "finish" /\ stop' \in {"halt", "raise"} /\ exit' = exit
             \/ pc' = "idle" /\ exit' = "killed"
        BY <1>10 DEF Interrupt, Crash, runVars
    <2> QED BY <1>0, <2>1 DEF EntriesInv, InLoop
<1>11. CASE Finish
    <2>1. /\ pc = "finish" /\ pc' = "idle" /\ rows' = rows /\ torn' = torn
          /\ UNCHANGED <<plan, force, want, entries, stop>>
          /\ exit' = IF torn # {} \/ stop = "raise" THEN "raised"
                     ELSE IF stop = "halt" THEN "1" ELSE "0"
        BY <1>11 DEF Finish, FinishWith, diskVars, runVars
    <2>2. stop \in {"no", "halt", "raise"}
        BY DEF TypeInv, TypeOK
    <2>3. exit' = "0" => stop = "no"
        BY <2>1, <2>2
    <2>4. exit' = "0" => Accounts' /\ Len(entries) = Len(plan)
        BY <2>1, <2>3, AccountsKept DEF EntriesInv, InLoop
    <2> QED BY <2>1, <2>3, <2>4 DEF EntriesInv, InLoop
<1>12. ASSUME UNCHANGED vars \/ \E f \in Files : LoseManifest(f)
       PROVE  EntriesInv'
    <2>1. /\ rows' = rows /\ torn' = torn
          /\ UNCHANGED <<pc, plan, force, want, idx, entries, stop, exit>>
        BY <1>12 DEF vars, diskVars, runVars, LoseManifest
    <2>2. InLoop \/ exit = "0" => Accounts'
        BY <2>1, AccountsKept
    <2> QED BY <2>1, <2>2 DEF EntriesInv, InLoop, Called, Cell
<1> QED BY <1>1, <1>2, <1>3, <1>4, <1>5, <1>6, <1>7, <1>8, <1>9, <1>10, <1>11, <1>12
        DEF Next, Runner, Environment

(* A campaign that ends with status 0 has an entry for every cell of its     *)
(* plan, and what it calls done is complete on disk (campaign.py:439-473),   *)
(* whatever was lost, torn or interrupted before: of campaigns that are not  *)
(* forced, or whose plans name a cell once.                                  *)
THEOREM ZeroExitsAreAccountedFor ==
    ASSUME AccountablePlans
    PROVE  Spec => []ZeroExitAccountsForPlan
<1>1. ASSUME TypeInv, RecordsInv, EntriesInv PROVE ZeroExitAccountsForPlan
    <2> SUFFICES ASSUME exit = "0"
                 PROVE  /\ Len(entries) = Len(plan)
                        /\ \A i \in DOMAIN entries :
                              /\ entries[i].cell = plan[i]
                              /\ entries[i].status \in {"skipped", "graded"} =>
                                    \A s \in Seeds : s < want => Verdict(plan[i], s) \in Graded
        BY DEF ZeroExitAccountsForPlan
    <2>1. Len(entries) = Len(plan) /\ Accounts
        BY <1>1 DEF EntriesInv
    <2>2. entries \in Seq(Entries) /\ plan \in Seq(Cells) /\ want \in 1 .. MaxSeeds
        BY <1>1 DEF TypeInv, TypeOK
    <2>3. ASSUME NEW i \in DOMAIN entries, Called(i), NEW s \in Seeds, s < want
          PROVE  Verdict(plan[i], s) \in Graded
        <3>1. plan[i] \in Cells /\ CaseStatus(plan[i], want) = "graded"
            BY <2>1, <2>2, <2>3 DEF Accounts
        <3> QED BY <1>1, <2>2, <2>3, <3>1, CompleteIfGraded DEF GradedMeansComplete
    <2> QED BY <2>1, <2>3 DEF Accounts, Called
<1>2. TypeInv /\ RecordsInv /\ EntriesInv /\ [Next]_vars => EntriesInv'
    BY EntriesStep
<1>3. Spec => []EntriesInv
    BY <1>2, EntriesInit, RecordsAlways, PTL DEF Spec
<1> QED BY <1>1, <1>3, RecordsAlways, PTL
=============================================================================
