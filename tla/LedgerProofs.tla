----------------------------- MODULE LedgerProofs -----------------------------
(***************************************************************************)
(* Proof that Campaign implements SeedLedger, for every set of cases and   *)
(* arms and any number of seeds, stamps and forced runs, under crashes,    *)
(* interrupts and failed writes.                                           *)
(***************************************************************************)
EXTENDS CampaignProofs

(* Which campaigns keep a ledger: no line is cut short, no manifest is lost, *)
(* and a plan names a case once.                                             *)

Undamaged == "tear" \notin Faults /\ "orphan" \notin Faults
NamesCasesOnce(p) == \A i, j \in DOMAIN p : p[i][1] = p[j][1] => i = j
LedgerPlans == \A p \in Plans : NamesCasesOnce(p)

(* What was written stays readable and resumable. *)
IntactInv ==
    /\ torn = {} /\ NamesCasesOnce(plan)
    /\ pc = "seed" => file \in manifest
    /\ \A f \in Files, m \in Models : Found(f, m) # {} => f \in manifest

(* The open file is the newest of its cell, and it is the first unless the *)
(* run was forced.                                                         *)
NewestInv ==
    pc = "seed" =>
        /\ \A u \in Held(Cell) : u <= file[2]
        /\ Found(file, Arm) = {} => force \/ Held(Cell) = {}

(* Rows under a stamp that may be given out again are of cases done with. *)
ReuseInv ==
    sameSecond /\ pc \in {"preflight", "case", "seed"} =>
        \A f \in Files, m \in Models : f[2] = last /\ Found(f, m) # {} =>
            \E j \in DOMAIN plan : /\ plan[j][1] = f[1]
                                   /\ j < idx \/ (j = idx /\ pc = "seed")

LedgerInv == IntactInv /\ NewestInv /\ ReuseInv

(* With nothing torn, the newest file with rows of a cell answers for it. *)
NewestAnswers ==
    torn = {} => \A c \in Cells :
        /\ Held(c) = {} => \A s \in Seeds : Verdict(c, s) = "none"
        /\ \A t \in Held(c) : (\A u \in Held(c) : u <= t) =>
               \A s \in Seeds : Verdict(c, s) = rows[<<c[1], t>>][c[2]][s]

(* The scan of case_status reads the newest file that holds rows of the cell. *)
LEMMA VerdictRead == NewestAnswers
<1> SUFFICES ASSUME torn = {}, NEW c \in Cells
             PROVE  /\ Held(c) = {} => \A s \in Seeds : Verdict(c, s) = "none"
                    /\ \A t \in Held(c) : (\A u \in Held(c) : u <= t) =>
                           \A s \in Seeds : Verdict(c, s) = rows[<<c[1], t>>][c[2]][s]
    BY DEF NewestAnswers
<1>1. Answering(c) = Held(c)
    BY DEF Answering, Held
<1>2. ASSUME NEW t \in Held(c), \A u \in Held(c) : u <= t
      PROVE  NewestStamp(c) = t
    <2>1. NewestStamp(c) \in Stamps /\ t \in Stamps /\ NewestStamp(c) <= t /\ t <= NewestStamp(c)
        BY <1>1, <1>2, NewestStampAnswers DEF Held
    <2> QED BY <2>1 DEF Stamps
<1> QED BY <1>1, <1>2 DEF Verdict, AnswerFile

(* A run started under any stamp truncates nothing. *)
LEMMA StartsEmpty ==
    ASSUME TypeInv, RecordsInv, LedgerInv, NEW t \in Stamps, StartCase(t)
    PROVE  /\ \A m \in Models : Found(<<Cell[1], t>>, m) = {}
           /\ rows' = rows /\ torn' = torn
<1> DEFINE f == <<Cell[1], t>>
<1>1. /\ InPlan /\ OpenFresh(f) /\ pc = "case" /\ idx \in DOMAIN plan
      /\ t = last + 1 \/ (sameSecond /\ t = last)
    BY DEF StartCase, StartUnder, MustRun, InPlan, TypeInv, TypeOK
<1>2. f \in Files /\ last \in Nat /\ f[1] = Cell[1] /\ f[2] = t
    BY <1>1, CellType DEF TypeInv, TypeOK, Files
<1> HIDE DEF f
<1>3. ASSUME NEW m \in Models, Found(f, m) # {} PROVE FALSE
    <2>1. ~(t > last)
        BY <1>2, <1>3 DEF RecordsInv, ClockInv
    <2>2. sameSecond /\ t = last
        BY <1>1, <1>2, <2>1
    <2>3. PICK j \in DOMAIN plan : plan[j][1] = Cell[1] /\ j < idx
        BY <1>1, <1>2, <1>3, <2>2 DEF LedgerInv, ReuseInv
    <2>4. j = idx
        BY <1>1, <2>3 DEF LedgerInv, IntactInv, NamesCasesOnce, Cell
    <2> QED BY <2>3, <2>4 DEF TypeInv, TypeOK
<1>4. rows[f] = EmptyFile
    <2>1. \A m \in Models, s \in Seeds : rows[f][m][s] = "none"
        BY <1>3 DEF Found
    <2>2. rows[f] \in [Models -> [Seeds -> Row]]
        BY <1>2 DEF TypeInv, TypeOK, DiskTypeOK
    <2> QED BY <2>1, <2>2 DEF EmptyFile
<1>5. rows' = rows
    BY <1>1, <1>2, <1>4 DEF OpenFresh, TypeInv, TypeOK, DiskTypeOK
<1>6. torn' = torn
    BY <1>1 DEF OpenFresh, LedgerInv, IntactInv
<1> QED BY <1>3, <1>5, <1>6 DEF f

(* An empty directory satisfies the invariant. *)
LEMMA LedgerInvInit == Init => LedgerInv
<1> SUFFICES ASSUME Init PROVE LedgerInv
    OBVIOUS
<1>1. \A f \in Files, m \in Models : Found(f, m) = {}
    BY DEF Init, DiskInit, EmptyFile, Found
<1>2. DOMAIN plan = {}
    BY DEF Init
<1> QED BY <1>1, <1>2 DEF Init, DiskInit, LedgerInv, IntactInv, NewestInv, ReuseInv, NamesCasesOnce

(* Steps that leave the records alone. *)
LEMMA LedgerKept ==
    ASSUME TypeInv, LedgerInv, rows' = rows, torn' = torn, manifest' = manifest, pc' # "seed",
           NamesCasesOnce(plan'),
           sameSecond' /\ pc' \in {"preflight", "case"} =>
               /\ sameSecond /\ pc \in {"preflight", "case", "seed"} /\ plan' = plan /\ last' = last
               /\ idx' \in {idx, idx + 1} /\ (pc = "seed" => idx' = idx + 1)
    PROVE  LedgerInv'
<1>1. \A f, m : Found(f, m)' = Found(f, m)
    BY DEF Found
<1>2. IntactInv' /\ NewestInv'
    BY <1>1 DEF LedgerInv, IntactInv, NewestInv, NamesCasesOnce
<1>3. ReuseInv'
    <2> SUFFICES ASSUME sameSecond', pc' \in {"preflight", "case"}, NEW f \in Files, NEW m \in Models,
                        f[2] = last', Found(f, m)' # {}
                 PROVE  \E j \in DOMAIN plan' : plan'[j][1] = f[1] /\ j < idx'
        BY DEF ReuseInv
    <2>1. PICK j \in DOMAIN plan : plan[j][1] = f[1] /\ (j < idx \/ (j = idx /\ pc = "seed"))
        BY <1>1 DEF LedgerInv, ReuseInv
    <2>2. j \in Nat /\ idx \in Nat
        BY <2>1 DEF TypeInv, TypeOK
    <2>3. j < idx'
        BY <2>1, <2>2
    <2> QED BY <2>1, <2>3
<1> QED BY <1>2, <1>3 DEF LedgerInv

(* A new file is newer than all others of its case. *)
LEMMA LedgerStarted ==
    ASSUME TypeInv, RecordsInv, LedgerInv, NEW t \in Stamps, StartCase(t)
    PROVE  LedgerInv'
<1>1. /\ InPlan /\ idx \in DOMAIN plan /\ idx \in Nat /\ pc = "case" /\ ~Resumes
      /\ UNCHANGED <<plan, idx, force>> /\ last' = t /\ file' = <<Cell[1], t>> /\ pc' = "seed"
      /\ t = last + 1 \/ (sameSecond /\ t = last)
      /\ manifest' = manifest \cup {<<Cell[1], t>>}
      /\ Status # "graded" \/ force
    BY DEF StartCase, StartUnder, MustRun, runVars, OpenFresh, InPlan, TypeInv, TypeOK
<1>2. /\ Cell \in Cells /\ Cell' = Cell /\ Arm' = Arm /\ Arm = Cell[2] /\ Arm \in Models
      /\ <<Cell[1], t>> \in Files /\ last \in Nat
    BY <1>1, CellType DEF TypeInv, TypeOK, Cell, Arm, Files
<1>3. rows' = rows /\ torn' = torn /\ \A m \in Models : Found(<<Cell[1], t>>, m) = {}
    BY StartsEmpty
<1>4. \A f, m : Found(f, m)' = Found(f, m)
    BY <1>3 DEF Found
<1>5. \A c : Held(c)' = Held(c)
    BY <1>3, HeldKept
<1>6. IntactInv'
    BY <1>1, <1>3, <1>4 DEF LedgerInv, IntactInv, NamesCasesOnce
<1>7. \A u \in Held(Cell) : u <= t
    <2> SUFFICES ASSUME NEW u \in Held(Cell) PROVE u <= t
        OBVIOUS
    <2>1. u \in Stamps /\ <<Cell[1], u>> \in Files /\ Found(<<Cell[1], u>>, Arm) # {}
        BY <1>2 DEF Held, Cells, Files
    <2>2. ~(u > last)
        BY <1>2, <2>1 DEF RecordsInv, ClockInv
    <2> QED BY <1>1, <1>2, <2>1, <2>2 DEF Stamps
<1>8. ~force => Held(Cell) = {}
    <2> SUFFICES ASSUME ~force, Held(Cell) # {} PROVE FALSE
        OBVIOUS
    <2>1. Answering(Cell) # {}
        BY DEF Answering, Held, LedgerInv, IntactInv
    <2>2. AnswerFile(Cell) \in Files /\ Found(AnswerFile(Cell), Arm) # {}
        BY <1>2, <2>1, NewestStampAnswers
    <2>3. AnswerFile(Cell) \in manifest
        BY <1>2, <2>2 DEF LedgerInv, IntactInv
    <2>4. Status = "resumable"
        BY <1>1, <2>1, StatusType DEF Status, CaseStatus
    <2> QED BY <1>1, <2>3, <2>4 DEF Resumes
<1>9. NewestInv'
    BY <1>1, <1>2, <1>5, <1>7, <1>8 DEF NewestInv
<1>10. ReuseInv'
    <2> SUFFICES ASSUME NEW f \in Files, NEW m \in Models, f[2] = t, Found(f, m) # {}
                 PROVE  \E j \in DOMAIN plan : plan[j][1] = f[1] /\ (j < idx \/ j = idx)
        BY <1>1, <1>4 DEF ReuseInv
    <2>1. ~(t > last)
        BY DEF RecordsInv, ClockInv
    <2>2. sameSecond /\ t = last
        BY <1>1, <1>2, <2>1
    <2> QED BY <1>1, <2>2 DEF LedgerInv, ReuseInv
<1> QED BY <1>6, <1>9, <1>10 DEF LedgerInv

(* A seed's row is a record of the ledger: a retry or the next seed, or the *)
(* first of a forced run.                                                   *)
LEMMA LedgerRun ==
    ASSUME TypeInv, RecordsInv, LedgerInv, NEW v \in Row \ {"none"}, RunSeed(v), NewestAnswers'
    PROVE  /\ LedgerInv'
           /\ Ledger!LedgerNext
<1>1. /\ pc = "seed" /\ pc' = "seed" /\ InPlan /\ idx \in DOMAIN plan
      /\ todo # {} /\ todo \subseteq Seeds
      /\ AppendRow(file, Arm, NextSeed, v) /\ file \in Files
      /\ UNCHANGED <<torn, manifest, plan, force, idx, last, file>>
      /\ sameSecond' => sameSecond
    BY DEF RunSeed, AppendRow, TypeInv, InCase, InPlan, TypeOK, runVars
<1>2. /\ Cell \in Cells /\ Arm \in Models /\ Cell' = Cell /\ Arm' = Arm /\ Arm = Cell[2]
      /\ Cell = <<Cell[1], Arm>>
    BY <1>1, CellType DEF TypeInv, Cell, Arm
<1>3. NextSeed \in todo /\ NextSeed \in Seeds /\ \A u \in todo : NextSeed <= u
    BY <1>1, NextSeedIsLeast
<1>4. \A g \in Files, n \in Models, u \in Seeds :
          rows'[g][n][u] = IF g = file /\ n = Arm /\ u = NextSeed THEN v ELSE rows[g][n][u]
    BY <1>1, <1>2, <1>3, AppendRowRows DEF TypeInv, TypeOK
<1>5. /\ file = <<Cell[1], file[2]>> /\ file[2] \in Stamps
      /\ \A s \in todo : rows[file][Arm][s] \notin Graded
      /\ \A s \in todo, u \in Seeds : u < s => u \in todo \cup Found(file, Arm)
    BY <1>1 DEF RecordsInv, Placed, Files
<1>6. \A g \in Files, n \in Models :
          Found(g, n)' = IF g = file /\ n = Arm THEN Found(g, n) \cup {NextSeed}
                         ELSE Found(g, n)
    BY <1>3, <1>4 DEF Found
<1>7. \A c \in Cells : Held(c)' = IF c = Cell THEN Held(c) \cup {file[2]} ELSE Held(c)
    <2> SUFFICES ASSUME NEW c \in Cells, NEW u \in Stamps
                 PROVE  u \in Held(c)' <=> u \in Held(c) \/ (c = Cell /\ u = file[2])
        BY <1>5 DEF Held
    <2>1. <<c[1], u>> \in Files /\ c[2] \in Models /\ c = <<c[1], c[2]>>
        BY DEF Cells, Files
    <2>2. <<c[1], u>> = file /\ c[2] = Arm <=> c = Cell /\ u = file[2]
        BY <1>2, <1>5, <2>1
    <2> QED BY <1>6, <2>1, <2>2 DEF Held
<1>8. \A u \in Held(Cell) : u <= file[2]
    BY <1>1 DEF LedgerInv, NewestInv
<1>9. LedgerInv'
    <2>1. IntactInv'
        BY <1>1, <1>6 DEF LedgerInv, IntactInv, NamesCasesOnce
    <2>2. NewestInv'
        <3>1. \A u \in Held(Cell)' : u <= file[2]
            BY <1>2, <1>5, <1>7, <1>8 DEF Stamps
        <3>2. Found(file, Arm)' # {}
            BY <1>1, <1>2, <1>3, <1>4 DEF Found
        <3> QED BY <1>1, <1>2, <3>1, <3>2 DEF NewestInv
    <2>3. ReuseInv'
        <3> SUFFICES ASSUME sameSecond, NEW f \in Files, NEW m \in Models,
                            f[2] = last, Found(f, m)' # {}
                     PROVE  \E j \in DOMAIN plan : plan[j][1] = f[1] /\ (j < idx \/ j = idx)
            BY <1>1 DEF ReuseInv
        <3>1. CASE Found(f, m) # {}
            BY <1>1, <3>1 DEF LedgerInv, ReuseInv
        <3>2. CASE f = file
            BY <1>1, <1>5, <3>2 DEF Cell
        <3> QED BY <1>6, <3>1, <3>2
    <2> QED BY <2>1, <2>2, <2>3 DEF LedgerInv
<1> DEFINE L == [c \in Cells |-> [s \in Seeds |-> Verdict(c, s)]]
<1>10. \A s \in Seeds : Verdict(Cell, s)' = rows'[file][Arm][s]
    <2>1. torn' = {} /\ file[2] \in Held(Cell)' /\ \A u \in Held(Cell)' : u <= file[2]
        BY <1>1, <1>2, <1>5, <1>7, <1>8 DEF LedgerInv, IntactInv, Stamps
    <2> QED BY <1>2, <1>5, <2>1 DEF NewestAnswers
<1>11. ASSUME NEW c \in Cells, c # Cell, NEW s \in Seeds PROVE Verdict(c, s)' = Verdict(c, s)
    <2>1. Held(c)' = Held(c) /\ torn = {} /\ torn' = {}
        BY <1>1, <1>7, <1>11 DEF LedgerInv, IntactInv
    <2>2. CASE Held(c) = {}
        BY <2>1, <2>2, VerdictRead DEF NewestAnswers
    <2>3. CASE Held(c) # {}
        <3>1. PICK t \in Held(c) : \A u \in Held(c) : u <= t
            BY <2>3, NewestHeldIsTop DEF Top
        <3>2. Verdict(c, s) = rows[<<c[1], t>>][c[2]][s]
            BY <2>1, <3>1, VerdictRead DEF NewestAnswers
        <3>3. Verdict(c, s)' = rows'[<<c[1], t>>][c[2]][s]
            BY <2>1, <3>1 DEF NewestAnswers
        <3>4. <<c[1], t>> \in Files /\ c[2] \in Models /\ ~(<<c[1], t>> = file /\ c[2] = Arm)
            BY <1>2, <1>5, <1>11, <3>1 DEF Held, Cells, Files
        <3> QED BY <1>4, <3>2, <3>3, <3>4
    <2> QED BY <2>2, <2>3
<1>12. CASE Found(file, Arm) # {}
    <2>1. file[2] \in Held(Cell)
        BY <1>2, <1>5, <1>12 DEF Held
    <2>2. \A s \in Seeds : Verdict(Cell, s) = rows[file][Arm][s]
        BY <1>2, <1>5, <1>8, <2>1, VerdictRead DEF NewestAnswers, LedgerInv, IntactInv
    <2>3. L' = [L EXCEPT ![Cell][NextSeed] = v]
        <3>1. \A s \in Seeds : Verdict(Cell, s)' = IF s = NextSeed THEN v ELSE Verdict(Cell, s)
            BY <1>1, <1>2, <1>4, <1>10, <2>2
        <3> QED BY <1>2, <1>3, <1>11, <3>1
    <2>4. L[Cell][NextSeed] \notin Graded
        BY <1>2, <1>3, <1>5, <2>2
    <2>5. \A u \in Seeds : u < NextSeed => L[Cell][u] # "none"
        <3> SUFFICES ASSUME NEW u \in Seeds, u < NextSeed PROVE L[Cell][u] # "none"
            OBVIOUS
        <3>1. u \notin todo
            BY <1>3 DEF Seeds
        <3> QED BY <1>2, <1>3, <1>5, <2>2, <3>1 DEF Found
    <2>6. Ledger!Record(Cell, NextSeed, v)
        BY <1>1, <2>3, <2>4, <2>5 DEF Ledger!Record, Ledger!InOrder
    <2>7. v \in Ledger!Verdicts
        BY DEF Ledger!Verdicts, Row
    <2> QED BY <1>2, <1>3, <1>9, <2>6, <2>7 DEF Ledger!LedgerNext
<1>13. CASE Found(file, Arm) = {}
    <2>1. \A s \in Seeds : rows[file][Arm][s] = "none"
        BY <1>13 DEF Found
    <2>2. NextSeed = 0 /\ 0 \in Seeds
        <3>1. 0 \in Seeds
            BY BoundsAssumption DEF Seeds
        <3>2. ~(0 < NextSeed)
            BY <1>3, <1>5, <1>13, <3>1 DEF Seeds
        <3> QED BY <1>3, <3>1, <3>2 DEF Seeds
    <2>3. \A s \in Seeds : Verdict(Cell, s)' = IF s = 0 THEN v ELSE "none"
        BY <1>1, <1>2, <1>4, <1>10, <2>1, <2>2
    <2>4. v \in Ledger!Verdicts
        BY DEF Ledger!Verdicts, Row
    <2>5. CASE force
        <3>1. L' = [L EXCEPT ![Cell] = [[s \in Seeds |-> "none"] EXCEPT ![0] = v]]
            BY <1>2, <1>11, <2>3
        <3>2. Ledger!Supersede(Cell, v)
            BY <1>1, <2>5, <3>1 DEF Ledger!Supersede, Ledger!Blank
        <3> QED BY <1>2, <1>9, <2>4, <3>2 DEF Ledger!LedgerNext
    <2>6. CASE Held(Cell) = {}
        <3>1. \A s \in Seeds : Verdict(Cell, s) = "none"
            BY <1>2, <2>6, VerdictRead DEF NewestAnswers, LedgerInv, IntactInv
        <3>2. L' = [L EXCEPT ![Cell][0] = v]
            BY <1>2, <1>11, <2>2, <2>3, <3>1
        <3>3. L[Cell][0] \notin Graded
            BY <1>2, <2>2, <3>1, GradedAssumption
        <3>4. \A u \in Seeds : ~(u < 0)
            BY DEF Seeds
        <3>5. Ledger!Record(Cell, 0, v)
            BY <1>1, <3>2, <3>3, <3>4 DEF Ledger!Record, Ledger!InOrder
        <3> QED BY <1>2, <1>9, <2>2, <2>4, <3>5 DEF Ledger!LedgerNext
    <2> QED BY <1>1, <1>13, <2>5, <2>6 DEF LedgerInv, NewestInv
<1> QED BY <1>9, <1>12, <1>13

(* Verdicts are a function of the rows on disk. *)
LEMMA VerdictsStay ==
    ASSUME rows' = rows, torn' = torn
    PROVE  UNCHANGED [c \in Cells |-> [s \in Seeds |-> Verdict(c, s)]]
<1>1. ASSUME NEW c PROVE Answering(c)' = Answering(c)
    BY DEF Answering, Found
<1>2. ASSUME NEW c PROVE AnswerFile(c)' = AnswerFile(c)
    BY <1>1 DEF AnswerFile, NewestStamp
<1>3. ASSUME NEW c, NEW s PROVE Verdict(c, s)' = Verdict(c, s)
    <2>1. (Answering(c) = {})' <=> Answering(c) = {}
        BY <1>1
    <2>2. rows[AnswerFile(c)][c[2]][s]' = rows[AnswerFile(c)][c[2]][s]
        BY <1>2
    <2> QED BY <2>1, <2>2 DEF Verdict
<1> QED BY <1>3

(* A step that writes no row is no step of the ledger. *)
LEMMA LedgerStutters ==
    ASSUME rows' = rows, torn' = torn, force' = force
    PROVE  UNCHANGED Ledger!ledgerVars
BY VerdictsStay DEF Ledger!ledgerVars

(* A resumed cell goes on in its newest file. *)
LEMMA LedgerResumed ==
    ASSUME TypeInv, RecordsInv, LedgerInv, ResumeCase
    PROVE  LedgerInv'
<1>1. /\ InPlan /\ Answering(Cell) # {} /\ file' = AnswerFile(Cell) /\ file' \in manifest
      /\ pc = "case" /\ pc' = "seed"
      /\ UNCHANGED <<rows, torn, manifest, plan, idx, last, sameSecond, force>>
    BY DEF ResumeCase, ResumeWithout, MustRun, Resumes, Status, CaseStatus, runVars,
           clockVars, diskVars
<1>2. Cell \in Cells /\ Cell' = Cell /\ Arm' = Arm /\ Arm = Cell[2]
    BY <1>1, CellType DEF TypeInv, Cell, Arm
<1>3. /\ \A c : Held(c)' = Held(c)
      /\ \A f, m : Found(f, m)' = Found(f, m)
    BY <1>1, HeldKept DEF Found
<1>4. Held(Cell) = Answering(Cell)
    BY DEF Held, Answering, LedgerInv, IntactInv
<1>5. (\A u \in Held(Cell) : u <= file'[2]) /\ Found(file', Arm) # {}
    BY <1>1, <1>2, <1>4, NewestStampAnswers
<1>6. IntactInv' /\ NewestInv'
    BY <1>1, <1>2, <1>3, <1>5 DEF LedgerInv, IntactInv, NewestInv, NamesCasesOnce
<1>7. ReuseInv'
    BY <1>1, <1>3 DEF LedgerInv, ReuseInv
<1> QED BY <1>6, <1>7 DEF LedgerInv

(* Every step keeps the invariant and is a step of the ledger or a stutter. *)
LEMMA LedgerStep ==
    ASSUME Undamaged, LedgerPlans,
           TypeInv, RecordsInv, LedgerInv, NewestAnswers', [Next]_vars
    PROVE  LedgerInv' /\ [Ledger!LedgerNext]_(Ledger!ledgerVars)
<1> DEFINE Goal == LedgerInv' /\ [Ledger!LedgerNext]_(Ledger!ledgerVars)
<1>0. NamesCasesOnce(plan)
    BY DEF LedgerInv, IntactInv
<1>1. ASSUME UNCHANGED <<rows, torn, manifest, force>>, pc' # "seed", NamesCasesOnce(plan'),
             sameSecond' /\ pc' \in {"preflight", "case"} =>
                 /\ sameSecond /\ pc \in {"preflight", "case", "seed"} /\ plan' = plan /\ last' = last
                 /\ idx' \in {idx, idx + 1} /\ (pc = "seed" => idx' = idx + 1)
      PROVE  Goal
    BY <1>1, LedgerKept, LedgerStutters
<1>2. ASSUME NEW p \in Plans, NEW f \in BOOLEAN, NEW w \in Wants, Launch(p, f, w)
      PROVE  Goal
    <2>1. /\ UNCHANGED <<rows, torn, manifest>> /\ pc' = "preflight" /\ plan' = p
          /\ force' \in BOOLEAN /\ sameSecond' = FALSE
        BY <1>2 DEF Launch, diskVars
    <2>2. LedgerInv'
        BY <2>1, LedgerKept DEF LedgerPlans, NamesCasesOnce
    <2>3. UNCHANGED [c \in Cells |-> [s \in Seeds |-> Verdict(c, s)]]
        BY <2>1, VerdictsStay
    <2> QED BY <2>1, <2>2, <2>3 DEF Ledger!LedgerNext, Ledger!Choose
<1>3. CASE PreflightPasses \/ PreflightFails
    <2>1. /\ UNCHANGED <<rows, torn, manifest, force, plan, idx, last, sameSecond>>
          /\ pc = "preflight" /\ pc' \in {"case", "finish"}
        BY <1>3 DEF PreflightPasses, PreflightFails, diskVars, runVars, clockVars
    <2> QED BY <1>0, <1>1, <2>1
<1>4. CASE SkipCase \/ ProbeFails \/ EndCase \/ AllCasesDone
    <2>1. /\ UNCHANGED <<rows, torn, manifest, force, plan, last, sameSecond>>
          /\ pc \in {"case", "seed"} /\ pc' \in {"case", "finish"}
          /\ pc' = "case" => idx' = idx + 1
        BY <1>4 DEF SkipCase, ProbeFails, MustRun, EndCase, AllCasesDone, diskVars, runVars,
                    clockVars
    <2> QED BY <1>0, <1>1, <2>1
<1>5. CASE Interrupt \/ Finish
    <2>1. /\ UNCHANGED <<rows, torn, manifest, force, plan>>
          /\ pc' \in {"finish", "idle"}
        BY <1>5 DEF Interrupt, Finish, FinishWith, diskVars, runVars
    <2> QED BY <1>0, <1>1, <2>1
<1>6. CASE WriteFails \/ Crash
    <2>1. /\ UNCHANGED <<rows, torn, manifest, force, plan, last, sameSecond>>
          /\ \/ pc' = "idle"
             \/ pc = "seed" /\ pc' = "case" /\ idx' = idx + 1
        BY <1>6 DEF WriteFails, Crash, diskVars, runVars, clockVars, Undamaged
    <2> QED BY <1>0, <1>1, <2>1
<1>7. ASSUME NEW f \in Files, LoseManifest(f) PROVE Goal
    BY <1>7 DEF LoseManifest, Trouble, Undamaged
<1>8. CASE ResumeCase
    <2>1. LedgerInv'
        BY <1>8, LedgerResumed
    <2>2. UNCHANGED <<rows, torn, force>>
        BY <1>8 DEF ResumeCase, ResumeWithout, diskVars, runVars
    <2> QED BY <2>1, <2>2, LedgerStutters
<1>9. ASSUME NEW t \in Stamps, StartCase(t) PROVE Goal
    <2>1. UNCHANGED <<rows, torn, force>>
        BY <1>9, StartsEmpty DEF StartCase, StartUnder, runVars
    <2> QED BY <1>9, <2>1, LedgerStarted, LedgerStutters
<1>10. ASSUME NEW v \in Row \ {"none"}, RunSeed(v) PROVE Goal
    BY <1>10, LedgerRun
<1>11. CASE UNCHANGED vars
    <2>1. /\ UNCHANGED <<rows, torn, manifest, force, plan, idx, pc, file, last, sameSecond>>
          /\ Cell' = Cell /\ Arm' = Arm
        BY <1>11 DEF vars, diskVars, runVars, clockVars, Cell, Arm
    <2>2. LedgerInv'
        BY <2>1, HeldKept DEF LedgerInv, IntactInv, NewestInv, ReuseInv, NamesCasesOnce, Found
    <2> QED BY <2>1, <2>2, LedgerStutters
<1> QED BY <1>2, <1>3, <1>4, <1>5, <1>6, <1>7, <1>8, <1>9, <1>10, <1>11
        DEF Next, Runner, Environment

(* Unless a line is cut short, a manifest is lost or two arms of a case run  *)
(* in one campaign, the directory read through case_status keeps a ledger:   *)
(* seeds in order, lost ones retried, graded ones never touched, only a      *)
(* forced run starts over (README.md resume semantics).                      *)
THEOREM CampaignKeepsALedger ==
    ASSUME Undamaged, LedgerPlans
    PROVE  Spec => ImplementsLedger
<1>1. Init => Ledger!LedgerInit
    <2> SUFFICES ASSUME Init PROVE Ledger!LedgerInit
        OBVIOUS
    <2>1. \A c \in Cells : Held(c) = {}
        BY DEF Init, DiskInit, EmptyFile, Held, Found, Cells, Files
    <2>2. \A c \in Cells, s \in Seeds : Verdict(c, s) = "none"
        BY <2>1, VerdictRead DEF NewestAnswers, Init, DiskInit
    <2> QED BY <2>2 DEF Init, Ledger!LedgerInit, Ledger!Blank
<1>2. TypeInv /\ RecordsInv /\ LedgerInv /\ NewestAnswers' /\ [Next]_vars =>
          LedgerInv' /\ [Ledger!LedgerNext]_(Ledger!ledgerVars)
    BY LedgerStep
<1>3. NewestAnswers
    BY VerdictRead
<1> QED BY <1>1, <1>2, VerdictRead, LedgerInvInit, RecordsAlways, PTL
        DEF Spec, ImplementsLedger, Ledger!LedgerSpec
===============================================================================
