---------------------------- MODULE JobBridgeProofs ----------------------------
(***************************************************************************)
(* What the job bridge guarantees for any number of workers, jobs, seeds,  *)
(* attempts and troubles, given jobs whose ids differ in the suffix and a  *)
(* reference that keeps the promise of ReferenceSeam (RefCacheProofs).     *)
(***************************************************************************)
EXTENDS JobBridge, NaturalLemmas, FiniteSetTheorems

-----------------------------------------------------------------------------
(* The inductive invariant.                                                *)

Working(w) == at[w] # "none"

(* A job is run by one worker, whose process is up, and has an attempt; a  *)
(* call to the seam is made for a seed; a queued job has an attempt left.  *)
WorkersInv ==
    /\ \A w \in Procs :
        /\ Working(w) => status[at[w]] = "running" /\ attempt[at[w]] >= 1 /\ call[w] # "down"
        /\ call[w] \in {"asked", "returned", "raised"} => Working(w) /\ seed[w] < N
        /\ call[w] = "returned" => memo[w] # "none"
    /\ \A v, w \in Procs : Working(v) /\ at[v] = at[w] => v = w
    /\ \A j \in Jobs :
        /\ status[j] = "queued" => attempt[j] < Budget[j]
        /\ status[j] = "done" => attempt[j] >= 1

(* The file of an attempt not handed out yet is empty; that of the attempt *)
(* in hand has rows for the seeds before this one, graded against what the *)
(* worker was told.                                                        *)
FilesInv ==
    /\ \A j \in Jobs : \A a \in 1 .. Budget[j] : \A s \in JobSeeds :
        a > attempt[j] => records[Stamp(j, a)][s] = NoRow
    /\ \A w \in Procs : Working(w) => \A s \in JobSeeds :
        /\ records[File(w)][s] = NoRow <=> s >= seed[w]
        /\ IsGraded(records[File(w)][s]) => records[File(w)][s][2] = memo[w]

(* The summary of an attempt about to be reported is that of its rows. *)
SummaryInv ==
    /\ summary = [f \in Names |-> summary[f]]
    /\ \A w \in Procs : Working(w) /\ seed[w] = N + 1 =>
        summary[File(w)] = Aggregate(records[File(w)])

JobInv == TypeOK /\ WorkersInv /\ FilesInv /\ SummaryInv /\ OneYardstick /\ DoneIsMeasured

-----------------------------------------------------------------------------
(* Files.                                                                  *)

(* Stamps tell attempts apart. *)
LEMMA StampsDiffer ==
    ASSUME NEW i \in Jobs, NEW j \in Jobs, NEW a, NEW b
    PROVE  Stamp(i, a) = Stamp(j, b) => i = j /\ a = b
BY SuffixAssumption DEF Stamp

LEMMA StampsAreNames ==
    ASSUME NEW j \in Jobs, NEW a \in 1 .. Budget[j]
    PROVE  Stamp(j, a) \in Names
BY DEF Stamp, Names

LEMMA NamesAreStamps ==
    ASSUME NEW f \in Names
    PROVE  \E j \in Jobs : \E a \in 1 .. Budget[j] : f = Stamp(j, a)
BY DEF Stamp, Names

LEMMA RowKinds ==
    /\ NoRow \in JobRow /\ ErrorRow \in JobRow
    /\ \A row \in JobRow : \/ row = NoRow \/ row = ErrorRow
                           \/ row[1] \in Results /\ row[2] \in Codes
    /\ \A v \in Results, c \in Codes : <<v, c>> \in JobRow /\ IsGraded(<<v, c>>)
    /\ ~IsGraded(NoRow) /\ ~IsGraded(ErrorRow) /\ NoRow # ErrorRow
BY DEF JobRow, NoRow, ErrorRow, Results, IsGraded

(* A worker's file is a name, and no other worker's. *)
LEMMA FilesDiffer ==
    ASSUME TypeOK, WorkersInv, NEW v \in Procs, NEW w \in Procs, Working(v), Working(w)
    PROVE  /\ at[w] \in Jobs /\ attempt[at[w]] \in 1 .. Budget[at[w]] /\ File(w) \in Names
           /\ File(v) = File(w) => v = w
<1>1. at[v] \in Jobs /\ at[w] \in Jobs
    BY DEF TypeOK, Working
<1>2. \A j \in Jobs : attempt[j] \in Nat /\ attempt[j] <= Budget[j] /\ Budget[j] \in Nat
    BY JobsAssumption DEF TypeOK
<1>3. attempt[at[w]] \in 1 .. Budget[at[w]]
    BY <1>1, <1>2 DEF WorkersInv
<1>4. File(w) \in Names
    BY <1>1, <1>3, StampsAreNames DEF File
<1>5. File(v) = File(w) => v = w
    BY <1>1, StampsDiffer DEF File, WorkersInv
<1> QED BY <1>1, <1>3, <1>4, <1>5

(* The file of a done job is a name and no worker's. *)
LEMMA DoneFiles ==
    ASSUME TypeOK, WorkersInv, NEW j \in Jobs, status[j] = "done"
    PROVE  /\ RunRef(j) \in Names
           /\ \A w \in Procs : Working(w) => File(w) # RunRef(j)
<1>1. attempt[j] \in 1 .. Budget[j]
    BY JobsAssumption DEF TypeOK, WorkersInv
<1>2. RunRef(j) \in Names
    BY <1>1, StampsAreNames DEF RunRef
<1>3. ASSUME NEW w \in Procs, Working(w) PROVE File(w) # RunRef(j)
    <2>1. at[w] \in Jobs /\ status[at[w]] = "running"
        BY <1>3 DEF TypeOK, WorkersInv, Working
    <2> QED BY <2>1, StampsDiffer DEF File, RunRef
<1> QED BY <1>2, <1>3

-----------------------------------------------------------------------------
(* Steps.                                                                  *)

LEMMA JobInvInit == Init => JobInv
<1> SUFFICES ASSUME Init PROVE JobInv
    OBVIOUS
<1> USE JobsAssumption, SeedsAssumption, CodesAssumption, RowKinds
    DEF Init, SeamInit, CallStates, Statuses
<1>1. TypeOK
    BY DEF TypeOK, SeamTypeOK
<1>2. WorkersInv
    BY DEF WorkersInv, Working
<1>3. FilesInv
    BY StampsAreNames DEF FilesInv, Working
<1>4. SummaryInv
    BY DEF SummaryInv, Working
<1>5. OneYardstick
    BY DEF OneYardstick
<1>6. DoneIsMeasured
    BY DEF DoneIsMeasured
<1> QED BY <1>1, <1>2, <1>3, <1>4, <1>5, <1>6 DEF JobInv

(* Every step keeps the types. *)
LEMMA TypeStep == JobInv /\ [Next]_vars => TypeOK'
<1> SUFFICES ASSUME JobInv, [Next]_vars PROVE TypeOK'
    OBVIOUS
<1> USE JobsAssumption, SeedsAssumption, CodesAssumption, RowKinds
    DEF JobInv, TypeOK, SeamTypeOK, CallStates, Statuses
<1>1. ASSUME NEW w \in Procs, Boot(w) PROVE TypeOK'
    BY <1>1 DEF Boot, Start, Become, jobVars
<1>2. ASSUME NEW w \in Procs, Crash(w) PROVE TypeOK'
    <2>1. troubles' \in 0 .. MaxTroubles
        BY <1>2 DEF Crash, Trouble
    <2>2. status' \in [Jobs -> Statuses]
        BY <1>2 DEF Crash, Requeued
    <2>3. /\ call' \in [Procs -> CallStates] /\ memo' \in [Procs -> Codes \cup {"none"}]
          /\ at' \in [Procs -> Jobs \cup {"none"}] /\ seed' \in [Procs -> 0 .. N + 1]
        BY <1>2 DEF Crash, Kill, Become, Release
    <2> QED BY <1>2, <2>1, <2>2, <2>3 DEF Crash
<1>3. ASSUME NEW w \in Procs, NEW j \in Jobs, Claim(w, j) PROVE TypeOK'
    <2>1. attempt[j] + 1 \in 1 .. Budget[j]
        BY <1>3 DEF Claim, WorkersInv
    <2>2. [s \in JobSeeds |-> NoRow] \in [JobSeeds -> JobRow]
        OBVIOUS
    <2>3. records' \in [Names -> [JobSeeds -> JobRow]]
        <3>1. records' = records \/ records' = [records EXCEPT ![Stamp(j, attempt[j] + 1)] =
                                                    [s \in JobSeeds |-> NoRow]]
            BY <1>3 DEF Claim
        <3> QED BY <2>2, <3>1
    <2>4. attempt' \in [Jobs -> Nat] /\ \A k \in Jobs : attempt'[k] <= Budget[k]
        BY <1>3, <2>1 DEF Claim
    <2>5. /\ status' \in [Jobs -> Statuses] /\ at' \in [Procs -> Jobs \cup {"none"}]
          /\ seed' \in [Procs -> 0 .. N + 1]
        <3>1. CASE j \in Malformed
            BY <1>3, <3>1 DEF Claim, Unclaimed
        <3>2. CASE j \notin Malformed
            <4>1. /\ status' = [status EXCEPT ![j] = "running"]
                  /\ at' = [at EXCEPT ![w] = j] /\ seed' = [seed EXCEPT ![w] = 0]
                BY <1>3, <3>2 DEF Claim
            <4>2. 0 \in 0 .. N + 1
                OBVIOUS
            <4> QED BY <4>1, <4>2
        <3> QED BY <3>1, <3>2
    <2> QED BY <1>3, <2>3, <2>4, <2>5 DEF Claim, seamVars
<1>4. ASSUME NEW w \in Procs, Agent(w) \/ Reference(w) PROVE TypeOK'
    BY <1>4 DEF Agent, Reference, Ask, Learn, Answer, Become, jobVars
<1>5. ASSUME NEW w \in Procs, NEW row \in JobRow, seed[w] < N, WriteRow(w, row)
      PROVE  /\ records' \in [Names -> [JobSeeds -> JobRow]]
             /\ seed' \in [Procs -> 0 .. N + 1]
    <2>1. seed[w] \in JobSeeds
        BY <1>5 DEF JobSeeds
    <2>2. records' = [records EXCEPT ![File(w)] = [records[File(w)] EXCEPT ![seed[w]] = row]]
        BY <1>5 DEF WriteRow
    <2>3. File(w) \in Names => records[File(w)] \in [JobSeeds -> JobRow]
        OBVIOUS
    <2>4. records' \in [Names -> [JobSeeds -> JobRow]]
        BY <1>5, <2>1, <2>2, <2>3
    <2>5. seed[w] + 1 \in 0 .. N + 1
        BY <1>5
    <2>6. seed' \in [Procs -> 0 .. N + 1]
        BY <1>5, <2>5 DEF WriteRow
    <2> QED BY <2>4, <2>6
<1>6. ASSUME NEW w \in Procs, Lost(w) PROVE TypeOK'
    <2>1. troubles' \in 0 .. MaxTroubles
        BY <1>6 DEF Lost, Trouble
    <2> QED BY <1>5, <1>6, <2>1 DEF Lost, AtSeed, WriteRow, seamVars
<1>7. ASSUME NEW w \in Procs, NoReference(w) PROVE TypeOK'
    BY <1>7 DEF NoReference, Fail, Become, Trouble
<1>8. ASSUME NEW w \in Procs, Grade(w) PROVE TypeOK'
    <2>1. seed[w] < N /\ at[w] \in Jobs
        BY <1>8 DEF Grade, WorkersInv, Working
    <2>2. \E row \in JobRow : WriteRow(w, row)
        <3>1. CASE call[w] = "returned"
            <4>1. memo[w] \in Codes
                BY <3>1 DEF WorkersInv
            <4>2. Grades[at[w]] \subseteq Results
                BY <2>1, GradesAssumption DEF Results
            <4> QED BY <1>8, <3>1, <4>1, <4>2 DEF Grade
        <3>2. CASE call[w] = "raised"
            BY <1>8, <3>2 DEF Grade
        <3> QED BY <1>8, <3>1, <3>2 DEF Grade
    <2> QED BY <1>5, <1>8, <2>1, <2>2 DEF Grade, WriteRow, Leave, Become
<1>9. ASSUME NEW w \in Procs, Summarise(w) PROVE TypeOK'
    BY <1>9 DEF Summarise, seamVars
<1>10. ASSUME NEW w \in Procs, Report(w) \/ Abort(w) PROVE TypeOK'
    <2>1. troubles' \in 0 .. MaxTroubles
        BY <1>10 DEF Report, Abort, Trouble
    <2>2. status' \in [Jobs -> Statuses]
        BY <1>10 DEF Report, Abort, Requeued
    <2>3. at' \in [Procs -> Jobs \cup {"none"}] /\ seed' \in [Procs -> 0 .. N + 1]
        BY <1>10 DEF Report, Abort, Release
    <2> QED BY <1>10, <2>1, <2>2, <2>3 DEF Report, Abort, seamVars
<1>11. ASSUME NEW j \in Jobs, Check(j) PROVE TypeOK'
    BY <1>11 DEF Check, seamVars
<1>12. CASE UNCHANGED vars
    BY <1>12 DEF vars, seamVars, jobVars
<1> QED BY <1>1, <1>2, <1>3, <1>4, <1>6, <1>7, <1>8, <1>9, <1>10, <1>11, <1>12
        DEF Next, Execute

(* What a step that leaves records and jobs alone keeps. *)
LEMMA KeptWithRecords ==
    ASSUME JobInv, UNCHANGED <<status, attempt, records, summary>>
    PROVE  /\ OneYardstick' /\ DoneIsMeasured'
           /\ summary' = [f \in Names |-> summary'[f]]
BY DEF JobInv, OneYardstick, DoneIsMeasured, SummaryInv, RunRef

(* A worker that goes on with its job, records and jobs unchanged. *)
LEMMA SeamStep ==
    ASSUME JobInv, TypeOK', NEW w \in Procs,
           UNCHANGED <<status, attempt, at, seed, records, summary>>,
           \A v \in Procs \ {w} : call'[v] = call[v] /\ memo'[v] = memo[v],
           Working(w) => call'[w] # "down" /\ memo[w] \in {"none", memo'[w]},
           call'[w] \in {"asked", "returned", "raised"} => Working(w) /\ seed[w] < N,
           call'[w] = "returned" => memo'[w] # "none"
    PROVE  JobInv'
<1>2. WorkersInv'
    BY DEF JobInv, WorkersInv, Working
<1>3. FilesInv'
    <2>1. ASSUME NEW v \in Procs, Working(v), NEW s \in JobSeeds, IsGraded(records[File(v)][s])
          PROVE  records[File(v)][s][2] = memo'[v]
        <3>1. records[File(v)][s][2] = memo[v]
            BY <2>1 DEF JobInv, FilesInv
        <3>2. records[File(v)][s] \in JobRow
            BY <2>1, FilesDiffer DEF JobInv, TypeOK
        <3>3. memo[v] # "none"
            BY <2>1, <3>1, <3>2, RowKinds, CodesAssumption
        <3> QED BY <2>1, <3>1, <3>3
    <2> QED BY <2>1 DEF JobInv, FilesInv, Working, File
<1>4. SummaryInv'
    BY DEF JobInv, SummaryInv, Working, File
<1> QED BY <1>2, <1>3, <1>4, KeptWithRecords DEF JobInv

(* What writing a row changes. *)
LEMMA RowWritten ==
    ASSUME JobInv, NEW w \in Procs, Working(w), seed[w] < N, NEW row \in JobRow,
           WriteRow(w, row)
    PROVE  /\ seed[w] \in JobSeeds /\ File(w) \in Names /\ at[w] \in Jobs
           /\ \A f \in Names, s \in JobSeeds :
                records'[f][s] = IF f = File(w) /\ s = seed[w] THEN row ELSE records[f][s]
           /\ \A f \in Names : f # File(w) => records'[f] = records[f]
<1>1. seed[w] \in JobSeeds
    BY SeedsAssumption DEF JobInv, TypeOK, JobSeeds
<1>2. File(w) \in Names /\ at[w] \in Jobs
    BY FilesDiffer DEF JobInv
<1>3. records' = [records EXCEPT ![File(w)] = [records[File(w)] EXCEPT ![seed[w]] = row]]
    BY DEF WriteRow
<1>4. records \in [Names -> [JobSeeds -> JobRow]]
    BY DEF JobInv, TypeOK
<1> QED BY <1>1, <1>2, <1>3, <1>4

(* A worker that writes the row of the seed it is at. *)
LEMMA RowStep ==
    ASSUME JobInv, TypeOK', NEW w \in Procs, Working(w), seed[w] < N,
           NEW row \in JobRow \ {NoRow}, WriteRow(w, row),
           IsGraded(row) => row[2] = memo[w],
           UNCHANGED memo, call'[w] = "idle",
           \A v \in Procs \ {w} : call'[v] = call[v]
    PROVE  JobInv'
<1>1. /\ seed[w] \in JobSeeds /\ File(w) \in Names /\ at[w] \in Jobs
      /\ \A f \in Names, s \in JobSeeds :
           records'[f][s] = IF f = File(w) /\ s = seed[w] THEN row ELSE records[f][s]
      /\ \A f \in Names : f # File(w) => records'[f] = records[f]
    BY RowWritten
<1>2. /\ UNCHANGED <<status, attempt, at, summary>>
      /\ seed' = [seed EXCEPT ![w] = @ + 1]
    BY DEF WriteRow
<1>3. seed \in [Procs -> 0 .. N + 1] /\ N \in Nat
    BY SeedsAssumption DEF JobInv, TypeOK
<1>4. WorkersInv'
    BY <1>2, <1>3 DEF JobInv, WorkersInv, Working
<1>5. \A v \in Procs : Working(v) =>
          /\ File(v) \in Names /\ File(v)' = File(v)
          /\ v # w => File(v) # File(w) /\ records'[File(v)] = records[File(v)]
    BY <1>1, <1>2, FilesDiffer DEF JobInv, File
<1>6. FilesInv'
    <2>1. ASSUME NEW j \in Jobs, NEW a \in 1 .. Budget[j], NEW s \in JobSeeds, a > attempt[j]
          PROVE  records'[Stamp(j, a)][s] = NoRow
        <3>1. Stamp(j, a) \in Names
            BY StampsAreNames
        <3>2. attempt[j] \in Nat /\ Budget[j] \in Nat
            BY JobsAssumption DEF JobInv, TypeOK
        <3>3. Stamp(j, a) # File(w)
            BY <1>1, <2>1, <3>2, StampsDiffer DEF File
        <3> QED BY <1>1, <2>1, <3>1, <3>3 DEF JobInv, FilesInv
    <2>2. ASSUME NEW v \in Procs, Working(v), NEW s \in JobSeeds
          PROVE  /\ records'[File(v)][s] = NoRow <=> s >= seed'[v]
                 /\ IsGraded(records'[File(v)][s]) => records'[File(v)][s][2] = memo[v]
        <3>1. CASE v # w
            BY <1>2, <1>3, <1>5, <2>2, <3>1 DEF JobInv, FilesInv
        <3>2. CASE v = w /\ s = seed[w]
            BY <1>1, <1>2, <1>3, <3>2
        <3>3. CASE v = w /\ s # seed[w]
            <4>1. records'[File(w)][s] = records[File(w)][s] /\ seed'[w] = seed[w] + 1
                BY <1>1, <1>2, <1>3, <3>3
            <4>2. s >= seed[w] <=> s >= seed[w] + 1
                BY <1>3, <3>3 DEF JobSeeds
            <4> QED BY <3>3, <4>1, <4>2 DEF JobInv, FilesInv
        <3> QED BY <3>1, <3>2, <3>3
    <2> QED BY <1>2, <1>5, <2>1, <2>2 DEF FilesInv, Working
<1>7. SummaryInv'
    <2>1. ASSUME NEW v \in Procs, Working(v), seed'[v] = N + 1
          PROVE  summary[File(v)] = Aggregate(records'[File(v)])
        <3>1. v # w
            BY <1>2, <1>3, <2>1
        <3> QED BY <1>2, <1>3, <1>5, <2>1, <3>1 DEF JobInv, SummaryInv
    <2> QED BY <1>2, <1>5, <2>1 DEF JobInv, SummaryInv, Working
<1>8. OneYardstick'
    <2> SUFFICES ASSUME NEW f \in Names, NEW s \in JobSeeds, NEW t \in JobSeeds,
                        IsGraded(records'[f][s]), IsGraded(records'[f][t])
                 PROVE  records'[f][s][2] = records'[f][t][2]
        BY DEF OneYardstick
    <2>1. CASE f = File(w)
        <3>1. \A u \in JobSeeds : IsGraded(records'[f][u]) => records'[f][u][2] = memo[w]
            BY <1>1, <2>1 DEF JobInv, FilesInv
        <3> QED BY <3>1
    <2>2. CASE f # File(w)
        BY <1>1, <2>2 DEF JobInv, OneYardstick
    <2> QED BY <2>1, <2>2
<1>9. DoneIsMeasured'
    <2> SUFFICES ASSUME NEW j \in Jobs, status[j] = "done"
                 PROVE  /\ \A s \in JobSeeds : IsGraded(records'[RunRef(j)][s])
                        /\ summary[RunRef(j)] = Aggregate(records'[RunRef(j)])
        BY <1>2 DEF DoneIsMeasured, RunRef
    <2>1. RunRef(j) \in Names /\ RunRef(j) # File(w)
        BY DoneFiles DEF JobInv
    <2> QED BY <1>1, <2>1 DEF JobInv, DoneIsMeasured
<1> QED BY <1>4, <1>6, <1>7, <1>8, <1>9 DEF JobInv

(* A seed is graded at its place, against what the worker was told, or lost. *)
LEMMA GradeWrites ==
    ASSUME JobInv, NEW w \in Procs, Grade(w)
    PROVE  /\ Working(w) /\ seed[w] < N
           /\ \E row \in JobRow \ {NoRow} :
                WriteRow(w, row) /\ (IsGraded(row) => row[2] = memo[w])
<1>1. Working(w) /\ seed[w] < N /\ at[w] \in Jobs
    BY DEF Grade, JobInv, WorkersInv, TypeOK, Working
<1>2. CASE call[w] = "returned"
    <2>1. memo[w] \in Codes
        BY <1>2 DEF JobInv, WorkersInv, TypeOK, SeamTypeOK
    <2>2. PICK v \in Grades[at[w]] : WriteRow(w, <<v, memo[w]>>)
        BY <1>2 DEF Grade
    <2>3. <<v, memo[w]>> \in JobRow \ {NoRow}
        BY <1>1, <2>1, GradesAssumption, RowKinds DEF Results
    <2> QED BY <1>1, <2>2, <2>3
<1>3. CASE call[w] = "raised"
    BY <1>1, <1>3, RowKinds DEF Grade
<1> QED BY <1>2, <1>3 DEF Grade

(* A worker that is done with its attempt, well or badly. *)
LEMMA ReleaseStep ==
    ASSUME JobInv, TypeOK', NEW w \in Procs, Working(w), Release(w),
           UNCHANGED <<attempt, records, summary>>,
           call'[w] \in {"idle", "down"},
           \A v \in Procs \ {w} : call'[v] = call[v] /\ memo'[v] = memo[v],
           NEW st, status' = [status EXCEPT ![at[w]] = st],
           st = "queued" => attempt[at[w]] < Budget[at[w]],
           st = "done" => /\ \A s \in JobSeeds : IsGraded(records[File(w)][s])
                          /\ summary[File(w)] = Aggregate(records[File(w)])
    PROVE  JobInv'
<1>1. at[w] \in Jobs /\ attempt[at[w]] >= 1
    BY DEF JobInv, TypeOK, WorkersInv, Working
<1>2. /\ at' = [at EXCEPT ![w] = "none"] /\ seed' = [seed EXCEPT ![w] = 0]
      /\ at \in [Procs -> Jobs \cup {"none"}] /\ seed \in [Procs -> 0 .. N + 1]
      /\ status \in [Jobs -> Statuses]
    BY DEF JobInv, TypeOK, Release
<1>3. \A v \in Procs : Working(v)' =>
          v # w /\ Working(v) /\ at'[v] = at[v] /\ at[v] # at[w] /\ seed'[v] = seed[v]
            /\ File(v)' = File(v)
    BY <1>2 DEF Working, JobInv, WorkersInv, File
<1>4. WorkersInv'
    <2>1. ASSUME NEW v \in Procs, Working(v)'
          PROVE  status'[at'[v]] = "running" /\ attempt'[at'[v]] >= 1 /\ call'[v] # "down"
        BY <1>1, <1>2, <1>3, <2>1 DEF JobInv, WorkersInv, Working
    <2>2. ASSUME NEW v \in Procs, call'[v] \in {"asked", "returned", "raised"}
          PROVE  Working(v)' /\ seed'[v] < N /\ (call'[v] = "returned" => memo'[v] # "none")
        BY <1>2, <2>2 DEF JobInv, WorkersInv, Working
    <2>3. ASSUME NEW u \in Procs, NEW v \in Procs, Working(u)', at'[u] = at'[v]
          PROVE  u = v
        BY <1>2, <1>3, <2>3 DEF JobInv, WorkersInv, Working
    <2>4. ASSUME NEW j \in Jobs
          PROVE  /\ status'[j] = "queued" => attempt'[j] < Budget[j]
                 /\ status'[j] = "done" => attempt'[j] >= 1
        BY <1>1, <1>2 DEF JobInv, WorkersInv
    <2> QED BY <2>1, <2>2, <2>3, <2>4 DEF WorkersInv
<1>5. FilesInv'
    <2>1. ASSUME NEW v \in Procs, Working(v)' PROVE memo'[v] = memo[v]
        BY <1>3, <2>1
    <2> QED BY <1>3, <2>1 DEF JobInv, FilesInv
<1>6. SummaryInv' /\ OneYardstick'
    BY <1>3 DEF JobInv, SummaryInv, OneYardstick
<1>7. DoneIsMeasured'
    <2> SUFFICES ASSUME NEW j \in Jobs, status'[j] = "done"
                 PROVE  /\ \A s \in JobSeeds : IsGraded(records[RunRef(j)][s])
                        /\ summary[RunRef(j)] = Aggregate(records[RunRef(j)])
        BY DEF DoneIsMeasured, RunRef
    <2>1. CASE j = at[w]
        BY <1>2, <2>1 DEF RunRef, File
    <2>2. CASE j # at[w]
        BY <1>2, <2>2 DEF JobInv, DoneIsMeasured
    <2> QED BY <2>1, <2>2
<1> QED BY <1>4, <1>5, <1>6, <1>7 DEF JobInv

(* The file of the next attempt of a queued job is empty already. *)
LEMMA ClaimTruncatesNothing ==
    ASSUME JobInv, NEW w \in Procs, NEW j \in Jobs, Claim(w, j)
    PROVE  /\ attempt[j] + 1 \in 1 .. Budget[j]
           /\ records' = records
<1>1. attempt[j] + 1 \in 1 .. Budget[j] /\ attempt[j] + 1 > attempt[j]
    <2>1. attempt[j] < Budget[j]
        BY DEF Claim, JobInv, WorkersInv
    <2>2. attempt[j] \in Nat /\ Budget[j] \in Nat
        BY JobsAssumption DEF JobInv, TypeOK
    <2> QED BY <2>1, <2>2
<1>2. records \in [Names -> [JobSeeds -> JobRow]]
    BY DEF JobInv, TypeOK
<1>3. Stamp(j, attempt[j] + 1) \in Names
    BY <1>1, StampsAreNames
<1>4. \A s \in JobSeeds : records[Stamp(j, attempt[j] + 1)][s] = NoRow
    BY <1>1 DEF JobInv, FilesInv
<1>5. records[Stamp(j, attempt[j] + 1)] = [s \in JobSeeds |-> NoRow]
    BY <1>2, <1>3, <1>4
<1>6. [records EXCEPT ![Stamp(j, attempt[j] + 1)] = [s \in JobSeeds |-> NoRow]] = records
    BY <1>2, <1>3, <1>5
<1> QED BY <1>1, <1>6 DEF Claim

LEMMA ClaimStep ==
    ASSUME JobInv, TypeOK', NEW w \in Procs, NEW j \in Jobs, Claim(w, j)
    PROVE  JobInv'
<1>1. /\ attempt[j] + 1 \in 1 .. Budget[j] /\ records' = records
      /\ UNCHANGED <<call, memo, summary>>
      /\ attempt' = [attempt EXCEPT ![j] = @ + 1]
      /\ call[w] = "idle" /\ ~Working(w) /\ status[j] = "queued"
    BY ClaimTruncatesNothing DEF Claim, seamVars, Working
<1>2. /\ attempt \in [Jobs -> Nat] /\ at \in [Procs -> Jobs \cup {"none"}]
      /\ seed \in [Procs -> 0 .. N + 1] /\ status \in [Jobs -> Statuses]
      /\ Budget \in [Jobs -> Nat \ {0}]
    BY JobsAssumption DEF JobInv, TypeOK
<1>3. \A v \in Procs : Working(v) =>
          /\ v # w /\ at[v] # j /\ at[v] \in Jobs
          /\ Stamp(at[v], attempt'[at[v]]) = File(v)
    BY <1>1, <1>2 DEF JobInv, WorkersInv, Working, File
<1>4. \A k \in Jobs : status'[k] = "done" => k # j /\ status[k] = "done" /\ RunRef(k)' = RunRef(k)
    <2>1. status' = [status EXCEPT ![j] = "permanent"] \/ status' = [status EXCEPT ![j] = "running"]
        BY DEF Claim
    <2> QED BY <1>1, <1>2, <2>1 DEF RunRef
<1>5. DoneIsMeasured' /\ OneYardstick'
    BY <1>1, <1>4 DEF JobInv, DoneIsMeasured, OneYardstick
<1>6. ASSUME NEW k \in Jobs, NEW a \in 1 .. Budget[k], NEW s \in JobSeeds, a > attempt'[k]
      PROVE  records'[Stamp(k, a)][s] = NoRow
    <2>1. a > attempt[k]
        BY <1>1, <1>2, <1>6
    <2> QED BY <1>1, <2>1 DEF JobInv, FilesInv
<1>7. CASE j \in Malformed
    <2>1. status' = [status EXCEPT ![j] = "permanent"] /\ at' = at /\ seed' = seed
        BY <1>7 DEF Claim, Unclaimed
    <2>2. WorkersInv'
        BY <1>1, <1>2, <1>3, <2>1 DEF JobInv, WorkersInv, Working
    <2>3. FilesInv'
        BY <1>1, <1>3, <1>6, <2>1 DEF JobInv, FilesInv, Working, File
    <2>4. SummaryInv'
        BY <1>1, <1>3, <2>1 DEF JobInv, SummaryInv, Working, File
    <2> QED BY <1>5, <2>2, <2>3, <2>4 DEF JobInv
<1>8. CASE j \notin Malformed
    <2>1. /\ status' = [status EXCEPT ![j] = "running"]
          /\ at' = [at EXCEPT ![w] = j] /\ seed' = [seed EXCEPT ![w] = 0]
        BY <1>8 DEF Claim
    <2>2. \A v \in Procs : v # w => at'[v] = at[v] /\ seed'[v] = seed[v] /\ Working(v)' = Working(v)
        BY <1>2, <2>1 DEF Working
    <2>3. at'[w] = j /\ seed'[w] = 0 /\ File(w)' = Stamp(j, attempt[j] + 1)
        BY <1>1, <1>2, <2>1 DEF File
    <2>4. \A v \in Procs : v # w /\ Working(v) => File(v)' = File(v)
        BY <1>3, <2>2 DEF File
    <2>5. WorkersInv'
        <3>1. ASSUME NEW v \in Procs, Working(v)'
              PROVE  status'[at'[v]] = "running" /\ attempt'[at'[v]] >= 1 /\ call'[v] # "down"
            BY <1>1, <1>2, <1>3, <2>1, <2>2, <2>3, <3>1 DEF JobInv, WorkersInv
        <3>2. ASSUME NEW v \in Procs, call'[v] \in {"asked", "returned", "raised"}
              PROVE  Working(v)' /\ seed'[v] < N /\ (call'[v] = "returned" => memo'[v] # "none")
            BY <1>1, <2>2, <3>2 DEF JobInv, WorkersInv
        <3>3. ASSUME NEW u \in Procs, NEW v \in Procs, Working(u)', at'[u] = at'[v]
              PROVE  u = v
            <4>1. CASE u # w /\ v # w
                BY <2>2, <3>3, <4>1 DEF JobInv, WorkersInv
            <4>2. CASE u = w /\ v # w
                <5>1. at[v] = j
                    BY <2>2, <2>3, <3>3, <4>2
                <5> QED BY <1>3, <5>1, JobsAssumption DEF Working
            <4>3. CASE u # w /\ v = w
                BY <1>3, <2>2, <2>3, <3>3, <4>3
            <4> QED BY <4>1, <4>2, <4>3
        <3>4. ASSUME NEW k \in Jobs
              PROVE  /\ status'[k] = "queued" => attempt'[k] < Budget[k]
                     /\ status'[k] = "done" => attempt'[k] >= 1
            BY <1>1, <1>2, <2>1 DEF JobInv, WorkersInv
        <3> QED BY <3>1, <3>2, <3>3, <3>4 DEF WorkersInv
    <2>6. ASSUME NEW v \in Procs, Working(v)', NEW s \in JobSeeds
          PROVE  /\ records'[File(v)'][s] = NoRow <=> s >= seed'[v]
                 /\ IsGraded(records'[File(v)'][s]) => records'[File(v)'][s][2] = memo'[v]
        <3>1. CASE v = w
            <4>1. records[Stamp(j, attempt[j] + 1)][s] = NoRow
                BY <1>1, <1>2 DEF JobInv, FilesInv
            <4>2. s >= 0
                BY DEF JobSeeds
            <4> QED BY <1>1, <2>3, <3>1, <4>1, <4>2, RowKinds
        <3>2. CASE v # w
            BY <1>1, <2>2, <2>4, <2>6, <3>2 DEF JobInv, FilesInv
        <3> QED BY <3>1, <3>2
    <2>7. FilesInv'
        BY <1>6, <2>6 DEF FilesInv
    <2>8. SummaryInv'
        <3>1. ASSUME NEW v \in Procs, Working(v)', seed'[v] = N + 1
              PROVE  v # w /\ Working(v) /\ File(v)' = File(v) /\ seed[v] = N + 1
            <4>1. v # w
                BY <2>3, <3>1, SeedsAssumption
            <4> QED BY <2>2, <2>4, <3>1, <4>1
        <3> QED BY <1>1, <3>1 DEF JobInv, SummaryInv
    <2> QED BY <1>5, <2>5, <2>7, <2>8 DEF JobInv
<1> QED BY <1>7, <1>8

LEMMA SummariseStep ==
    ASSUME JobInv, TypeOK', NEW w \in Procs, Summarise(w)
    PROVE  JobInv'
<1>1. /\ Working(w) /\ seed[w] = N
      /\ summary' = [summary EXCEPT ![File(w)] = Aggregate(records[File(w)])]
      /\ seed' = [seed EXCEPT ![w] = N + 1]
      /\ UNCHANGED <<call, memo, status, attempt, at, records>>
    BY DEF Summarise, seamVars, Working
<1>2. seed \in [Procs -> 0 .. N + 1] /\ N \in Nat
    BY SeedsAssumption DEF JobInv, TypeOK
<1>3. File(w) \in Names /\ \A v \in Procs : Working(v) /\ v # w => File(v) # File(w)
    BY <1>1, FilesDiffer DEF JobInv
<1>4. \A v \in Procs : File(v)' = File(v) /\ Working(v)' = Working(v)
    BY <1>1 DEF File, Working
<1>5. WorkersInv'
    BY <1>1, <1>2 DEF JobInv, WorkersInv, Working
<1>6. \A v \in Procs, s \in JobSeeds : s >= seed'[v] <=> s >= seed[v]
    BY <1>1, <1>2 DEF JobSeeds
<1>7. FilesInv'
    BY <1>1, <1>4, <1>6 DEF JobInv, FilesInv
<1>8. summary = [f \in Names |-> summary[f]]
    BY DEF JobInv, SummaryInv
<1>9. \A f \in Names : summary'[f] = IF f = File(w) THEN Aggregate(records[File(w)]) ELSE summary[f]
    BY <1>1, <1>3, <1>8
<1>10. SummaryInv'
    <2>1. summary' = [f \in Names |-> summary'[f]]
        BY <1>1, <1>8
    <2>2. ASSUME NEW v \in Procs, Working(v), seed'[v] = N + 1
          PROVE  summary'[File(v)] = Aggregate(records[File(v)])
        <3>1. CASE v = w
            BY <1>3, <1>9, <3>1
        <3>2. CASE v # w
            <4>1. File(v) \in Names /\ seed[v] = N + 1
                BY <1>1, <1>2, <2>2, <3>2, FilesDiffer DEF JobInv
            <4> QED BY <1>3, <1>9, <2>2, <3>2, <4>1 DEF JobInv, SummaryInv
        <3> QED BY <3>1, <3>2
    <2> QED BY <1>1, <1>4, <2>1, <2>2 DEF SummaryInv
<1>11. OneYardstick'
    BY <1>1 DEF JobInv, OneYardstick
<1>12. DoneIsMeasured'
    <2>1. ASSUME NEW j \in Jobs, status[j] = "done"
          PROVE  summary'[RunRef(j)] = summary[RunRef(j)]
        <3>1. RunRef(j) \in Names /\ RunRef(j) # File(w)
            BY <1>1, <2>1, DoneFiles DEF JobInv
        <3> QED BY <1>9, <3>1
    <2> QED BY <1>1, <2>1 DEF JobInv, DoneIsMeasured, RunRef
<1> QED BY <1>5, <1>7, <1>10, <1>11, <1>12 DEF JobInv

LEMMA JobInvStep == JobInv /\ [Next]_vars => JobInv'
<1> SUFFICES ASSUME JobInv, [Next]_vars PROVE JobInv'
    OBVIOUS
<1>1. TypeOK'
    BY TypeStep
<1>2. SeamTypeOK
    BY DEF JobInv, TypeOK
<1>3. ASSUME NEW w \in Procs, Boot(w) PROVE JobInv'
    BY <1>1, <1>2, <1>3, SeamStep DEF Boot, Start, Become, jobVars, SeamTypeOK, Working,
                                     JobInv, WorkersInv
<1>4. ASSUME NEW w \in Procs, Crash(w) PROVE JobInv'
    <2>1. Requeued(at[w]) = "queued" => attempt[at[w]] < Budget[at[w]]
        BY DEF Requeued
    <2>2. Requeued(at[w]) # "done"
        BY DEF Requeued
    <2>3. call'[w] = "down" /\ \A v \in Procs \ {w} : call'[v] = call[v] /\ memo'[v] = memo[v]
        BY <1>2, <1>4 DEF Crash, Kill, Become, SeamTypeOK
    <2> QED BY <1>1, <1>4, <2>1, <2>2, <2>3, ReleaseStep DEF Crash, Working
<1>5. ASSUME NEW w \in Procs, NEW j \in Jobs, Claim(w, j) PROVE JobInv'
    BY <1>1, <1>5, ClaimStep
<1>6. ASSUME NEW w \in Procs, Agent(w) PROVE JobInv'
    BY <1>1, <1>2, <1>6, SeamStep DEF Agent, AtSeed, Ask, Become, jobVars, SeamTypeOK, Working
<1>7. ASSUME NEW w \in Procs, Reference(w) PROVE JobInv'
    <2>1. Working(w) /\ seed[w] < N
        BY <1>7 DEF Reference, Learn, Answer, JobInv, WorkersInv
    <2> QED BY <1>1, <1>2, <1>7, <2>1, SeamStep
            DEF Reference, Learn, Answer, Become, jobVars, SeamTypeOK
<1>8. ASSUME NEW w \in Procs, NoReference(w) PROVE JobInv'
    <2>1. Working(w) /\ seed[w] < N
        BY <1>8 DEF NoReference, AtSeed, Working, JobInv, WorkersInv
    <2> QED BY <1>1, <1>2, <1>8, <2>1, SeamStep DEF NoReference, Fail, Become, SeamTypeOK
<1>9. ASSUME NEW w \in Procs, Lost(w) PROVE JobInv'
    BY <1>1, <1>9, RowStep, RowKinds DEF Lost, AtSeed, Working, seamVars
<1>10. ASSUME NEW w \in Procs, Grade(w) PROVE JobInv'
    <2>1. UNCHANGED memo /\ call'[w] = "idle" /\ \A v \in Procs \ {w} : call'[v] = call[v]
        BY <1>2, <1>10 DEF Grade, Leave, Become, SeamTypeOK
    <2>2. Working(w) /\ seed[w] < N
        BY <1>10, GradeWrites
    <2>3. PICK row \in JobRow \ {NoRow} :
              WriteRow(w, row) /\ (IsGraded(row) => row[2] = memo[w])
        BY <1>10, GradeWrites
    <2> QED BY <1>1, <2>1, <2>2, <2>3, RowStep
<1>11. ASSUME NEW w \in Procs, Summarise(w) PROVE JobInv'
    BY <1>1, <1>11, SummariseStep
<1>12. ASSUME NEW w \in Procs, Report(w) PROVE JobInv'
    <2> DEFINE st == IF ErrorRows(File(w)) = {} THEN "done" ELSE Requeued(at[w])
    <2>1. Working(w) /\ seed[w] = N + 1 /\ call[w] = "idle"
        BY <1>12 DEF Report, Working
    <2>2. st = "queued" => attempt[at[w]] < Budget[at[w]]
        BY DEF Requeued
    <2>3. st = "done" => \A s \in JobSeeds : IsGraded(records[File(w)][s])
        <3>1. SUFFICES ASSUME ErrorRows(File(w)) = {}, NEW s \in JobSeeds
                       PROVE  IsGraded(records[File(w)][s])
            BY DEF Requeued
        <3>2. records[File(w)][s] \in JobRow
            BY <2>1, FilesDiffer DEF JobInv, TypeOK
        <3>3. records[File(w)][s] # NoRow
            BY <2>1, SeedsAssumption DEF JobInv, FilesInv, JobSeeds
        <3>4. records[File(w)][s] # ErrorRow
            BY <3>1 DEF ErrorRows
        <3> QED BY <3>2, <3>3, <3>4, RowKinds DEF IsGraded
    <2>4. summary[File(w)] = Aggregate(records[File(w)])
        BY <2>1 DEF JobInv, SummaryInv
    <2>5. status' = [status EXCEPT ![at[w]] = st] /\ UNCHANGED <<call, memo>>
        BY <1>12 DEF Report, seamVars
    <2> HIDE DEF st
    <2> QED BY <1>1, <1>12, <2>1, <2>2, <2>3, <2>4, <2>5, ReleaseStep DEF Report
<1>13. ASSUME NEW w \in Procs, Abort(w) PROVE JobInv'
    <2>1. Requeued(at[w]) = "queued" => attempt[at[w]] < Budget[at[w]]
        BY DEF Requeued
    <2>2. Requeued(at[w]) # "done"
        BY DEF Requeued
    <2> QED BY <1>1, <1>13, <2>1, <2>2, ReleaseStep DEF Abort, Working, seamVars
<1>14. ASSUME UNCHANGED <<seamVars, status, attempt, at, seed, records, summary>> PROVE JobInv'
    <2>1. WorkersInv' /\ FilesInv' /\ SummaryInv'
        BY <1>14 DEF seamVars, JobInv, WorkersInv, FilesInv, SummaryInv, Working, File
    <2> QED BY <1>1, <1>14, <2>1, KeptWithRecords DEF JobInv
<1>15. ASSUME NEW j \in Jobs, Check(j) PROVE JobInv'
    BY <1>14, <1>15 DEF Check
<1>16. CASE UNCHANGED vars
    BY <1>14, <1>16 DEF vars, jobVars
<1> QED BY <1>3, <1>4, <1>5, <1>6, <1>7, <1>8, <1>9, <1>10, <1>11, <1>12, <1>13, <1>15, <1>16
        DEF Next, Execute

LEMMA JobInvAlways == Spec => []JobInv
BY JobInvInit, JobInvStep, PTL DEF Spec

-----------------------------------------------------------------------------
(* The bridge's state keeps its types, and no job is tried more often than *)
(* its budget allows.                                                      *)
THEOREM BridgeTyping == Spec => []TypeOK
<1>1. JobInv => TypeOK
    BY DEF JobInv
<1> QED BY <1>1, JobInvAlways, PTL

(* Whatever the checkout does and whichever workers die, the graded seeds  *)
(* of one attempt were graded against one reference (hangar_ref.py:22).    *)
THEOREM CellsHaveOneYardstick == Spec => []OneYardstick
<1>1. JobInv => OneYardstick
    BY DEF JobInv
<1> QED BY <1>1, JobInvAlways, PTL

(* A job reported as done rests on N graded seeds and the summary that is  *)
(* their aggregate (have_bridge.py:162-193).                               *)
THEOREM DoneJobsAreMeasured == Spec => []DoneIsMeasured
<1>1. JobInv => DoneIsMeasured
    BY DEF JobInv
<1> QED BY <1>1, JobInvAlways, PTL

LEMMA RowsKept ==
    ASSUME JobInv, NEW w \in Procs, Working(w), seed[w] < N, NEW row \in JobRow,
           WriteRow(w, row), NEW f \in Names, NEW s \in JobSeeds, records[f][s] # NoRow
    PROVE  records'[f][s] = records[f][s]
<1>1. seed[w] \in JobSeeds
    BY RowWritten
<1>2. records[File(w)][seed[w]] = NoRow
    BY <1>1 DEF JobInv, FilesInv, JobSeeds
<1> QED BY <1>2, RowWritten

(* No retry, no other job and no crash changes a row once it is written    *)
(* (have_bridge.py:143-148).                                               *)
THEOREM RowsAreNeverLost == Spec => RowsStay
<1>1. JobInv /\ [Next]_vars =>
          [\A f \in Names, s \in JobSeeds :
              records[f][s] # NoRow => records'[f][s] = records[f][s]]_vars
    <2> SUFFICES ASSUME JobInv, [Next]_vars, NEW f \in Names, NEW s \in JobSeeds,
                        records[f][s] # NoRow
                 PROVE  records'[f][s] = records[f][s]
        OBVIOUS
    <2>1. ASSUME NEW w \in Procs, Boot(w) \/ Crash(w) \/ Agent(w) \/ Reference(w)
                                  \/ NoReference(w) \/ Summarise(w) \/ Report(w) \/ Abort(w)
          PROVE  records' = records
        BY <2>1 DEF Boot, Crash, Agent, Reference, NoReference, Summarise, Report, Abort, jobVars
    <2>2. ASSUME NEW w \in Procs, NEW j \in Jobs, Claim(w, j) PROVE records' = records
        BY <2>2, ClaimTruncatesNothing
    <2>3. ASSUME NEW w \in Procs, Lost(w) PROVE records'[f][s] = records[f][s]
        BY <2>3, RowsKept, RowKinds DEF Lost, AtSeed, Working
    <2>4. ASSUME NEW w \in Procs, Grade(w) PROVE records'[f][s] = records[f][s]
        BY <2>4, GradeWrites, RowsKept
    <2>5. ASSUME NEW j \in Jobs, Check(j) PROVE records' = records
        BY <2>5 DEF Check
    <2>6. CASE UNCHANGED vars
        BY <2>6 DEF vars, jobVars
    <2> QED BY <2>1, <2>2, <2>3, <2>4, <2>5, <2>6 DEF Next, Execute
<1> QED BY <1>1, JobInvAlways, PTL DEF Spec, RowsStay

-----------------------------------------------------------------------------
(* Levels.                                                                 *)

LEMMA CountsFit ==
    ASSUME NEW rs
    PROVE  LET ran == CountOf(rs, {"pass", "fail"})
               passed == CountOf(rs, {"pass"})
           IN ran \in Nat /\ passed \in Nat /\ passed <= ran
<1> DEFINE Of(S) == {s \in JobSeeds : rs[s][1] \in S}
<1>1. IsFiniteSet(JobSeeds)
    BY SeedsAssumption, FS_Interval DEF JobSeeds
<1>2. IsFiniteSet(Of({"pass", "fail"})) /\ Of({"pass"}) \subseteq Of({"pass", "fail"})
    BY <1>1, FS_Subset
<1>3. /\ Cardinality(Of({"pass", "fail"})) \in Nat /\ Cardinality(Of({"pass"})) \in Nat
      /\ Cardinality(Of({"pass"})) <= Cardinality(Of({"pass", "fail"}))
    BY <1>2, FS_Subset, FS_CardinalityType
<1> QED BY <1>3 DEF CountOf

(* The worse of the two levels. *)
LEMMA LevelIs ==
    ASSUME NEW s, NEW min
    PROVE  Level(s, min) = IF s.completed > 0 THEN PassLevel(s, min) ELSE "fail"
<1>1. PassLevel(s, min) \in {"pass", "warn", "fail"}
    BY DEF PassLevel
<1>2. LevelOrder["pass"] = 0 /\ LevelOrder["warn"] = 1 /\ LevelOrder["fail"] = 2
    BY DEF LevelOrder
<1> DEFINE worst(l) == /\ l \in {CompletionLevel(s), PassLevel(s, min)}
                       /\ \A m \in {CompletionLevel(s), PassLevel(s, min)} :
                            LevelOrder[m] <= LevelOrder[l]
           answer == IF s.completed > 0 THEN PassLevel(s, min) ELSE "fail"
<1>3. worst(answer)
    BY <1>1, <1>2 DEF CompletionLevel
<1>4. \A l : worst(l) => l = answer
    BY <1>1, <1>2 DEF CompletionLevel
<1>5. Level(s, min) = CHOOSE l \in {CompletionLevel(s), PassLevel(s, min)} :
                          \A m \in {CompletionLevel(s), PassLevel(s, min)} :
                              LevelOrder[m] <= LevelOrder[l]
    BY DEF Level
<1> QED BY <1>3, <1>4, <1>5

(* A done job stays done, and so does its file. *)
LEMMA DoneStays ==
    ASSUME JobInv, [Next]_vars, NEW j \in Jobs, status[j] = "done"
    PROVE  /\ status'[j] = "done" /\ RunRef(j)' = RunRef(j)
           /\ records'[RunRef(j)] = records[RunRef(j)]
<1> USE DEF RunRef
<1>1. RunRef(j) \in Names /\ \A w \in Procs : Working(w) => File(w) # RunRef(j) /\ at[w] # j
    BY DoneFiles DEF JobInv, WorkersInv
<1>2. status \in [Jobs -> Statuses] /\ attempt \in [Jobs -> Nat]
    BY DEF JobInv, TypeOK
<1>3. ASSUME NEW w \in Procs, Boot(w) \/ Agent(w) \/ Reference(w) \/ NoReference(w) \/ Summarise(w)
      PROVE  UNCHANGED <<status, attempt, records>>
    BY <1>3 DEF Boot, Agent, Reference, NoReference, Summarise, jobVars
<1>4. ASSUME NEW w \in Procs, Crash(w) \/ Report(w) \/ Abort(w)
      PROVE  status'[j] = "done" /\ UNCHANGED <<attempt, records>>
    BY <1>1, <1>2, <1>4 DEF Crash, Report, Abort, Working
<1>5. ASSUME NEW w \in Procs, NEW k \in Jobs, Claim(w, k)
      PROVE  status'[j] = "done" /\ attempt'[j] = attempt[j] /\ records' = records
    BY <1>2, <1>5, ClaimTruncatesNothing DEF Claim
<1>6. ASSUME NEW w \in Procs, NEW row \in JobRow, Working(w), seed[w] < N, WriteRow(w, row)
      PROVE  UNCHANGED <<status, attempt>> /\ records'[RunRef(j)] = records[RunRef(j)]
    BY <1>1, <1>6, RowWritten DEF WriteRow
<1>7. ASSUME NEW w \in Procs, Lost(w)
      PROVE  UNCHANGED <<status, attempt>> /\ records'[RunRef(j)] = records[RunRef(j)]
    BY <1>6, <1>7, RowKinds DEF Lost, AtSeed, Working
<1>8. ASSUME NEW w \in Procs, Grade(w)
      PROVE  UNCHANGED <<status, attempt>> /\ records'[RunRef(j)] = records[RunRef(j)]
    BY <1>6, <1>8, GradeWrites
<1>9. ASSUME NEW k \in Jobs, Check(k) PROVE UNCHANGED <<status, attempt, records>>
    BY <1>9 DEF Check
<1>10. CASE UNCHANGED vars
    BY <1>10 DEF vars, jobVars
<1> QED BY <1>3, <1>4, <1>5, <1>7, <1>8, <1>9, <1>10 DEF Next, Execute

LevelsInv ==
    /\ check = [j \in Jobs |-> check[j]]
    /\ \A j \in Jobs : check[j] # "none" =>
        /\ status[j] = "done"
        /\ check[j] = Level(Aggregate(records[RunRef(j)]), MinPct[j])

LEMMA LevelsStep == JobInv /\ LevelsInv /\ [Next]_vars => LevelsInv'
<1> SUFFICES ASSUME JobInv, LevelsInv, [Next]_vars PROVE LevelsInv'
    OBVIOUS
<1>1. ASSUME NEW j \in Jobs, Check(j) PROVE LevelsInv'
    <2>1. status[j] = "done" /\ UNCHANGED <<status, attempt, records>>
        BY <1>1 DEF Check
    <2>2. summary[RunRef(j)] = Aggregate(records[RunRef(j)])
        BY <2>1 DEF JobInv, DoneIsMeasured
    <2>3. Aggregate(records[RunRef(j)]) # NoSummary
        BY DEF Aggregate, NoSummary
    <2>4. check' = [check EXCEPT ![j] = Level(Aggregate(records[RunRef(j)]), MinPct[j])]
        BY <1>1, <2>2, <2>3 DEF Check
    <2> QED BY <2>1, <2>4 DEF LevelsInv, RunRef
<1>2. CASE UNCHANGED check
    BY <1>2, DoneStays DEF LevelsInv
<1>3. \/ UNCHANGED check
      \/ \E j \in Jobs : Check(j)
    <2>1. ASSUME NEW w \in Procs, Execute(w) \/ Boot(w) \/ Crash(w) \/ \E j \in Jobs : Claim(w, j)
          PROVE  UNCHANGED check
        BY <2>1 DEF Execute, Boot, Crash, Claim, Agent, Lost, WriteRow, Reference, NoReference,
                    Grade, Summarise, Report, Abort, jobVars
    <2>2. CASE UNCHANGED vars
        BY <2>2 DEF vars, jobVars
    <2> QED BY <2>1, <2>2 DEF Next
<1> QED BY <1>1, <1>2, <1>3

(* The level of a cell is the one its check documents (have_bridge.py:211- *)
(* 213), for every number of seeds, of passes and every acceptance.        *)
THEOREM ChecksSayWhatTheyMean == Spec => []LevelsAsDocumented
<1>1. Init => LevelsInv
    BY DEF Init, LevelsInv
<1>2. LevelsInv => LevelsAsDocumented
    <2> SUFFICES ASSUME LevelsInv, NEW j \in Jobs, check[j] # "none"
                 PROVE  LET rs == records[RunRef(j)]
                            ran == CountOf(rs, {"pass", "fail"})
                            passed == CountOf(rs, {"pass"})
                        IN check[j] =
                             IF ran = 0 THEN "fail"
                             ELSE IF passed * 100 >= MinPct[j] * N THEN "pass"
                             ELSE IF passed > 0 THEN "warn" ELSE "fail"
        BY DEF LevelsAsDocumented
    <2> DEFINE s == Aggregate(records[RunRef(j)])
    <2>1. check[j] = IF s.completed > 0 THEN PassLevel(s, MinPct[j]) ELSE "fail"
        BY LevelIs DEF LevelsInv
    <2>2. /\ s.completed = CountOf(records[RunRef(j)], {"pass", "fail"})
          /\ s.passed = CountOf(records[RunRef(j)], {"pass"})
        BY DEF Aggregate
    <2>3. s.completed \in Nat /\ s.passed \in Nat
        BY <2>2, CountsFit
    <2> HIDE DEF s
    <2> QED BY <2>1, <2>2, <2>3 DEF PassLevel
<1> QED BY <1>1, <1>2, JobInvAlways, LevelsStep, PTL DEF Spec

-----------------------------------------------------------------------------
(* The curves of a summary.                                                *)

(* A summary that was written is still that of the rows beside it, and     *)
(* none is written before the last seed.                                   *)
CurvesInv ==
    /\ \A f \in Names : summary[f] \in {NoSummary, Aggregate(records[f])}
    /\ \A j \in Jobs : \A a \in 1 .. Budget[j] : a > attempt[j] => summary[Stamp(j, a)] = NoSummary
    /\ \A w \in Procs : Working(w) /\ seed[w] <= N => summary[File(w)] = NoSummary

(* A row is written before the summary of its file. *)
LEMMA CurvesRow ==
    ASSUME JobInv, CurvesInv, NEW w \in Procs, Working(w), seed[w] < N,
           NEW row \in JobRow, WriteRow(w, row)
    PROVE  CurvesInv'
<1>1. /\ seed \in [Procs -> 0 .. N + 1] /\ N \in Nat
      /\ seed' = [seed EXCEPT ![w] = @ + 1] /\ UNCHANGED <<attempt, at, summary>>
    BY SeedsAssumption DEF JobInv, TypeOK, WriteRow
<1>2. summary[File(w)] = NoSummary
    BY <1>1 DEF CurvesInv
<1>3. \A f \in Names : f # File(w) => records'[f] = records[f]
    BY RowWritten
<1>4. \A f \in Names : summary'[f] \in {NoSummary, Aggregate(records'[f])}
    BY <1>1, <1>2, <1>3 DEF CurvesInv
<1>5. \A v \in Procs : seed'[v] <= N => seed[v] <= N
    BY <1>1
<1>6. \A v \in Procs : Working(v)' /\ seed'[v] <= N => summary'[File(v)'] = NoSummary
    BY <1>1, <1>5 DEF CurvesInv, Working, File
<1> QED BY <1>1, <1>4, <1>6 DEF CurvesInv

(* A summary is written to the file of its worker alone. *)
LEMMA CurvesSummarised ==
    ASSUME JobInv, CurvesInv, NEW w \in Procs, Summarise(w)
    PROVE  CurvesInv'
<1>1. /\ Working(w) /\ seed[w] = N
      /\ summary' = [summary EXCEPT ![File(w)] = Aggregate(records[File(w)])]
      /\ seed' = [seed EXCEPT ![w] = N + 1]
      /\ UNCHANGED <<attempt, at, records>>
    BY DEF Summarise, Working
<1>2. /\ seed \in [Procs -> 0 .. N + 1] /\ N \in Nat
      /\ attempt \in [Jobs -> Nat] /\ at[w] \in Jobs
    BY <1>1, SeedsAssumption DEF JobInv, TypeOK, Working
<1>3. File(w) \in Names /\ \A v \in Procs : Working(v) /\ v # w => File(v) \in Names /\ File(v) # File(w)
    BY <1>1, FilesDiffer DEF JobInv
<1>4. \A f \in Names : summary'[f] = IF f = File(w) THEN Aggregate(records[File(w)]) ELSE summary[f]
    BY <1>1, <1>3 DEF JobInv, SummaryInv
<1>5. ASSUME NEW j \in Jobs, NEW a \in 1 .. Budget[j], a > attempt[j]
      PROVE  summary'[Stamp(j, a)] = NoSummary
    <2>1. Stamp(j, a) # File(w)
        BY <1>2, <1>5, StampsDiffer DEF File
    <2> QED BY <1>4, <1>5, <2>1, StampsAreNames DEF CurvesInv
<1>6. ASSUME NEW v \in Procs, Working(v), seed'[v] <= N PROVE summary'[File(v)] = NoSummary
    <2>1. v # w /\ seed[v] <= N
        BY <1>1, <1>2, <1>6
    <2> QED BY <1>3, <1>4, <1>6, <2>1 DEF CurvesInv
<1>7. \A v \in Procs : File(v)' = File(v) /\ Working(v)' = Working(v)
    BY <1>1 DEF File, Working
<1> QED BY <1>1, <1>4, <1>5, <1>6, <1>7 DEF CurvesInv

(* A worker let go of, or an attempt handed out, takes no summary along. *)
LEMMA CurvesHandedOver ==
    ASSUME JobInv, CurvesInv, NEW w \in Procs,
           \/ (Report(w) \/ Abort(w) \/ Crash(w))
           \/ \E j \in Jobs : Claim(w, j)
    PROVE  CurvesInv'
<1>1. /\ attempt \in [Jobs -> Nat] /\ at \in [Procs -> Jobs \cup {"none"}]
      /\ seed \in [Procs -> 0 .. N + 1] /\ N \in Nat
    BY SeedsAssumption DEF JobInv, TypeOK
<1>2. CASE Report(w) \/ Abort(w) \/ Crash(w)
    <2>1. /\ at' = [at EXCEPT ![w] = "none"] /\ seed' = [seed EXCEPT ![w] = 0]
          /\ UNCHANGED <<attempt, records, summary>>
        BY <1>2 DEF Report, Abort, Crash, Release
    <2>2. \A v \in Procs : Working(v)' => v # w /\ Working(v) /\ seed'[v] = seed[v] /\ File(v)' = File(v)
        BY <1>1, <2>1 DEF Working, File
    <2> QED BY <2>1, <2>2 DEF CurvesInv
<1>3. ASSUME NEW j \in Jobs, Claim(w, j) PROVE CurvesInv'
    <2>1. /\ attempt[j] + 1 \in 1 .. Budget[j] /\ records' = records /\ summary' = summary
          /\ attempt' = [attempt EXCEPT ![j] = @ + 1]
        BY <1>3, ClaimTruncatesNothing DEF Claim
    <2>2. \A i \in Jobs : attempt'[i] >= attempt[i]
        BY <1>1, <2>1
    <2>3. \A i \in Jobs : \A a \in 1 .. Budget[i] : a > attempt'[i] => summary[Stamp(i, a)] = NoSummary
        <3>1. ASSUME NEW i \in Jobs, NEW a \in 1 .. Budget[i], a > attempt'[i]
              PROVE  a > attempt[i]
            <4>1. attempt'[i] \in Nat /\ attempt[i] \in Nat /\ a \in Int
                BY <1>1, <2>1
            <4> QED BY <2>2, <3>1, <4>1
        <3> QED BY <3>1 DEF CurvesInv
    <2>4. \A v \in Procs : Working(v) /\ v # w => at[v] # j
        BY <1>1, <1>3 DEF Claim, JobInv, WorkersInv, Working
    <2>5. \A v \in Procs \ {w} : at'[v] = at[v] /\ seed'[v] = seed[v]
        BY <1>1, <1>3 DEF Claim, Unclaimed
    <2>6. ASSUME NEW v \in Procs, v # w, Working(v)', seed'[v] <= N
          PROVE  summary[File(v)'] = NoSummary
        <3>1. Working(v) /\ seed[v] <= N /\ at'[v] = at[v] /\ at[v] \in Jobs /\ at[v] # j
            BY <1>1, <2>4, <2>5, <2>6 DEF Working
        <3>2. File(v)' = File(v)
            BY <1>1, <2>1, <3>1 DEF File
        <3> QED BY <3>1, <3>2 DEF CurvesInv
    <2>7. ASSUME Working(w)' PROVE summary[File(w)'] = NoSummary
        <3>1. at[w] = "none" /\ at'[w] = j
            BY <1>1, <1>3, <2>7 DEF Claim, Unclaimed, Working
        <3>2. File(w)' = Stamp(j, attempt[j] + 1) /\ attempt[j] + 1 > attempt[j]
            BY <1>1, <2>1, <3>1 DEF File
        <3> QED BY <2>1, <3>2 DEF CurvesInv
    <2> QED BY <2>1, <2>3, <2>6, <2>7 DEF CurvesInv
<1> QED BY <1>2, <1>3

(* Every step keeps what summaries there are in step with their rows. *)
LEMMA CurvesStep == JobInv /\ CurvesInv /\ [Next]_vars => CurvesInv'
<1> SUFFICES ASSUME JobInv, CurvesInv, [Next]_vars PROVE CurvesInv'
    OBVIOUS
<1>1. CASE UNCHANGED <<attempt, at, seed, records, summary>>
    BY <1>1 DEF CurvesInv, Working, File
<1>2. ASSUME NEW w \in Procs, Boot(w) \/ Agent(w) \/ Reference(w) \/ NoReference(w)
      PROVE  UNCHANGED <<attempt, at, seed, records, summary>>
    BY <1>2 DEF Boot, Agent, Reference, NoReference, jobVars
<1>3. ASSUME NEW j \in Jobs, Check(j) PROVE UNCHANGED <<attempt, at, seed, records, summary>>
    BY <1>3 DEF Check
<1>4. ASSUME UNCHANGED vars PROVE UNCHANGED <<attempt, at, seed, records, summary>>
    BY <1>4 DEF vars, jobVars
<1>5. ASSUME NEW w \in Procs, Lost(w) PROVE CurvesInv'
    BY <1>5, CurvesRow, RowKinds DEF Lost, AtSeed, Working
<1>6. ASSUME NEW w \in Procs, Grade(w) PROVE CurvesInv'
    BY <1>6, CurvesRow, GradeWrites
<1> QED BY <1>1, <1>2, <1>3, <1>4, <1>5, <1>6, CurvesSummarised, CurvesHandedOver DEF Next, Execute

-----------------------------------------------------------------------------
(* Counting draws.                                                         *)

(* The recursive function satisfies its equation. *)
LEMMA FactorialExists ==
    factorial = [n \in Nat |-> IF n = 0 THEN 1 ELSE n * factorial[n - 1]]
<1> DEFINE Runs(f, k) == f = [n \in 0 .. k |-> IF n = 0 THEN 1 ELSE n * f[n - 1]]
           T == {k \in Nat : \E f : Runs(f, k)}
<1>1. T = Nat
    <2>1. 0 \in T
        <3>1. Runs([n \in 0 .. 0 |-> 1], 0)
            OBVIOUS
        <3> QED BY <3>1
    <2>2. \A k \in T : k + 1 \in T
        <3> HIDE DEF Runs
        <3> SUFFICES ASSUME NEW k \in Nat, NEW f, Runs(f, k) PROVE \E g : Runs(g, k + 1)
            OBVIOUS
        <3> USE DEF Runs
        <3> DEFINE g == [n \in 0 .. k + 1 |-> IF n <= k THEN f[n] ELSE (k + 1) * f[k]]
        <3>1. \A n \in 0 .. k : f[n] = IF n = 0 THEN 1 ELSE n * f[n - 1]
            OBVIOUS
        <3>2. ASSUME NEW n \in 0 .. k + 1
              PROVE  g[n] = IF n = 0 THEN 1 ELSE n * g[n - 1]
            <4>1. CASE n = k + 1
                BY <4>1
            <4>2. CASE n # k + 1
                <5>1. n \in 0 .. k /\ (n # 0 => n - 1 \in 0 .. k)
                    BY <4>2
                <5>2. g[n] = f[n] /\ (n # 0 => g[n - 1] = f[n - 1])
                    BY <5>1
                <5> QED BY <5>1, <5>2, <3>1
            <4> QED BY <4>1, <4>2
        <3> HIDE DEF g
        <3>3. g = [n \in 0 .. k + 1 |-> g[n]]
            BY DEF g
        <3>4. Runs(g, k + 1)
            BY <3>2, <3>3, Zenon
        <3> QED BY <3>4
    <2>3. T \in SUBSET Nat
        OBVIOUS
    <2> HIDE DEF T
    <2> QED BY <2>1, <2>2, <2>3, Induction
<1>2. \A f, k : Runs(f, k) => \A n \in 0 .. k : f[n] = IF n = 0 THEN 1 ELSE n * f[n - 1]
    OBVIOUS
<1> HIDE DEF Runs
<1>3. ASSUME NEW f, NEW k \in Nat, Runs(f, k), NEW g, NEW m \in Nat, Runs(g, m)
      PROVE  \A n \in Nat : n <= k /\ n <= m => f[n] = g[n]
    <2> DEFINE U == {n \in Nat : n <= k /\ n <= m => f[n] = g[n]}
    <2>0. U \in SUBSET Nat
        OBVIOUS
    <2>1. 0 \in U
        <3>1. 0 \in 0 .. k /\ 0 \in 0 .. m
            OBVIOUS
        <3>2. f[0] = 1 /\ g[0] = 1
            BY <3>1, <1>2, <1>3
        <3> QED BY <3>2
    <2>2. \A n \in U : n + 1 \in U
        <3> SUFFICES ASSUME NEW n \in Nat, n <= k /\ n <= m => f[n] = g[n], n + 1 <= k, n + 1 <= m
                     PROVE  f[n + 1] = g[n + 1]
            OBVIOUS
        <3>1. PICK i \in Nat : i = n + 1 /\ i - 1 = n /\ i # 0 /\ i \in 0 .. k /\ i \in 0 .. m
            OBVIOUS
        <3>2. f[i] = i * f[i - 1] /\ g[i] = i * g[i - 1]
            BY <3>1, <1>2, <1>3
        <3>3. f[n] = g[n]
            OBVIOUS
        <3> QED BY <3>1, <3>2, <3>3, Zenon
    <2> HIDE DEF U
    <2>3. U = Nat
        BY <2>0, <2>1, <2>2, Induction
    <2> QED BY <2>3 DEF U
<1> DEFINE Upto(k) == CHOOSE f : Runs(f, k)
           F == [n \in Nat |-> Upto(n)[n]]
<1>4. \A k \in Nat : Runs(Upto(k), k)
    BY <1>1
<1> HIDE DEF Upto
<1>5. ASSUME NEW n \in Nat PROVE F[n] = IF n = 0 THEN 1 ELSE n * F[n - 1]
    <2>1. n \in 0 .. n
        OBVIOUS
    <2>2. Upto(n)[n] = IF n = 0 THEN 1 ELSE n * Upto(n)[n - 1]
        BY <2>1, <1>2, <1>4
    <2>3. ASSUME n # 0 PROVE Upto(n)[n - 1] = Upto(n - 1)[n - 1]
        <3>1. n - 1 \in Nat /\ n - 1 <= n /\ n - 1 <= n - 1
            BY <2>3
        <3> QED BY <3>1, <1>3, <1>4
    <2>4. n # 0 => F[n - 1] = Upto(n - 1)[n - 1]
        OBVIOUS
    <2>5. F[n] = Upto(n)[n]
        OBVIOUS
    <2> HIDE DEF F
    <2> QED BY <2>2, <2>3, <2>4, <2>5
<1> DEFINE Is(f) == f = [n \in Nat |-> IF n = 0 THEN 1 ELSE n * f[n - 1]]
<1>6. Is(F)
    <2>1. F = [n \in Nat |-> F[n]]
        OBVIOUS
    <2> HIDE DEF F
    <2> QED BY <1>5, <2>1, Zenon
<1>7. factorial = CHOOSE f : Is(f)
    BY DEF factorial
<1> QED BY <1>6, <1>7

LEMMA FactorialStep ==
    /\ factorial[0] = 1
    /\ \A n \in Nat : factorial[n + 1] = (n + 1) * factorial[n]
<1>1. \A n \in Nat : factorial[n] = IF n = 0 THEN 1 ELSE n * factorial[n - 1]
    BY FactorialExists
<1>2. factorial[0] = 1
    BY <1>1
<1>3. ASSUME NEW n \in Nat PROVE factorial[n + 1] = (n + 1) * factorial[n]
    <2>1. PICK m \in Nat : m = n + 1 /\ m # 0 /\ m - 1 = n
        OBVIOUS
    <2>2. factorial[m] = m * factorial[m - 1]
        BY <1>1, <2>1
    <2> QED BY <2>1, <2>2, Zenon
<1> QED BY <1>2, <1>3

LEMMA FactorialPositive == \A n \in Nat : factorial[n] \in Nat \ {0}
<1> DEFINE T == {n \in Nat : factorial[n] \in Nat \ {0}}
<1>1. 0 \in T
    BY FactorialStep
<1>2. ASSUME NEW n \in T PROVE n + 1 \in T
    <2> DEFINE x == factorial[n]
    <2>1. n \in Nat /\ x \in Nat \ {0}
        OBVIOUS
    <2>2. factorial[n + 1] = (n + 1) * x
        BY <2>1, FactorialStep
    <2> HIDE DEF x
    <2>3. (n + 1) * x \in Nat /\ (n + 1) * x # 0
        BY <2>1
    <2> QED BY <2>1, <2>2, <2>3
<1>3. T = Nat
    <2>1. T \in SUBSET Nat
        OBVIOUS
    <2> HIDE DEF T
    <2> QED BY <1>1, <1>2, <2>1, Induction
<1> QED BY <1>3

(* The draws of k from finitely many are finitely many. *)
LEMMA DrawsFinite ==
    ASSUME NEW S, IsFiniteSet(S), NEW k
    PROVE  IsFiniteSet(kSubset(k, S)) /\ Cardinality(kSubset(k, S)) \in Nat
<1>1. IsFiniteSet(SUBSET S)
    BY FS_SUBSET
<1>2. kSubset(k, S) \subseteq SUBSET S
    BY DEF kSubset
<1> QED BY <1>1, <1>2, FS_Subset, FS_CardinalityType

(* There is one draw of none, one of all, and none of more than all. *)
LEMMA DrawsAtTheEnds ==
    ASSUME NEW S, IsFiniteSet(S)
    PROVE  /\ Cardinality(kSubset(0, S)) = 1
           /\ Cardinality(kSubset(Cardinality(S), S)) = 1
           /\ \A k \in Nat : k > Cardinality(S) => Cardinality(kSubset(k, S)) = 0
<1>1. \A D \in SUBSET S : /\ IsFiniteSet(D) /\ Cardinality(D) \in Nat /\ Cardinality(D) <= Cardinality(S)
                          /\ Cardinality(D) = Cardinality(S) => D = S
    BY FS_Subset, FS_CardinalityType
<1>2. \A D \in SUBSET S : Cardinality(D) = 0 <=> D = {}
    BY <1>1, FS_EmptySet
<1>3. kSubset(0, S) = {{}} /\ kSubset(Cardinality(S), S) = {S}
    BY <1>1, <1>2 DEF kSubset
<1>4. \A k \in Nat : k > Cardinality(S) => kSubset(k, S) = {}
    BY <1>1, FS_CardinalityType DEF kSubset
<1> QED BY <1>3, <1>4, FS_Singleton, FS_EmptySet

(* A draw has the element x or it has not. *)
LEMMA DrawsStep ==
    ASSUME NEW S, IsFiniteSet(S), NEW x \in S, NEW k \in Nat \ {0}
    PROVE  Cardinality(kSubset(k, S)) =
               Cardinality(kSubset(k, S \ {x})) + Cardinality(kSubset(k - 1, S \ {x}))
<1> DEFINE R    == S \ {x}
           A    == kSubset(k, R)
           B    == kSubset(k - 1, R)
           With == {D \in kSubset(k, S) : x \in D}
           f    == [D \in B |-> D \cup {x}]
<1>1. IsFiniteSet(R) /\ k - 1 \in Nat
    BY FS_RemoveElement
<1>2. \A D \in SUBSET S : /\ IsFiniteSet(D) /\ Cardinality(D) \in Nat
                          /\ IsFiniteSet(D \ {x}) /\ IsFiniteSet(D \cup {x})
                          /\ x \in D => Cardinality(D \ {x}) = Cardinality(D) - 1
                          /\ x \notin D => Cardinality(D \cup {x}) = Cardinality(D) + 1
    BY FS_Subset, FS_CardinalityType, FS_AddElement, FS_RemoveElement
<1>3. kSubset(k, S) = A \cup With /\ A \cap With = {}
    BY DEF kSubset
<1>4. ASSUME NEW D \in B PROVE D \cup {x} \in With
    <2>1. D \in SUBSET S /\ x \notin D /\ Cardinality(D) = k - 1
        BY DEF kSubset
    <2>2. Cardinality(D \cup {x}) = Cardinality(D) + 1
        BY <2>1, <1>2
    <2>3. Cardinality(D \cup {x}) = k
        BY <2>1, <2>2
    <2> QED BY <2>1, <2>3 DEF kSubset
<1>5. \A D \in With : D \ {x} \in B /\ D = (D \ {x}) \cup {x}
    BY <1>2 DEF kSubset
<1>6. \A D, E \in B : D \cup {x} = E \cup {x} => D = E
    BY DEF kSubset
<1> HIDE DEF A, B, With
<1>7. f \in Bijection(B, With)
    <2>1. f \in [B -> With]
        BY <1>4
    <2>2. \A D, E \in B : f[D] = f[E] => D = E
        BY <1>6
    <2>3. \A D \in With : \E E \in B : f[E] = D
        BY <1>5
    <2> HIDE DEF f
    <2> QED BY <2>1, <2>2, <2>3 DEF Bijection, Injection, Surjection, IsInjective
<1>8. /\ IsFiniteSet(A) /\ IsFiniteSet(B) /\ Cardinality(A) \in Nat /\ Cardinality(B) \in Nat
    BY <1>1, DrawsFinite DEF A, B
<1>9. IsFiniteSet(With) /\ Cardinality(With) = Cardinality(B)
    BY <1>7, <1>8, FS_Bijection DEF ExistsBijection
<1>10. Cardinality(A \cup With) = Cardinality(A) + Cardinality(With) - Cardinality(A \cap With)
    BY <1>8, <1>9, FS_Union
<1>11. Cardinality(A \cap With) = 0
    BY <1>3, FS_EmptySet
<1> QED BY <1>3, <1>8, <1>9, <1>10, <1>11 DEF A, B

(* How many draws of k from n there are, without a division. *)
LEMMA DrawsCounted ==
    \A n \in Nat : \A S : IsFiniteSet(S) /\ Cardinality(S) = n =>
        \A k \in 0 .. n : Cardinality(kSubset(k, S)) * (factorial[k] * factorial[n - k]) = factorial[n]
<1> DEFINE Counted(n) ==
        \A S : IsFiniteSet(S) /\ Cardinality(S) = n =>
            \A k \in 0 .. n : Cardinality(kSubset(k, S)) * (factorial[k] * factorial[n - k]) = factorial[n]
           T == {n \in Nat : Counted(n)}
<1>0. \A n \in Nat : factorial[n] \in Nat \ {0}
    BY FactorialPositive
<1>1. 0 \in T
    <2> SUFFICES ASSUME NEW S, IsFiniteSet(S), Cardinality(S) = 0, NEW k \in 0 .. 0
                 PROVE  Cardinality(kSubset(k, S)) * (factorial[k] * factorial[0 - k]) = factorial[0]
        OBVIOUS
    <2>1. k = 0 /\ Cardinality(kSubset(0, S)) = 1 /\ 0 - 0 = 0
        BY DrawsAtTheEnds
    <2>2. factorial[0] = 1
        BY FactorialStep
    <2> QED BY <2>1, <2>2
<1>2. ASSUME NEW n \in T PROVE n + 1 \in T
    <2>0. n \in Nat /\ Counted(n)
        OBVIOUS
    <2> HIDE DEF T
    <2> SUFFICES ASSUME NEW S, IsFiniteSet(S), Cardinality(S) = n + 1, NEW k \in 0 .. n + 1
                 PROVE  Cardinality(kSubset(k, S)) * (factorial[k] * factorial[n + 1 - k]) = factorial[n + 1]
        BY <2>0 DEF T
    <2>1. factorial[0] = 1 /\ factorial[n + 1] \in Nat
        BY <2>0, <1>0, FactorialStep
    <2>2. CASE k = 0
        <3>1. Cardinality(kSubset(k, S)) = 1 /\ n + 1 - k = n + 1
            BY <2>2, <2>0, DrawsAtTheEnds
        <3> QED BY <3>1, <2>1, <2>2
    <2>3. CASE k = n + 1
        <3>1. Cardinality(kSubset(k, S)) = 1 /\ n + 1 - k = 0
            BY <2>3, <2>0, DrawsAtTheEnds
        <3> QED BY <3>1, <2>1, <2>3
    <2>4. CASE k # 0 /\ k # n + 1
        <3>1. k \in 1 .. n /\ k - 1 \in 0 .. n /\ k \in 0 .. n /\ k - 1 \in Nat /\ n - k \in Nat
            BY <2>4, <2>0
        <3>2. PICK x \in S : TRUE
            BY <2>0, FS_EmptySet
        <3> DEFINE R == S \ {x}
                   a == Cardinality(kSubset(k, R))
                   b == Cardinality(kSubset(k - 1, R))
                   p == factorial[k - 1]
                   q == factorial[n - k]
                   m == factorial[n]
        <3>3. IsFiniteSet(R) /\ Cardinality(R) = n
            BY <2>0, FS_RemoveElement
        <3>4. Cardinality(kSubset(k, S)) = a + b
            BY <3>1, DrawsStep
        <3>5. a \in Nat /\ b \in Nat
            BY <3>3, DrawsFinite
        <3>6. factorial[k] = k * p
            <4>1. PICK i \in Nat : i = k - 1 /\ i + 1 = k
                BY <3>1
            <4> QED BY <4>1, FactorialStep
        <3>7. factorial[n + 1 - k] = (n + 1 - k) * q /\ factorial[n - (k - 1)] = (n + 1 - k) * q
            <4>1. PICK i \in Nat : i = n - k /\ i + 1 = n + 1 - k /\ i + 1 = n - (k - 1)
                BY <3>1, <2>0
            <4> QED BY <4>1, FactorialStep
        <3>8. factorial[n + 1] = (n + 1) * m
            BY <2>0, FactorialStep
        <3>9. a * (k * p * q) = m
            BY <3>1, <3>3, <3>6, <2>0
        <3>10. b * (p * ((n + 1 - k) * q)) = m
            BY <3>1, <3>3, <3>7, <2>0
        <3>11. p \in Nat /\ q \in Nat /\ m \in Nat
            BY <1>0, <3>1, <2>0
        <3> HIDE DEF a, b, p, q, m
        <3>12. (a + b) * ((k * p) * ((n + 1 - k) * q)) = (n + 1) * m
            <4>1. PICK j \in Nat : j = n + 1 - k /\ n + 1 = j + k
                BY <3>1, <2>0
            <4>2. a * (k * p * q) = m /\ b * (p * (j * q)) = m
                BY <3>9, <3>10, <4>1
            <4>3. (a + b) * ((k * p) * (j * q)) = j * (a * (k * p * q)) + k * (b * (p * (j * q)))
                BY <3>5, <3>11, <3>1, <4>1
            <4>4. (j + k) * m = j * m + k * m
                BY <3>11, <3>1, <4>1
            <4> QED BY <4>1, <4>2, <4>3, <4>4
        <3> QED BY <3>4, <3>6, <3>7, <3>8, <3>12
    <2> QED BY <2>2, <2>3, <2>4
<1>3. T = Nat
    <2>1. T \in SUBSET Nat
        OBVIOUS
    <2> HIDE DEF T
    <2> QED BY <1>1, <1>2, <2>1, Induction
<1> QED BY <1>3

(* choose(n, k) is the number of draws, though it divides. *)
LEMMA ChooseCounts ==
    ASSUME NEW S, IsFiniteSet(S), NEW k \in 0 .. Cardinality(S)
    PROVE  choose(Cardinality(S), k) = Cardinality(kSubset(k, S))
<1> DEFINE n == Cardinality(S)
           d == factorial[k] * factorial[n - k]
           c == Cardinality(kSubset(k, S))
<1>1. n \in Nat /\ n - k \in Nat /\ k \in Nat /\ c \in Nat
    BY FS_CardinalityType, DrawsFinite
<1>2. d \in Nat \ {0}
    <2>1. \A u, v \in Nat \ {0} : u * v \in Nat \ {0}
        OBVIOUS
    <2> QED BY <2>1, <1>1, FactorialPositive
<1>3. c * d = factorial[n]
    BY <1>1, DrawsCounted
<1>4. choose(n, k) = (c * d) \div d
    BY <1>3 DEF choose
<1> HIDE DEF n, d, c
<1>5. (c * d) \div d = c
    BY <1>1, <1>2
<1> QED BY <1>4, <1>5 DEF n, c

(* The curves of pass@k and pass^k (aggregate.py:30-39) are the shares of  *)
(* draws their docstrings speak of, for every number of seeds and passes.  *)
THEOREM CurvesAreShares == Spec => []CurvesCountDraws
<1>1. JobInv /\ CurvesInv => CurvesCountDraws
    <2> SUFFICES ASSUME JobInv, CurvesInv, NEW f \in Names, summary[f] # NoSummary, NEW k \in 1 .. N
                 PROVE  LET passing == {s \in JobSeeds : records[f][s][1] = "pass"}
                            draws == kSubset(k, JobSeeds)
                            share(ratio, hits) == ratio[1] * Cardinality(draws) = hits * ratio[2]
                        IN /\ share(summary[f].at_k[k], Cardinality({D \in draws : D \cap passing # {}}))
                           /\ share(summary[f].pow_k[k], Cardinality({D \in draws : D \subseteq passing}))
        BY DEF CurvesCountDraws
    <2> DEFINE passing == {s \in JobSeeds : records[f][s][1] = "pass"}
               rest    == JobSeeds \ passing
               draws   == kSubset(k, JobSeeds)
               hits    == {D \in draws : D \cap passing # {}}
               misses  == kSubset(k, rest)
               clean   == kSubset(k, passing)
               c       == Cardinality(passing)
    <2>1. /\ summary[f].at_k[k] = PassAtK(N, c, k)
          /\ summary[f].pow_k[k] = PassPowK(N, c, k)
        <3>1. summary[f] = Aggregate(records[f]) /\ CountOf(records[f], {"pass"}) = c
            BY DEF CurvesInv, CountOf
        <3> QED BY <3>1 DEF Aggregate
    <2>2. IsFiniteSet(JobSeeds) /\ Cardinality(JobSeeds) = N /\ N \in Nat \ {0}
        BY SeedsAssumption, FS_Interval DEF JobSeeds
    <2>3. /\ IsFiniteSet(passing) /\ IsFiniteSet(rest)
          /\ c \in Nat /\ c <= N /\ Cardinality(rest) = N - c
        <3>1. passing \subseteq JobSeeds /\ JobSeeds \cap passing = passing
            OBVIOUS
        <3> HIDE DEF passing
        <3> QED BY <2>2, <3>1, FS_Subset, FS_CardinalityType, FS_Difference
    <2>4. {D \in draws : D \subseteq passing} = clean
        BY DEF kSubset
    <2>5. draws = hits \cup misses /\ hits \cap misses = {}
        <3>1. \A D \in draws : D \cap passing = {} <=> D \in misses
            BY DEF kSubset
        <3>2. misses \subseteq draws
            BY DEF kSubset
        <3> HIDE DEF draws, misses
        <3> QED BY <3>1, <3>2
    <2> HIDE DEF passing, rest
    <2>6. choose(N, k) = Cardinality(draws)
        BY <2>2, ChooseCounts
    <2>7. Cardinality(clean) = IF k > c THEN 0 ELSE choose(c, k)
        BY <2>3, ChooseCounts, DrawsAtTheEnds
    <2>8. Cardinality(misses) = IF k > N - c THEN 0 ELSE choose(N - c, k)
        <3>1. N - c \in Nat
            BY <2>2, <2>3
        <3> QED BY <3>1, <2>3, ChooseCounts, DrawsAtTheEnds
    <2>9. /\ IsFiniteSet(draws) /\ IsFiniteSet(misses)
          /\ Cardinality(draws) \in Nat /\ Cardinality(clean) \in Nat /\ Cardinality(misses) \in Nat
        BY <2>2, <2>3, DrawsFinite
    <2> HIDE DEF draws, misses, clean, c
    <2>10. Cardinality(hits) \in Nat /\ Cardinality(draws) = Cardinality(hits) + Cardinality(misses)
        <3>1. IsFiniteSet(hits)
            BY <2>9, FS_Subset
        <3> HIDE DEF hits
        <3>2. Cardinality(hits \cup misses) =
                  Cardinality(hits) + Cardinality(misses) - Cardinality(hits \cap misses)
            BY <2>9, <3>1, FS_Union
        <3>3. Cardinality({}) = 0
            BY FS_EmptySet
        <3>4. Cardinality(hits) \in Nat
            BY <3>1, FS_CardinalityType
        <3>5. Cardinality(hits \cup misses) = Cardinality(draws) /\ Cardinality(hits \cap misses) = 0
            BY <2>5, <3>3
        <3> QED BY <2>9, <3>2, <3>4, <3>5
    <2> HIDE DEF hits
    <2> DEFINE some == summary[f].at_k[k]
               all  == summary[f].pow_k[k]
    <2>11. some[1] = Cardinality(hits) /\ some[2] = Cardinality(draws)
        <3>1. some = PassAtK(N, c, k)
            BY <2>1
        <3> HIDE DEF some
        <3> QED BY <3>1, <2>6, <2>8, <2>9, <2>10 DEF PassAtK
    <2>12. all[1] = Cardinality(clean) /\ all[2] = Cardinality(draws)
        <3>1. all = PassPowK(N, c, k)
            BY <2>1
        <3> HIDE DEF all
        <3> QED BY <3>1, <2>6, <2>7 DEF PassPowK
    <2>13. /\ some[1] * Cardinality(draws) = Cardinality(hits) * some[2]
           /\ all[1] * Cardinality(draws) = Cardinality({D \in draws : D \subseteq passing}) * all[2]
        <3> HIDE DEF some, all
        <3> QED BY <2>4, <2>11, <2>12
    <2> QED BY <2>13 DEF hits, draws, passing
<1>2. Init => CurvesInv
    BY StampsAreNames DEF Init, CurvesInv, Working
<1> QED BY <1>1, <1>2, JobInvAlways, CurvesStep, JobInvInit, JobInvStep, PTL DEF Spec
=============================================================================
