----------------------------- MODULE ReselectProofs -----------------------------
(***************************************************************************)
(* What re-scoring guarantees for any files, seeds, works and references,  *)
(* and any number of passes and of things that happen around them.         *)
(***************************************************************************)
EXTENDS Reselect, NaturalLemmas, FiniteSetTheorems, SequenceTheorems

-----------------------------------------------------------------------------
(* The inductive invariant.                                                *)

(* The run id a row was graded with. *)
Rid(row) == IF row.rid = -1 THEN NoRun ELSE row.rid

(* A row is what grading its seed gives, and its fidelity is of that grade. *)
RowFits(row) ==
    row.kind = "graded" =>
        /\ row.passed = Passed(row.seed, row.scores.lane, Rid(row))
        /\ row.scores.agent = Value(row.seed, row.scores.lane, Rid(row))
        /\ row.matches # "unparsed" => row.matches = Matches(row.seed, row.scores.agent)

(* The report, as long as it can be read, would not change the row. *)
ReportAgrees(row) ==
    row.rid = -1 /\ Recovered(row.seed) =>
        /\ row.passed = Passed(row.seed, row.scores.lane, work[row.seed].named)
        /\ row.scores.agent = Value(row.seed, row.scores.lane, work[row.seed].named)

InHand == pc \in {"decide", "write"}

RowsInv == \A f \in Files : \A i \in DOMAIN files[f] :
    RowFits(files[f][i]) /\ files[f][i].seed \in SeedsOf(f)

(* The outcomes of the file in hand. *)
OutcomeFits(o) ==
    /\ RowFits(o.row) /\ o.row.seed \in SeedsOf(Head(todo))
    /\ IF o.status = "skipped" THEN o.row.kind = "error" \/ o.row.seed \notin dbs
       ELSE /\ o.row.kind = "graded" /\ o.row.rid # -1
            /\ o.row.scores.lane = memo /\ memo # "none"

(* Until it is written, they are of the rows that are there. *)
OutcomeOf(o, row) ==
    /\ o.status = "skipped" => o.row = row
    /\ o.status = "unchanged" =>
         row.kind = "graded" /\ row.scores.lane = memo /\ ReportAgrees(row)

HandInv ==
    InHand =>
        /\ todo # <<>>
        /\ \A i \in DOMAIN outs : OutcomeFits(outs[i])
        /\ pc = "decide" =>
             /\ Len(outs) <= Len(files[Head(todo)])
             /\ \A i \in DOMAIN outs : OutcomeOf(outs[i], files[Head(todo)][i])

(* A row the next pass has nothing to change about. *)
Final(row) ==
    row.kind = "graded" /\ row.seed \in dbs => row.scores.lane = ref /\ ReportAgrees(row)

SettledInv ==
    /\ settled # {} => memo \in {"none", ref}
    /\ \A f \in settled : \A i \in DOMAIN files[f] : Final(files[f][i])
    /\ pc = "decide" /\ Head(todo) \in settled =>
         \A i \in DOMAIN outs : outs[i].status = "changed" => outs[i].row.scores.agent = "nan"

RescoreInv == TypeOK /\ RowsInv /\ HandInv /\ SettledInv

-----------------------------------------------------------------------------
(* Grading.                                                                *)

WorkTyped == work \in [Seeds -> WorkKind]

LEMMA WorkType ==
    ASSUME WorkTyped, NEW s \in Seeds
    PROVE  /\ work[s] \in WorkKind
           /\ DOMAIN work[s].runs = 1 .. Len(work[s].runs) /\ Len(work[s].runs) \in Nat
           /\ \A i \in DOMAIN work[s].runs :
                work[s].runs[i].ok \in BOOLEAN /\ work[s].runs[i].fits \in Numbers
<1>1. work[s] \in WorkKind
    BY DEF WorkTyped
<1> DEFINE rs == work[s].runs
           Run == [ok : BOOLEAN, fits : Numbers]
<1>2. rs \in Seq(Run)
    BY <1>1 DEF WorkKind
<1> HIDE DEF rs, Run
<1>3. Len(rs) \in Nat /\ DOMAIN rs = 1 .. Len(rs) /\ \A i \in DOMAIN rs : rs[i] \in Run
    BY <1>2
<1>4. \A i \in DOMAIN rs : rs[i].ok \in BOOLEAN /\ rs[i].fits \in Numbers
    BY <1>3 DEF Run
<1> QED BY <1>1, <1>3, <1>4 DEF rs

(* Which runs can be graded does not depend on the reference. *)
LEMMA SelectionIgnoresReference ==
    ASSUME NEW s, NEW q, NEW r, NEW mode, NEW rid
    PROVE  /\ Candidates(Judged(s, q), mode) = Candidates(Judged(s, r), mode)
           /\ SelectRun(Judged(s, q), mode, rid) = SelectRun(Judged(s, r), mode, rid)
<1>1. Candidates(Judged(s, q), mode) = Candidates(Judged(s, r), mode)
    BY DEF Candidates, Judged
<1> QED BY <1>1 DEF SelectRun

LEMMA SelectedIsARun ==
    ASSUME WorkTyped, NEW s \in Seeds, NEW r, NEW mode, NEW rid
    PROVE  \/ SelectRun(Judged(s, r), mode, rid) = NoRun
           \/ SelectRun(Judged(s, r), mode, rid) \in DOMAIN work[s].runs
<1> DEFINE C == Candidates(Judged(s, r), mode)
<1>1. C \subseteq 1 .. Len(work[s].runs)
    BY WorkType DEF Candidates, Judged
<1>2. C # {} => Latest(C) \in C
    BY <1>1, WorkType, GreatestElement DEF Latest
<1> QED BY <1>1, <1>2, WorkType DEF SelectRun

(* What a seed is graded on is a matter of the run, not of the reference. *)
LEMMA ValueIgnoresReference ==
    ASSUME NEW s, NEW q, NEW r, NEW rid
    PROVE  Value(s, q, rid) = Value(s, r, rid)
BY SelectionIgnoresReference DEF Value

LEMMA ValueType ==
    ASSUME WorkTyped, NEW s \in Seeds, NEW r, NEW rid
    PROVE  /\ Value(s, r, rid) \in Numbers \cup {"none"}
           /\ Passed(s, r, rid) \in BOOLEAN
           /\ SelectionBasis(Judged(s, r), rid) \in {"named", "fallback_last", "nothing"}
           /\ \A v : Matches(s, v) \in {"yes", "no", "undefined"}
<1>1. Value(s, r, rid) \in Numbers \cup {"none"}
    BY SelectedIsARun, WorkType DEF Value
<1> QED BY <1>1 DEF Passed, Passes, SelectionBasis, Matches

LEMMA GradedRowFits ==
    ASSUME WorkTyped, NEW s \in Seeds, NEW r \in Refs
    PROVE  /\ GradedRow(s, r) \in StoredRow
           /\ RowFits(GradedRow(s, r)) /\ GradedRow(s, r).seed = s
<1> DEFINE row == GradedRow(s, r)
<1>1. work[s].named \in Nat /\ work[s].era \in {"old", "new"} /\ work[s].parsed \in BOOLEAN
    BY WorkType DEF WorkKind
<1>2. row \in StoredRow
    BY <1>1, ValueType DEF GradedRow, StoredRow, Scores, NoRun
<1>3. Rid(row) = IF work[s].era = "new" THEN work[s].named ELSE NoRun
    BY <1>1 DEF GradedRow, Rid
<1>4. RowFits(row)
    BY <1>3 DEF GradedRow, RowFits, Scores
<1> QED BY <1>2, <1>4 DEF GradedRow

LEMMA RowFacts ==
    ASSUME NEW row \in Rows
    PROVE  /\ row.seed \in Seeds /\ row.kind \in {"graded", "error"}
           /\ row.kind = "error" => RowFits(row)
           /\ row.kind = "graded" => row \in StoredRow
           /\ row.kind = "error" => row = ErrorRow(row.seed)
<1>1. CASE row \in StoredRow
    BY <1>1 DEF StoredRow
<1>2. ASSUME NEW s \in Seeds, row = ErrorRow(s) PROVE row.seed = s /\ row.kind = "error"
    BY <1>2 DEF ErrorRow
<1>3. row.kind = "error" => RowFits(row)
    BY DEF RowFits
<1> QED BY <1>1, <1>2, <1>3 DEF Rows

LEMMA ErrorRowIsRow ==
    ASSUME NEW s \in Seeds
    PROVE  ErrorRow(s) \in Rows /\ RowFits(ErrorRow(s)) /\ ErrorRow(s).seed = s
BY DEF Rows, ErrorRow, RowFits

-----------------------------------------------------------------------------
(* Re-scoring one row.                                                     *)

LEMMA RescoredRow ==
    ASSUME TypeOK, NEW row \in StoredRow, RowFits(row), row.seed \in dbs, NEW r \in Refs
    PROVE  LET new == Rescored(row, r) rid == ReportedRunId(row) IN
           /\ new \in StoredRow /\ RowFits(new)
           /\ new.seed = row.seed /\ new.kind = "graded"
           /\ new.rid = rid /\ rid # -1
           /\ new.passed = Passed(row.seed, r, rid)
           /\ new.scores = [agent |-> Value(row.seed, r, rid), lane |-> r]
           /\ ~Recovered(row.seed) => rid = Rid(row)
           /\ row.rid # -1 => rid = row.rid
<1> DEFINE new == Rescored(row, r)
           rid == ReportedRunId(row)
           s == row.seed
<1>0. WorkTyped
    BY DEF TypeOK, WorkTyped
<1>1. s \in Seeds /\ row.kind = "graded" /\ row.rid \in Int /\ work[s].named \in Nat
    BY <1>0, WorkType DEF StoredRow, WorkKind
<1>2. /\ rid \in Int /\ rid # -1
      /\ ~Recovered(s) => rid = Rid(row)
      /\ row.rid # -1 => rid = row.rid
    BY <1>1 DEF ReportedRunId, Rid, NoRun
<1>3. new = [seed |-> s, kind |-> "graded", rid |-> rid, basis |-> SelectionBasis(Judged(s, r), rid),
             passed |-> Passed(s, r, rid), scores |-> Scores(s, r, rid),
             matches |-> Rematched(row, Value(s, r, rid)), stamp |-> TRUE]
    <2>1. new = [row EXCEPT !.rid = rid, !.basis = SelectionBasis(Judged(s, r), rid),
                            !.passed = Passed(s, r, rid), !.scores = Scores(s, r, rid),
                            !.matches = Rematched(row, Value(s, r, rid)), !.stamp = TRUE]
        <3>1. (~(s \notin dbs) /\ Passed(s, r, rid)) = Passed(s, r, rid)
            BY <1>0, <1>1, ValueType
        <3>2. Scores(s, r, rid).agent = Value(s, r, rid)
            BY DEF Scores
        <3> HIDE DEF rid
        <3> QED BY <3>1, <3>2 DEF Rescored, rid
    <2> HIDE DEF new, rid
    <2> QED BY <1>1, <2>1 DEF StoredRow
<1> HIDE DEF new, rid
<1>4. /\ new.seed = s /\ new.kind = "graded" /\ new.rid = rid
      /\ new.passed = Passed(s, r, rid)
      /\ new.scores = [agent |-> Value(s, r, rid), lane |-> r]
      /\ new.matches = Rematched(row, Value(s, r, rid))
    BY <1>1, <1>3 DEF StoredRow, Scores
<1>5. Rematched(row, Value(s, r, rid)) \in {"yes", "no", "undefined", "unparsed"}
    BY <1>0, <1>1, ValueType DEF Rematched, StoredRow
<1>6. new \in StoredRow
    BY <1>0, <1>1, <1>2, <1>3, <1>5, ValueType DEF StoredRow, Scores
<1>7. Rid(new) = rid
    BY <1>2, <1>4 DEF Rid
<1>8. new.matches # "unparsed" => new.matches = Matches(s, new.scores.agent)
    <2>1. CASE Recovered(s)
        BY <1>4, <2>1 DEF Rematched
    <2>2. CASE ~Recovered(s)
        <3>1. new.matches = row.matches /\ rid = Rid(row)
            BY <1>2, <1>4, <2>2 DEF Rematched
        <3>2. row.scores.agent = Value(s, r, rid)
            BY <1>1, <3>1, ValueIgnoresReference DEF RowFits
        <3> QED BY <1>1, <1>4, <3>1, <3>2 DEF RowFits
    <2> QED BY <2>1, <2>2
<1>9. RowFits(new)
    BY <1>4, <1>7, <1>8 DEF RowFits
<1> QED BY <1>2, <1>4, <1>6, <1>9 DEF new, rid

(* The outcome of a row: itself if it cannot be measured, otherwise a row   *)
(* of the current reference and of a known run.                             *)
LEMMA OutcomeFacts ==
    ASSUME TypeOK, NEW row \in Rows, RowFits(row), NEW r \in Refs
    PROVE  LET o == Outcome(row, r) IN
           /\ o \in [row : Rows, status : {"skipped", "changed", "unchanged"}]
           /\ RowFits(o.row) /\ o.row.seed = row.seed
           /\ Skipped(row) => o.status = "skipped" /\ o.row = row
           /\ ~Skipped(row) =>
                /\ o.status # "skipped" /\ o.row = Rescored(row, r)
                /\ o.row.kind = "graded" /\ o.row.rid # -1 /\ o.row.scores.lane = r
                /\ row.kind = "graded" /\ row.seed \in dbs
                /\ o.status = "unchanged" <=> ~Changed(row, o.row)
<1>1. CASE Skipped(row)
    BY <1>1 DEF Outcome
<1>2. CASE ~Skipped(row)
    <2>1. row \in StoredRow /\ row.seed \in dbs /\ row.kind = "graded"
        BY <1>2, RowFacts DEF Skipped
    <2>2. Outcome(row, r) = [row |-> Rescored(row, r),
                             status |-> IF Changed(row, Rescored(row, r)) THEN "changed" ELSE "unchanged"]
        BY <1>2 DEF Outcome
    <2>3. /\ Rescored(row, r) \in Rows /\ RowFits(Rescored(row, r))
          /\ Rescored(row, r).seed = row.seed /\ Rescored(row, r).kind = "graded"
          /\ Rescored(row, r).rid # -1 /\ Rescored(row, r).scores.lane = r
        <3>1. Rescored(row, r) \in Rows
            BY <2>1, RescoredRow DEF Rows
        <3>2. Rescored(row, r).scores = [agent |-> Value(row.seed, r, ReportedRunId(row)), lane |-> r]
            BY <2>1, RescoredRow
        <3> QED BY <2>1, <3>1, <3>2, RescoredRow
    <2> QED BY <1>2, <2>1, <2>2, <2>3
<1> QED BY <1>1, <1>2

(* A row that did not change is of this reference, and its report agrees. *)
LEMMA UnchangedRow ==
    ASSUME TypeOK, NEW row \in StoredRow, RowFits(row), row.seed \in dbs, NEW r \in Refs,
           ~Changed(row, Rescored(row, r))
    PROVE  row.scores.lane = r /\ ReportAgrees(row)
<1>1. row.passed = Rescored(row, r).passed /\ row.scores = Rescored(row, r).scores
    BY DEF Changed, Differ
<1>2. row.passed = Passed(row.seed, r, ReportedRunId(row))
      /\ row.scores = [agent |-> Value(row.seed, r, ReportedRunId(row)), lane |-> r]
    BY <1>1, RescoredRow
<1>3. row.rid = -1 /\ Recovered(row.seed) => ReportedRunId(row) = work[row.seed].named
    BY DEF ReportedRunId
<1> QED BY <1>2, <1>3 DEF ReportAgrees

(* A final row changes only if it holds a NaN. *)
LEMMA FinalRow ==
    ASSUME TypeOK, NEW row \in StoredRow, RowFits(row), row.seed \in dbs,
           row.scores.lane = ref, ReportAgrees(row), Changed(row, Rescored(row, ref))
    PROVE  Rescored(row, ref).scores.agent = "nan"
<1> DEFINE rid == ReportedRunId(row)
<1>1. /\ ref \in Refs /\ row.kind = "graded"
      /\ row.scores = [agent |-> row.scores.agent, lane |-> row.scores.lane]
    BY DEF TypeOK, StoredRow
<1>2. row.passed = Passed(row.seed, ref, rid) /\ row.scores.agent = Value(row.seed, ref, rid)
    <2>1. CASE row.rid = -1 /\ Recovered(row.seed)
        BY <2>1 DEF ReportAgrees, ReportedRunId
    <2>2. CASE ~(row.rid = -1 /\ Recovered(row.seed))
        BY <1>1, <2>2 DEF RowFits, Rid, ReportedRunId
    <2> QED BY <2>1, <2>2
<1>3. Rescored(row, ref).passed = row.passed /\ Rescored(row, ref).scores = row.scores
    BY <1>1, <1>2, RescoredRow
<1> QED BY <1>3 DEF Changed, Differ

-----------------------------------------------------------------------------
(* Frames.                                                                 *)

(* What a seed did never changes, so a row fits in the next state if it    *)
(* does now.                                                               *)
LEMMA GradingKept ==
    ASSUME work' = work
    PROVE  /\ \A s, r, rid : Passed(s, r, rid)' = Passed(s, r, rid)
           /\ \A s, r, rid : Value(s, r, rid)' = Value(s, r, rid)
           /\ \A row : RowFits(row) => RowFits(row)'
<1>1. \A s, r : Judged(s, r)' = Judged(s, r)
    BY DEF Judged
<1>2. \A s, r, rid : Passed(s, r, rid)' = Passed(s, r, rid)
    BY <1>1 DEF Passed
<1>3. \A s, r, rid : Value(s, r, rid)' = Value(s, r, rid)
    BY <1>1 DEF Value
<1>4. \A s, v : Matches(s, v)' = Matches(s, v)
    BY DEF Matches
<1> QED BY <1>2, <1>3, <1>4 DEF RowFits, Rid

(* A report that agrees goes on agreeing: it can only get lost. *)
LEMMA ReportsKept ==
    ASSUME work' = work, streams' \subseteq streams
    PROVE  /\ \A row : ReportAgrees(row) => ReportAgrees(row)'
           /\ \A row : ref' = ref /\ dbs' \subseteq dbs /\ Final(row) => Final(row)'
<1>1. \A s : Recovered(s)' => Recovered(s)
    BY DEF Recovered
<1>2. \A row : ReportAgrees(row) => ReportAgrees(row)'
    BY <1>1, GradingKept DEF ReportAgrees
<1> QED BY <1>2 DEF Final

(* Nothing on disk changes, and the pass is between two files or over. *)
LEMMA BetweenFiles ==
    ASSUME RescoreInv, UNCHANGED <<work, world, files>>, settled' \subseteq settled,
           pc' \in {"idle", "read"}, settled' # {} => memo' \in {"none", ref}
    PROVE  RowsInv' /\ HandInv' /\ SettledInv'
<1>1. UNCHANGED <<work, ref, streams, dbs, files>>
    BY DEF world
<1>2. RowsInv'
    BY <1>1, GradingKept DEF RescoreInv, RowsInv
<1>3. HandInv'
    BY DEF HandInv, InHand
<1>4. \A row : Final(row) => Final(row)'
    BY <1>1, ReportsKept
<1>5. SettledInv'
    BY <1>1, <1>4 DEF RescoreInv, SettledInv
<1> QED BY <1>2, <1>3, <1>5

LEMMA HeadOfTodo ==
    ASSUME TypeOK, todo # <<>>
    PROVE  /\ Head(todo) \in Files /\ Tail(todo) \in Seq(Files)
           /\ files[Head(todo)] \in Seq(Rows)
           /\ Len(files[Head(todo)]) \in Nat
           /\ DOMAIN files[Head(todo)] = 1 .. Len(files[Head(todo)])
           /\ \A i \in DOMAIN files[Head(todo)] : files[Head(todo)][i] \in Rows
<1>1. todo \in Seq(Files) /\ files \in [Files -> Seq(Rows)]
    BY DEF TypeOK
<1>2. Head(todo) \in Files /\ Tail(todo) \in Seq(Files)
    BY <1>1
<1>3. files[Head(todo)] \in Seq(Rows)
    BY <1>1, <1>2
<1> QED BY <1>2, <1>3

LEMMA OutsType ==
    ASSUME TypeOK
    PROVE  /\ outs \in Seq(Outcomes) /\ Len(outs) \in Nat /\ DOMAIN outs = 1 .. Len(outs)
           /\ \A i \in DOMAIN outs : outs[i] \in Outcomes
<1>1. outs \in Seq(Outcomes)
    BY DEF TypeOK
<1> QED BY <1>1

LEMMA OutcomeFields ==
    ASSUME NEW o \in Outcomes
    PROVE  o.row \in Rows /\ o.status \in {"skipped", "changed", "unchanged"}
BY DEF Outcomes

(* The scopes of a pass are sequences of files. *)
LEMMA ScopesAreFiles == TypeOK => Scopes \subseteq Seq(Files)
<1> SUFFICES ASSUME TypeOK PROVE Scopes \subseteq Seq(Files)
    OBVIOUS
<1>1. CampaignRecords \in Seq(Files) /\ \A f \in Files : <<f>> \in Seq(Files)
    BY DEF CampaignRecords, TypeOK
<1> DEFINE n == Cardinality(Files)
<1>2. n \in Nat /\ ExistsBijection(1 .. n, Files)
    BY OwnerAssumption, FS_CardinalityType
<1>3. PICK g \in [1 .. n -> Files] : IsInjective(g)
    BY <1>2 DEF ExistsBijection, Bijection, Injection, IsInjective
<1>4. SetToSeq(Files) \in [1 .. n -> Files]
    BY <1>3 DEF SetToSeq
<1>5. SetToSeq(Files) \in Seq(Files)
    BY <1>2, <1>4
<1> QED BY <1>1, <1>5 DEF Scopes

-----------------------------------------------------------------------------
(* The steps of a pass.                                                    *)

LEMMA InvInit == Init => RescoreInv
<1> SUFFICES ASSUME Init PROVE RescoreInv
    OBVIOUS
<1>1. WorkTyped /\ ref \in Refs
    BY WorksAssumption DEF Init, WorkTyped
<1>2. \A f \in Files : Layout[f] \in Seq(Seeds \X {"error", "graded"})
    BY LayoutAssumption
<1>3. ASSUME NEW f \in Files
      PROVE  /\ files[f] \in Seq(Rows)
             /\ \A i \in DOMAIN files[f] : RowFits(files[f][i]) /\ files[f][i].seed \in SeedsOf(f)
    <2> DEFINE pair == Seeds \X {"error", "graded"}
               L == Layout[f]
    <2>1. L \in Seq(pair)
        BY <1>2
    <2> HIDE DEF pair, L
    <2>2. DOMAIN L = 1 .. Len(L) /\ Len(L) \in Nat /\ \A i \in DOMAIN L : L[i] \in pair
        BY <2>1
    <2>3. files[f] = [i \in DOMAIN L |-> Row(L[i][1], L[i][2], ref)]
        BY DEF Init, L
    <2>4. ASSUME NEW i \in DOMAIN L
          PROVE  /\ Row(L[i][1], L[i][2], ref) \in Rows /\ RowFits(Row(L[i][1], L[i][2], ref))
                 /\ Row(L[i][1], L[i][2], ref).seed \in SeedsOf(f)
        <3>1. L[i][1] \in Seeds /\ L[i][1] \in SeedsOf(f)
            BY <2>2 DEF SeedsOf, pair, L
        <3> QED BY <1>1, <3>1, GradedRowFits, ErrorRowIsRow DEF Row, Rows
    <2>5. files[f] \in Seq(Rows) /\ DOMAIN files[f] = DOMAIN L
        BY <2>2, <2>3, <2>4
    <2> QED BY <2>3, <2>4, <2>5
<1>4. TypeOK
    <2>1. \A f \in Files : files[f] \in Seq(Rows)
        BY <1>3
    <2>2. files = [f \in Files |-> files[f]]
        BY DEF Init
    <2>3. <<>> \in Seq(Files) /\ <<>> \in Seq(Outcomes)
        OBVIOUS
    <2> QED BY <1>1, <2>1, <2>2, <2>3, OwnerAssumption DEF Init, TypeOK, WorkTyped
<1>5. RowsInv
    BY <1>3 DEF RowsInv
<1> QED BY <1>4, <1>5 DEF Init, RescoreInv, HandInv, InHand, SettledInv

LEMMA PassesThrough ==
    ASSUME RescoreInv, Begin \/ Raise \/ Finish
    PROVE  RescoreInv'
<1>1. /\ UNCHANGED <<work, world, disk, settled>> /\ pc' \in {"idle", "read"} /\ memo' = "none"
      /\ dry' \in BOOLEAN /\ todo' \in Seq(Files) /\ (outs' = outs \/ outs' = <<>>)
    <2>1. CASE Begin
        BY <2>1, ScopesAreFiles DEF Begin, RescoreInv
    <2>2. CASE Raise \/ Finish
        <3>1. <<>> \in Seq(Files)
            OBVIOUS
        <3> QED BY <2>2, <3>1 DEF Raise, Finish, End
    <2> QED BY <2>1, <2>2
<1>2. TypeOK'
    <2>1. <<>> \in Seq(Outcomes)
        OBVIOUS
    <2> QED BY <1>1, <2>1 DEF RescoreInv, TypeOK, world, disk
<1>3. RowsInv' /\ HandInv' /\ SettledInv'
    BY <1>1, BetweenFiles DEF disk
<1> QED BY <1>2, <1>3 DEF RescoreInv

LEMMA Reads ==
    ASSUME RescoreInv, Read
    PROVE  RescoreInv'
<1> DEFINE f == Head(todo)
           rs == files[f]
<1>1. /\ pc = "read" /\ pc' = "decide" /\ todo # <<>>
      /\ outs' = [i \in DOMAIN rs |-> Outcome(rs[i], Told)]
      /\ memo' = IF \A i \in DOMAIN rs : Skipped(rs[i]) THEN memo ELSE Told
      /\ UNCHANGED <<work, ref, streams, dbs, files, torn, newest, todo, dry, settled>>
    BY DEF Read, world, disk
<1>2. /\ f \in Files /\ Len(rs) \in Nat /\ DOMAIN rs = 1 .. Len(rs)
      /\ \A i \in DOMAIN rs : rs[i] \in Rows /\ RowFits(rs[i]) /\ rs[i].seed \in SeedsOf(f)
    BY <1>1, HeadOfTodo DEF RescoreInv, RowsInv
<1>3. Told \in Refs /\ Told # "none"
    BY WorksAssumption DEF Told, RescoreInv, TypeOK
<1>4. \A i \in DOMAIN rs : Outcome(rs[i], Told) \in Outcomes
    BY <1>2, <1>3, OutcomeFacts DEF Outcomes, RescoreInv
<1>5. outs' \in Seq(Outcomes) /\ DOMAIN outs' = DOMAIN rs /\ Len(outs') = Len(rs)
    BY <1>1, <1>2, <1>4
<1>6. TypeOK'
    BY <1>1, <1>3, <1>5 DEF RescoreInv, TypeOK
<1>7. RowsInv'
    BY <1>1, GradingKept DEF RescoreInv, RowsInv
<1>8. ASSUME NEW i \in DOMAIN rs
      PROVE  /\ OutcomeFits(outs[i])' /\ OutcomeOf(outs[i], rs[i])'
             /\ f \in settled /\ outs'[i].status = "changed" => outs'[i].row.scores.agent = "nan"
    <2>1. PICK row \in Rows : row = rs[i] /\ RowFits(row) /\ row.seed \in SeedsOf(f)
        BY <1>2
    <2>2. PICK o \in Outcomes : o = Outcome(row, Told)
        BY <1>4, <2>1
    <2>3. outs'[i] = o /\ rs'[i] = row /\ f' = f
        BY <1>1, <2>1, <2>2
    <2>4. /\ RowFits(o.row) /\ o.row.seed = row.seed
          /\ Skipped(row) => o.status = "skipped" /\ o.row = row
          /\ ~Skipped(row) =>
                /\ o.status # "skipped" /\ o.row = Rescored(row, Told)
                /\ o.row.kind = "graded" /\ o.row.rid # -1 /\ o.row.scores.lane = Told
                /\ row.kind = "graded" /\ row.seed \in dbs
                /\ o.status = "unchanged" <=> ~Changed(row, o.row)
        BY <1>3, <2>1, <2>2, OutcomeFacts DEF RescoreInv
    <2>5. ~Skipped(row) => memo' = Told
        BY <1>1, <2>1
    <2>6. ~Skipped(row) => row \in StoredRow
        BY <2>1, <2>4, RowFacts
    <2>7. RowFits(o.row)' /\ o.row.seed \in SeedsOf(f)
        BY <1>1, <2>1, <2>4, GradingKept
    <2>8. OutcomeFits(o)'
        BY <1>1, <1>3, <2>3, <2>4, <2>5, <2>7 DEF OutcomeFits, Skipped
    <2>9. OutcomeOf(o, row)'
        <3>1. o.status = "unchanged" => row.scores.lane = Told /\ ReportAgrees(row)
            BY <1>3, <2>1, <2>4, <2>6, UnchangedRow DEF RescoreInv
        <3>2. ReportAgrees(row) => ReportAgrees(row)'
            BY <1>1, ReportsKept
        <3> QED BY <2>4, <2>5, <3>1, <3>2 DEF OutcomeOf
    <2>10. f \in settled /\ o.status = "changed" => o.row.scores.agent = "nan"
        <3> SUFFICES ASSUME f \in settled, o.status = "changed" PROVE o.row.scores.agent = "nan"
            OBVIOUS
        <3>1. ~Skipped(row) /\ Changed(row, o.row)
            BY <2>4
        <3>2. Final(row) /\ Told = ref
            BY <2>1 DEF RescoreInv, SettledInv, Told
        <3> QED BY <2>1, <2>4, <2>6, <3>1, <3>2, FinalRow DEF Final, RescoreInv
    <2>11. OutcomeFits(outs[i])' /\ OutcomeOf(outs[i], rs[i])'
        BY <2>3, <2>8, <2>9
    <2> QED BY <2>3, <2>10, <2>11
<1>9. HandInv'
    <2>1. todo' # <<>> /\ Len(outs)' <= Len(files[Head(todo)])' /\ pc' # "write"
        BY <1>1, <1>2, <1>5
    <2>2. \A i \in DOMAIN outs' : OutcomeFits(outs[i])'
        BY <1>5, <1>8
    <2>3. \A i \in DOMAIN outs' : OutcomeOf(outs[i], files[Head(todo)][i])'
        BY <1>5, <1>8
    <2> QED BY <2>1, <2>2, <2>3 DEF HandInv
<1>10. SettledInv'
    <2>1. settled' # {} => memo' \in {"none", ref'}
        BY <1>1 DEF RescoreInv, SettledInv, Told
    <2>2. \A row : Final(row) => Final(row)'
        BY <1>1, ReportsKept
    <2>3. \A g \in settled' : \A i \in DOMAIN files'[g] : Final(files[g][i])'
        BY <1>1, <2>2 DEF RescoreInv, SettledInv
    <2> QED BY <1>1, <1>5, <1>8, <2>1, <2>3 DEF SettledInv
<1> QED BY <1>6, <1>7, <1>9, <1>10 DEF RescoreInv

(* A file without a changed row, or a dry run. *)
LEMMA Leaves ==
    ASSUME RescoreInv, Leave
    PROVE  RescoreInv'
<1> DEFINE f == Head(todo)
<1>1. /\ pc = "decide" /\ pc' = "read" /\ todo' = Tail(todo) /\ outs' = <<>>
      /\ UNCHANGED <<work, ref, streams, dbs, files, torn, newest, dry, memo>>
      /\ settled' = settled \/ (/\ ~AnyChanged /\ Len(files[f]) = Len(outs)
                                /\ memo \in {"none", ref} /\ settled' = settled \cup {f})
    BY DEF Leave, NextFile, Settle, world, disk
<1>2. todo # <<>> /\ f \in Files /\ Tail(todo) \in Seq(Files)
    BY <1>1, HeadOfTodo DEF RescoreInv, HandInv, InHand
<1>3. TypeOK'
    <2>1. <<>> \in Seq(Outcomes)
        OBVIOUS
    <2> QED BY <1>1, <1>2, <2>1 DEF RescoreInv, TypeOK
<1>4. CASE settled' = settled
    <2>1. settled' # {} => memo' \in {"none", ref}
        BY <1>1, <1>4 DEF RescoreInv, SettledInv
    <2> QED BY <1>1, <1>3, <1>4, <2>1, BetweenFiles DEF RescoreInv, world
<1>5. CASE /\ ~AnyChanged /\ Len(files[f]) = Len(outs)
           /\ memo \in {"none", ref} /\ settled' = settled \cup {f}
    <2>1. RowsInv' /\ HandInv'
        BY <1>1, GradingKept DEF RescoreInv, RowsInv, HandInv, InHand
    <2>2. \A row : Final(row) => Final(row)'
        BY <1>1, ReportsKept
    <2>3. ASSUME NEW i \in DOMAIN files[f] PROVE Final(files[f][i])
        <3>1. i \in DOMAIN outs /\ outs[i] \in Outcomes
            BY <1>2, <1>5, HeadOfTodo, OutsType DEF RescoreInv
        <3>2. OutcomeFits(outs[i]) /\ OutcomeOf(outs[i], files[f][i])
            BY <1>1, <3>1 DEF RescoreInv, HandInv, InHand
        <3>3. outs[i].status \in {"skipped", "unchanged"}
            BY <1>5, <3>1, OutcomeFields DEF AnyChanged
        <3> QED BY <1>5, <3>2, <3>3 DEF OutcomeFits, OutcomeOf, Final
    <2>4. \A g \in settled' : \A i \in DOMAIN files'[g] : Final(files[g][i])'
        BY <1>1, <1>5, <2>2, <2>3 DEF RescoreInv, SettledInv
    <2>5. SettledInv'
        BY <1>1, <1>5, <2>4 DEF SettledInv
    <2> QED BY <1>3, <2>1, <2>5 DEF RescoreInv
<1> QED BY <1>1, <1>4, <1>5

LEMMA Truncates ==
    ASSUME RescoreInv, Truncate
    PROVE  RescoreInv'
<1> DEFINE f == Head(todo)
<1>1. /\ pc = "decide" /\ pc' = "write" /\ files' = [files EXCEPT ![f] = <<>>]
      /\ torn' = torn \ {f} /\ newest' = f
      /\ UNCHANGED <<work, ref, streams, dbs, todo, dry, memo, outs, settled>>
    BY DEF Truncate, world
<1>2. todo # <<>> /\ f \in Files
    BY <1>1, HeadOfTodo DEF RescoreInv, HandInv, InHand
<1>3. /\ files' \in [Files -> Seq(Rows)] /\ files'[f] = <<>>
      /\ \A g \in Files : g # f => files'[g] = files[g]
    BY <1>1, <1>2 DEF RescoreInv, TypeOK
<1>4. TypeOK'
    BY <1>1, <1>2, <1>3 DEF RescoreInv, TypeOK
<1>5. RowsInv'
    <2> SUFFICES ASSUME NEW g \in Files, NEW i \in DOMAIN files'[g]
                 PROVE  RowFits(files[g][i])' /\ files'[g][i].seed \in SeedsOf(g)
        BY DEF RowsInv
    <2>1. g # f /\ files'[g] = files[g]
        BY <1>3
    <2> QED BY <1>1, <2>1, GradingKept DEF RescoreInv, RowsInv
<1>6. HandInv'
    <2>1. \A o : OutcomeFits(o) => OutcomeFits(o)'
        BY <1>1, GradingKept DEF OutcomeFits
    <2>2. \A i \in DOMAIN outs : OutcomeFits(outs[i])'
        BY <1>1, <2>1 DEF RescoreInv, HandInv, InHand
    <2> QED BY <1>1, <1>2, <1>3, <2>2 DEF HandInv
<1>7. SettledInv'
    <2>1. \A row : Final(row) => Final(row)'
        BY <1>1, ReportsKept
    <2>2. ASSUME NEW g \in settled', NEW i \in DOMAIN files'[g] PROVE Final(files[g][i])'
        <3>1. g \in Files /\ g # f /\ files'[g] = files[g]
            BY <1>1, <1>3 DEF RescoreInv, TypeOK
        <3> QED BY <1>1, <2>1, <3>1 DEF RescoreInv, SettledInv
    <2> QED BY <1>1, <2>2 DEF RescoreInv, SettledInv
<1> QED BY <1>4, <1>5, <1>6, <1>7 DEF RescoreInv

(* What is written back, whole or up to where the pass died. *)
LEMMA RowsWritten ==
    ASSUME RescoreInv, pc = "write", NEW n \in 0 .. Len(outs)
    PROVE  /\ [i \in 1 .. n |-> outs[i].row] \in Seq(Rows)
           /\ \A i \in 1 .. n : /\ RowFits(outs[i].row) /\ outs[i].row.seed \in SeedsOf(Head(todo))
                                /\ memo \in {"none", ref} => Final(outs[i].row)
<1>1. \A i \in 1 .. n : i \in DOMAIN outs /\ outs[i] \in Outcomes
    BY OutsType DEF RescoreInv
<1>2. \A i \in 1 .. n : outs[i].row \in Rows
    BY <1>1, OutcomeFields
<1>3. \A i \in 1 .. n : OutcomeFits(outs[i])
    BY <1>1 DEF RescoreInv, HandInv, InHand
<1>4. \A i \in 1 .. n : memo \in {"none", ref} => Final(outs[i].row)
    BY <1>3 DEF OutcomeFits, Final, ReportAgrees
<1>5. n \in Nat
    BY OutsType DEF RescoreInv
<1> QED BY <1>2, <1>3, <1>4, <1>5 DEF OutcomeFits

LEMMA WritesBack ==
    ASSUME RescoreInv, WriteBack
    PROVE  RescoreInv'
<1> DEFINE f == Head(todo)
           new == [i \in 1 .. Len(outs) |-> outs[i].row]
<1>1. /\ pc = "write" /\ pc' = "read" /\ todo' = Tail(todo) /\ outs' = <<>> /\ newest' = f
      /\ files' = [files EXCEPT ![f] = new] /\ settled' = Settle
      /\ UNCHANGED <<work, ref, streams, dbs, torn, dry, memo>>
    BY OutsType DEF WriteBack, NextFile, world, RescoreInv
<1>2. todo # <<>> /\ f \in Files /\ Tail(todo) \in Seq(Files)
    BY <1>1, HeadOfTodo DEF RescoreInv, HandInv, InHand
<1>3. /\ new \in Seq(Rows)
      /\ \A i \in DOMAIN new : /\ RowFits(new[i]) /\ new[i].seed \in SeedsOf(f)
                               /\ memo \in {"none", ref} => Final(new[i])
    <2>1. Len(outs) \in Nat /\ Len(outs) \in 0 .. Len(outs)
        BY OutsType DEF RescoreInv
    <2> QED BY <1>1, <2>1, RowsWritten
<1> HIDE DEF new
<1>4. /\ files' \in [Files -> Seq(Rows)] /\ files'[f] = new
      /\ \A g \in Files : g # f => files'[g] = files[g]
    BY <1>1, <1>2, <1>3 DEF RescoreInv, TypeOK
<1>5. TypeOK'
    <2>1. <<>> \in Seq(Outcomes)
        OBVIOUS
    <2> QED BY <1>1, <1>2, <1>4, <2>1 DEF RescoreInv, TypeOK, Settle
<1>6. RowsInv'
    <2> SUFFICES ASSUME NEW g \in Files, NEW i \in DOMAIN files'[g]
                 PROVE  RowFits(files[g][i])' /\ files'[g][i].seed \in SeedsOf(g)
        BY DEF RowsInv
    <2>1. RowFits(files'[g][i]) /\ files'[g][i].seed \in SeedsOf(g)
        BY <1>3, <1>4 DEF RescoreInv, RowsInv
    <2>2. PICK row : row = files'[g][i]
        OBVIOUS
    <2> QED BY <1>1, <2>1, <2>2, GradingKept
<1>7. HandInv'
    BY <1>1 DEF HandInv, InHand
<1>8. SettledInv'
    <2>1. \A row : Final(row) => Final(row)'
        BY <1>1, ReportsKept
    <2>2. ASSUME NEW g \in settled', NEW i \in DOMAIN files'[g] PROVE Final(files[g][i])'
        <3>1. Final(files'[g][i])
            BY <1>1, <1>3, <1>4 DEF RescoreInv, SettledInv, Settle, TypeOK
        <3>2. PICK row : row = files'[g][i]
            OBVIOUS
        <3> QED BY <2>1, <3>1, <3>2
    <2>3. settled' # {} => memo' \in {"none", ref'}
        BY <1>1 DEF RescoreInv, SettledInv, Settle
    <2> QED BY <1>1, <2>2, <2>3 DEF SettledInv
<1> QED BY <1>5, <1>6, <1>7, <1>8 DEF RescoreInv

-----------------------------------------------------------------------------
(* What happens around a pass.                                             *)

LEMMA Dies ==
    ASSUME RescoreInv, Die
    PROVE  RescoreInv'
<1> DEFINE f == Head(todo)
<1>1. /\ pc' = "idle" /\ todo' = <<>> /\ outs' = <<>> /\ memo' = "none" /\ dry' = FALSE
      /\ UNCHANGED <<work, ref, streams, dbs, newest>>
    BY DEF Die, End, world
<1>2. <<>> \in Seq(Files) /\ <<>> \in Seq(Outcomes)
    OBVIOUS
<1>3. CASE UNCHANGED <<files, torn>>
    <2>1. settled' \subseteq settled
        BY DEF Die
    <2>2. TypeOK'
        BY <1>1, <1>2, <1>3, <2>1 DEF RescoreInv, TypeOK
    <2> QED BY <1>1, <1>3, <2>1, <2>2, BetweenFiles DEF RescoreInv, world
<1>4. CASE pc = "write" /\ ~UNCHANGED <<files, torn>>
    <2>1. PICK n \in 0 .. Len(outs) - 1, cut \in BOOLEAN :
              /\ files' = [files EXCEPT ![f] = [i \in 1 .. n |-> outs[i].row]]
              /\ torn' = IF cut THEN torn \cup {f} ELSE torn
        BY <1>4 DEF Die
    <2>2. settled' = settled \ {f} /\ todo # <<>> /\ f \in Files
        BY <1>4, HeadOfTodo DEF Die, RescoreInv, HandInv, InHand
    <2> DEFINE new == [i \in 1 .. n |-> outs[i].row]
    <2>3. n \in 0 .. Len(outs)
        BY OutsType DEF RescoreInv
    <2>4. /\ new \in Seq(Rows)
          /\ \A i \in DOMAIN new : RowFits(new[i]) /\ new[i].seed \in SeedsOf(f)
        BY <1>4, <2>3, RowsWritten
    <2> HIDE DEF new
    <2>5. /\ files' \in [Files -> Seq(Rows)] /\ files'[f] = new
          /\ \A g \in Files : g # f => files'[g] = files[g]
        BY <2>1, <2>2, <2>4 DEF RescoreInv, TypeOK, new
    <2>6. TypeOK'
        BY <1>1, <1>2, <2>1, <2>2, <2>5 DEF RescoreInv, TypeOK
    <2>7. RowsInv'
        <3> SUFFICES ASSUME NEW g \in Files, NEW i \in DOMAIN files'[g]
                     PROVE  RowFits(files[g][i])' /\ files'[g][i].seed \in SeedsOf(g)
            BY DEF RowsInv
        <3>1. RowFits(files'[g][i]) /\ files'[g][i].seed \in SeedsOf(g)
            BY <2>4, <2>5 DEF RescoreInv, RowsInv
        <3>2. PICK row : row = files'[g][i]
            OBVIOUS
        <3> QED BY <1>1, <3>1, <3>2, GradingKept
    <2>8. HandInv'
        BY <1>1 DEF HandInv, InHand
    <2>9. SettledInv'
        <3>1. \A row : Final(row) => Final(row)'
            BY <1>1, ReportsKept
        <3>2. ASSUME NEW g \in settled', NEW i \in DOMAIN files'[g] PROVE Final(files[g][i])'
            <4>1. g \in settled /\ g \in Files /\ files'[g] = files[g]
                BY <2>2, <2>5 DEF RescoreInv, TypeOK
            <4> QED BY <3>1, <4>1 DEF RescoreInv, SettledInv
        <3> QED BY <1>1, <3>2 DEF SettledInv
    <2> QED BY <2>6, <2>7, <2>8, <2>9 DEF RescoreInv
<1> QED BY <1>3, <1>4 DEF Die

(* The outcomes in hand survive what happens to their files' surroundings. *)
LEMMA HandKept ==
    ASSUME RescoreInv, UNCHANGED <<work, files, pass>>, streams' \subseteq streams,
           dbs' \subseteq dbs
    PROVE  HandInv'
<1>1. UNCHANGED <<pc, todo, memo, outs>>
    BY DEF pass
<1>2. \A o : OutcomeFits(o) => OutcomeFits(o)'
    BY <1>1, GradingKept DEF OutcomeFits
<1>3. \A o, row : OutcomeOf(o, row) => OutcomeOf(o, row)'
    BY <1>1, ReportsKept DEF OutcomeOf
<1> QED BY <1>1, <1>2, <1>3 DEF RescoreInv, HandInv, InHand

LEMMA Surroundings ==
    ASSUME RescoreInv,
           MoveReference \/ \E s \in Seeds : LoseWorkspace(s) \/ LoseDb(s)
    PROVE  RescoreInv'
<1>1. /\ UNCHANGED <<work, files, pass>> /\ torn' = torn /\ newest' = newest
      /\ ref' \in Refs /\ streams' \subseteq streams /\ dbs' \subseteq dbs
      /\ settled' = {} \/ (ref' = ref /\ settled' = settled)
    <2>1. CASE MoveReference
        BY <2>1 DEF MoveReference, disk
    <2>2. ASSUME NEW s \in Seeds, LoseWorkspace(s) \/ LoseDb(s)
          PROVE  /\ UNCHANGED <<work, disk, pass, ref, settled>>
                 /\ streams' \subseteq streams /\ dbs' \subseteq dbs
        BY <2>2 DEF LoseWorkspace, LoseDb
    <2> QED BY <2>1, <2>2 DEF disk, RescoreInv, TypeOK
<1>2. UNCHANGED <<pc, todo, dry, memo, outs>>
    BY <1>1 DEF pass
<1>3. TypeOK'
    BY <1>1, <1>2 DEF RescoreInv, TypeOK
<1>4. RowsInv'
    BY <1>1, GradingKept DEF RescoreInv, RowsInv
<1>5. HandInv'
    BY <1>1, HandKept
<1>6. SettledInv'
    <2>1. CASE settled' = {}
        BY <2>1 DEF SettledInv
    <2>2. CASE ref' = ref /\ settled' = settled
        <3>1. \A row : Final(row) => Final(row)'
            BY <1>1, <2>2, ReportsKept
        <3> QED BY <1>1, <1>2, <2>2, <3>1 DEF RescoreInv, SettledInv
    <2> QED BY <1>1, <2>1, <2>2
<1> QED BY <1>3, <1>4, <1>5, <1>6 DEF RescoreInv

(* A row appended: its seed had no graded row in that file, and has none in *)
(* any other.                                                              *)
LEMMA Appends ==
    ASSUME RescoreInv, NEW f \in Files, NEW s \in Seeds, AppendRetry(f, s)
    PROVE  RescoreInv'
<1> DEFINE new == GradedRow(s, ref)
           h == Head(todo)
<1>1. /\ ErrorRow(s) \in Known(f) /\ \A row \in Known(f) : row.seed = s => row.kind = "error"
      /\ files' = [files EXCEPT ![f] = Append(@, new)]
      /\ newest' = f /\ dbs' = dbs \cup {s} /\ settled' = settled \ {f}
      /\ UNCHANGED <<work, torn, ref, streams, pc, todo, dry, memo, outs>>
    BY DEF AppendRetry, pass
<1>2. /\ new \in Rows /\ RowFits(new) /\ new.seed = s
    BY GradedRowFits DEF RescoreInv, TypeOK, WorkTyped, Rows
<1>3. s \in SeedsOf(f)
    <2>1. ErrorRow(s).seed = s
        BY ErrorRowIsRow
    <2>2. CASE ErrorRow(s) \in ToSet(files[f])
        BY <2>1, <2>2 DEF RescoreInv, RowsInv, ToSet
    <2>3. CASE /\ pc = "write" /\ f = h
               /\ \E i \in DOMAIN outs : ErrorRow(s) = outs[i].row
        BY <2>1, <2>3 DEF RescoreInv, HandInv, InHand, OutcomeFits
    <2> QED BY <1>1, <2>2, <2>3 DEF Known
<1>4. \A g \in Files : g # f => s \notin SeedsOf(g)
    BY <1>3, LayoutAssumption
<1> HIDE DEF new
<1>5. files[f] \in Seq(Rows)
    BY DEF RescoreInv, TypeOK
<1>6. /\ files' \in [Files -> Seq(Rows)] /\ files'[f] = Append(files[f], new)
      /\ \A g \in Files : g # f => files'[g] = files[g]
    BY <1>1, <1>2, <1>5 DEF RescoreInv, TypeOK
<1>7. /\ Len(files'[f]) = Len(files[f]) + 1 /\ Len(files[f]) \in Nat
      /\ \A i \in DOMAIN files[f] : files'[f][i] = files[f][i]
      /\ \A i \in DOMAIN files'[f] : i \in DOMAIN files[f] \/ files'[f][i] = new
    BY <1>2, <1>5, <1>6
<1>8. TypeOK'
    BY <1>1, <1>6 DEF RescoreInv, TypeOK
<1>9. RowsInv'
    <2> SUFFICES ASSUME NEW g \in Files, NEW i \in DOMAIN files'[g]
                 PROVE  RowFits(files[g][i])' /\ files'[g][i].seed \in SeedsOf(g)
        BY DEF RowsInv
    <2>1. RowFits(files'[g][i]) /\ files'[g][i].seed \in SeedsOf(g)
        BY <1>2, <1>3, <1>6, <1>7 DEF RescoreInv, RowsInv
    <2>2. PICK row : row = files'[g][i]
        OBVIOUS
    <2> QED BY <1>1, <2>1, <2>2, GradingKept
<1>10. HandInv'
    <2> SUFFICES ASSUME InHand PROVE HandInv'
        BY <1>1 DEF HandInv, InHand
    <2>1. todo # <<>> /\ h \in Files
        BY HeadOfTodo DEF RescoreInv, HandInv
    <2>3. ASSUME NEW i \in DOMAIN outs PROVE OutcomeFits(outs[i])'
        <3>1. PICK o \in Outcomes : o = outs[i]
            BY OutsType DEF RescoreInv
        <3>2. OutcomeFits(o)
            BY <3>1 DEF RescoreInv, HandInv
        <3>3. o.status = "skipped" /\ o.row.kind # "error" => o.row.seed # s
            <4>1. CASE f # h
                BY <1>4, <2>1, <3>2, <4>1 DEF OutcomeFits
            <4>2. CASE f = h /\ pc = "decide"
                <5>1. i \in DOMAIN files[h]
                    BY <2>1, <4>2, OutsType, HeadOfTodo DEF RescoreInv, HandInv, InHand
                <5>2. o.status = "skipped" => o.row = files[h][i]
                    BY <3>1, <4>2, <5>1 DEF RescoreInv, HandInv, InHand, OutcomeOf
                <5> QED BY <1>1, <4>2, <5>1, <5>2 DEF Known, ToSet
            <4>3. CASE f = h /\ pc = "write"
                BY <1>1, <3>1, <4>3 DEF Known
            <4> QED BY <4>1, <4>2, <4>3 DEF InHand
        <3>4. OutcomeFits(o)'
            BY <1>1, <3>2, <3>3, GradingKept DEF OutcomeFits
        <3> QED BY <1>1, <3>1, <3>4
    <2>4. pc = "decide" => /\ Len(outs) <= Len(files'[h])
                           /\ \A i \in DOMAIN outs : files'[h][i] = files[h][i]
        <3> SUFFICES ASSUME pc = "decide"
                     PROVE  /\ Len(outs) <= Len(files'[h])
                            /\ \A i \in DOMAIN outs : files'[h][i] = files[h][i]
            OBVIOUS
        <3>1. Len(outs) <= Len(files[h]) /\ Len(outs) \in Nat /\ Len(files[h]) \in Nat
            BY <2>1, OutsType, HeadOfTodo DEF RescoreInv, HandInv
        <3>2. DOMAIN outs \subseteq DOMAIN files[h]
            BY <2>1, <3>1, OutsType, HeadOfTodo DEF RescoreInv
        <3> QED BY <1>6, <1>7, <2>1, <3>1, <3>2
    <2>5. pc = "decide" => \A i \in DOMAIN outs : OutcomeOf(outs[i], files[h][i])'
        <3>1. \A o, row : OutcomeOf(o, row) => OutcomeOf(o, row)'
            BY <1>1, ReportsKept DEF OutcomeOf
        <3>2. ASSUME pc = "decide", NEW i \in DOMAIN outs PROVE OutcomeOf(outs[i], files[h][i])'
            <4>1. PICK o : o = outs[i]
                OBVIOUS
            <4>2. PICK row : row = files[h][i]
                OBVIOUS
            <4>3. OutcomeOf(o, row)
                BY <3>2, <4>1, <4>2 DEF RescoreInv, HandInv
            <4>4. outs'[i] = o /\ files'[h'][i] = row
                BY <1>1, <2>4, <3>2, <4>1, <4>2
            <4> QED BY <3>1, <4>3, <4>4
        <3> QED BY <3>2
    <2>7. \A i \in DOMAIN outs' : OutcomeFits(outs[i])'
        BY <1>1, <2>3
    <2>8. pc' = "decide" => \A i \in DOMAIN outs' : OutcomeOf(outs[i], files[Head(todo)][i])'
        BY <1>1, <2>5
    <2> QED BY <1>1, <2>1, <2>4, <2>7, <2>8 DEF HandInv
<1>11. SettledInv'
    <2>1. \A row : Final(row) /\ row.seed # s => Final(row)'
        BY <1>1, ReportsKept DEF Final
    <2>2. ASSUME NEW g \in settled', NEW i \in DOMAIN files'[g] PROVE Final(files[g][i])'
        <3>1. g \in settled /\ g \in Files /\ g # f /\ files'[g] = files[g]
            BY <1>1, <1>6 DEF RescoreInv, TypeOK
        <3>2. Final(files[g][i]) /\ files[g][i].seed \in SeedsOf(g)
            BY <3>1 DEF RescoreInv, SettledInv, RowsInv
        <3>3. PICK row : row = files'[g][i]
            OBVIOUS
        <3> QED BY <1>4, <2>1, <3>1, <3>2, <3>3
    <2> QED BY <1>1, <2>2 DEF RescoreInv, SettledInv
<1> QED BY <1>8, <1>9, <1>10, <1>11 DEF RescoreInv

-----------------------------------------------------------------------------
(* Every reachable state.                                                  *)

LEMMA InvStep == RescoreInv /\ [Next]_vars => RescoreInv'
<1> SUFFICES ASSUME RescoreInv, [Next]_vars PROVE RescoreInv'
    OBVIOUS
<1>1. CASE Begin \/ Raise \/ Finish
    BY <1>1, PassesThrough
<1>2. CASE Read
    BY <1>2, Reads
<1>3. CASE Leave
    BY <1>3, Leaves
<1>4. CASE Truncate
    BY <1>4, Truncates
<1>5. CASE WriteBack
    BY <1>5, WritesBack
<1>6. CASE Die
    BY <1>6, Dies
<1>7. CASE MoveReference \/ \E s \in Seeds : LoseWorkspace(s) \/ LoseDb(s)
    BY <1>7, Surroundings
<1>8. ASSUME NEW f \in Files, NEW s \in Seeds, AppendRetry(f, s) PROVE RescoreInv'
    BY <1>8, Appends
<1>9. CASE UNCHANGED vars
    <2>1. UNCHANGED <<work, files, torn, newest, ref, streams, dbs, pass, settled>>
        BY <1>9 DEF vars, world, disk
    <2>2. UNCHANGED <<pc, todo, dry, memo, outs>>
        BY <2>1 DEF pass
    <2>3. TypeOK' /\ RowsInv' /\ HandInv'
        BY <2>1, <2>2, GradingKept, HandKept DEF RescoreInv, TypeOK, RowsInv
    <2>4. \A row : Final(row) => Final(row)'
        BY <2>1, ReportsKept
    <2>5. SettledInv'
        BY <2>1, <2>2, <2>4 DEF RescoreInv, SettledInv
    <2> QED BY <2>3, <2>5 DEF RescoreInv
<1> QED BY <1>1, <1>2, <1>3, <1>4, <1>5, <1>6, <1>7, <1>8, <1>9 DEF Next, PassStep

LEMMA InvAlways == Spec => []RescoreInv
BY InvInit, InvStep, PTL DEF Spec

(* Every file keeps the shape reselect.py reads and writes, however often  *)
(* it is rewritten, cut short or appended to.                              *)
THEOREM RescoreTyping == Spec => []TypeOK
<1>1. RescoreInv => TypeOK
    BY DEF RescoreInv
<1> QED BY <1>1, InvAlways, PTL

(* The fidelity a row carries is of the run it is graded on (reselect.py    *)
(* reselect_record), also when the report can no longer be recovered.      *)
THEOREM FidelityFollowsTheGrade == Spec => []ReportingFitsTheGrade
<1>1. RescoreInv => ReportingFitsTheGrade
    BY DEF RescoreInv, RowsInv, RowFits, ReportingFitsTheGrade
<1> QED BY <1>1, InvAlways, PTL

(* Only Read computes outcomes. *)
LEMMA OnlyReadDecides ==
    ASSUME RescoreInv, [Next]_vars, pc = "read", pc' = "decide"
    PROVE  Read
BY DEF Next, PassStep, Begin, Raise, Leave, Truncate, WriteBack, Finish, Die, MoveReference,
       LoseWorkspace, LoseDb, AppendRetry, End, NextFile, pass, vars

(* Losing the workspace or the DB moves neither the value of a row nor,     *)
(* under the same reference, its verdict: without a report it is the run   *)
(* the row holds, or the last as the row was graded, that is graded again  *)
(* (reselect.py reselect_record, reported_run_id, recover_report).         *)
THEOREM LostSourcesKeepTheGrade == Spec => GradesOutliveTheirSources
<1> DEFINE Outlives(old, new) ==
               old.kind = "graded" /\ (old.seed \notin dbs \/ ~Recovered(old.seed)) =>
                   /\ new.scores.agent = old.scores.agent
                   /\ new.passed # old.passed => new.scores.lane # old.scores.lane
           Kept == pc = "read" /\ pc' = "decide" =>
               \A i \in DOMAIN outs' : Outlives(files[Head(todo)][i], outs'[i].row)
<1>1. ASSUME RescoreInv, [Next]_vars PROVE Kept
    <2> SUFFICES ASSUME pc = "read", pc' = "decide", NEW i \in DOMAIN outs'
                 PROVE  Outlives(files[Head(todo)][i], outs'[i].row)
        OBVIOUS
    <2>1. /\ Read /\ todo # <<>>
          /\ outs' = [k \in DOMAIN files[Head(todo)] |-> Outcome(files[Head(todo)][k], Told)]
        BY <1>1, OnlyReadDecides DEF Read
    <2>2. PICK old \in Rows : old = files[Head(todo)][i] /\ RowFits(old)
        BY <1>1, <2>1, HeadOfTodo DEF RescoreInv, RowsInv
    <2>3. Told \in Refs
        BY <1>1 DEF RescoreInv, TypeOK, Told
    <2>4. outs'[i] = Outcome(old, Told)
        BY <2>1, <2>2
    <2>5. CASE Skipped(old)
        BY <2>2, <2>4, <2>5 DEF Outcome
    <2>6. CASE ~Skipped(old)
        <3>1. outs'[i].row = Rescored(old, Told) /\ old \in StoredRow /\ old.seed \in dbs
            BY <2>2, <2>4, <2>6, RowFacts DEF Outcome, Skipped
        <3>2. ASSUME ~Recovered(old.seed)
              PROVE  /\ Rescored(old, Told).passed = Passed(old.seed, Told, Rid(old))
                     /\ Rescored(old, Told).scores = [agent |-> Value(old.seed, Told, Rid(old)), lane |-> Told]
            <4>1. ReportedRunId(old) = Rid(old)
                BY <3>2 DEF ReportedRunId, Rid
            <4> QED BY <1>1, <2>2, <2>3, <3>1, <4>1, RescoredRow DEF RescoreInv
        <3>3. ASSUME old.kind = "graded"
              PROVE  /\ old.passed = Passed(old.seed, old.scores.lane, Rid(old))
                     /\ old.scores.agent = Value(old.seed, old.scores.lane, Rid(old))
            BY <2>2, <3>3 DEF RowFits
        <3>4. Value(old.seed, old.scores.lane, Rid(old)) = Value(old.seed, Told, Rid(old))
            BY ValueIgnoresReference
        <3> QED BY <2>2, <3>1, <3>2, <3>3, <3>4
    <2> QED BY <2>5, <2>6
<1> QED BY <1>1, InvAlways, PTL DEF Spec, GradesOutliveTheirSources

(* A verdict given under the policy moves only with the reference           *)
(* (reselect.py ReportedRunId: the record's run id comes first).           *)
THEOREM VerdictsFollowTheReference == Spec => VerdictsMoveForCause
<1> DEFINE Moves == \A i \in DOMAIN outs' :
               pc = "read" /\ pc' = "decide" =>
                   LET old == files[Head(todo)][i]
                       new == outs'[i].row
                   IN old.kind = "graded" /\ old.rid # -1 /\ old.passed # new.passed
                       => old.scores.lane # new.scores.lane
<1>1. ASSUME RescoreInv, [Next]_vars PROVE Moves
    <2> SUFFICES ASSUME NEW i \in DOMAIN outs', pc = "read", pc' = "decide"
                 PROVE  LET old == files[Head(todo)][i]
                            new == outs'[i].row
                        IN old.kind = "graded" /\ old.rid # -1 /\ old.passed # new.passed
                            => old.scores.lane # new.scores.lane
        OBVIOUS
    <2>1. /\ Read /\ todo # <<>>
          /\ outs' = [k \in DOMAIN files[Head(todo)] |-> Outcome(files[Head(todo)][k], Told)]
        BY <1>1, OnlyReadDecides DEF Read
    <2>2. PICK old \in Rows : old = files[Head(todo)][i] /\ RowFits(old)
        BY <1>1, <2>1, HeadOfTodo DEF RescoreInv, RowsInv
    <2>3. Told \in Refs
        BY <1>1 DEF RescoreInv, TypeOK, Told
    <2>4. outs'[i] = Outcome(old, Told)
        BY <2>1, <2>2
    <2> SUFFICES ASSUME old.kind = "graded", old.rid # -1, ~Skipped(old)
                 PROVE  old.passed # Rescored(old, Told).passed
                            => old.scores.lane # Rescored(old, Told).scores.lane
        BY <2>2, <2>4 DEF Outcome
    <2>5. old \in StoredRow /\ old.seed \in dbs
        BY <2>2, RowFacts DEF Skipped
    <2>6. /\ Rescored(old, Told).passed = Passed(old.seed, Told, old.rid)
          /\ Rescored(old, Told).scores = [agent |-> Value(old.seed, Told, old.rid), lane |-> Told]
        <3>1. ReportedRunId(old) = old.rid
            BY DEF ReportedRunId
        <3> QED BY <1>1, <2>2, <2>3, <2>5, <3>1, RescoredRow DEF RescoreInv
    <2>7. old.passed = Passed(old.seed, old.scores.lane, old.rid)
        BY <2>2 DEF RowFits, Rid
    <2> QED BY <2>6, <2>7
<1> QED BY <1>1, InvAlways, PTL DEF Spec, VerdictsMoveForCause

(* A second pass writes a file again only for a NaN (reselect.py           *)
(* reselect_file: nothing is written unless an outcome changed).           *)
THEOREM RescoringIsIdempotent == Spec => SecondPassChangesNothing
<1> DEFINE Once == pc = "decide" /\ pc' = "write" =>
               \/ Head(todo) \notin settled
               \/ \E i \in DOMAIN outs : /\ outs[i].row.kind = "graded"
                                         /\ outs[i].row.scores.agent = "nan"
<1>1. ASSUME RescoreInv, [Next]_vars PROVE Once
    <2> SUFFICES ASSUME pc = "decide", pc' = "write", Head(todo) \in settled
                 PROVE  \E i \in DOMAIN outs : /\ outs[i].row.kind = "graded"
                                               /\ outs[i].row.scores.agent = "nan"
        OBVIOUS
    <2>1. AnyChanged
        BY <1>1 DEF Next, PassStep, Begin, Read, Raise, Leave, Truncate, WriteBack, Finish, Die,
                    MoveReference, LoseWorkspace, LoseDb, AppendRetry, End, NextFile, pass, vars
    <2>2. PICK i \in DOMAIN outs : outs[i].status = "changed"
        BY <2>1 DEF AnyChanged
    <2>3. outs[i].row.kind = "graded" /\ outs[i].row.scores.agent = "nan"
        BY <1>1, <2>2 DEF RescoreInv, HandInv, InHand, OutcomeFits, SettledInv
    <2> QED BY <2>3
<1> QED BY <1>1, InvAlways, PTL DEF Spec, SecondPassChangesNothing
=============================================================================
