-------------------------------- MODULE Reselect --------------------------------
(***************************************************************************)
(* Re-scoring of stored records: a pass of reselect reads records files,   *)
(* grades every seed again from its provenance DB under the current        *)
(* selection policy (Oracle), and rewrites a file in place if anything in  *)
(* it changed.  Meanwhile workspaces and databases are tidied away, the    *)
(* checkout with the references moves, a resumed campaign appends, and the *)
(* pass may die between truncating a file and writing it.                  *)
(*                                                                         *)
(* What a seed did is fixed, in work: the value each run came to is the    *)
(* reference it is within tolerance of, "off" for any other number, "nan". *)
(* Rows written before the policy are of the era "old": the last run was   *)
(* graded and no run id was kept.                                          *)
(***************************************************************************)
EXTENDS Oracle, Sequences, FiniteSets, SequencesExt

CONSTANTS
    Files,          \* the records files of one case in the directory
    Seeds,          \* the seeds, each with its own DB and workspace
    Layout,         \* Layout[f]: the rows of f, <<seed, "error" or "graded">>
    Works,          \* what a seed may have done
    Refs,           \* the references of the commits the checkout goes through
    Owner,          \* the file the campaign in question wrote, the last to be written
    MaxPasses,      \* bound: passes started
    MaxEvents       \* bound: things that happen around them

Numbers == Refs \cup {"off", "nan"}

(* A seed: its runs in order, the run and the value its report names, what  *)
(* kind of driver and which policy it ran under, whether the report parses. *)
WorkKind ==
    [runs : Seq([ok : BOOLEAN, fits : Numbers]), named : Nat, claim : Numbers,
     cli : BOOLEAN, era : {"old", "new"}, parsed : BOOLEAN]

SeedsOf(f) == {Layout[f][i][1] : i \in DOMAIN Layout[f]}

ASSUME OwnerAssumption == IsFiniteSet(Files) /\ Owner \in Files
ASSUME PassAssumption  == MaxPasses \in Nat /\ MaxEvents \in Nat
ASSUME WorksAssumption == Works \subseteq WorkKind /\ "none" \notin Refs
ASSUME LayoutAssumption ==
    /\ Layout \in [Files -> Seq(Seeds \X {"error", "graded"})]
    /\ \A f, g \in Files : f # g => SeedsOf(f) \cap SeedsOf(g) = {}

VARIABLES
    work,       \* work[s]: what seed s did
    files,      \* files[f]: its rows, in order
    torn,       \* files whose last line is cut
    newest,     \* the file modified last
    ref,        \* the reference the checkout computes
    streams,    \* seeds whose claude_events.jsonl is there
    dbs,        \* seeds whose analysis.db is there
    pc,         \* the pass: "idle", "read", "decide", "write"
    todo,       \* the files it has not finished with
    dry,        \* --dry-run
    memo,       \* the reference it has been told, "none" before
    outs,       \* the outcomes of the file it is at
    settled,    \* history: files a pass ended with, the world unchanged since
    passes,     \* passes so far
    events      \* events so far

world == <<ref, streams, dbs>>
disk  == <<files, torn, newest>>
pass  == <<pc, todo, dry, memo, outs, passes>>
vars  == <<work, world, disk, pass, settled, events>>

-----------------------------------------------------------------------------
(* Grading a seed (Oracle), with the values it stores.                     *)

(* The runs of s as the oracle sees them next to reference r. *)
Judged(s, r) ==
    [i \in DOMAIN work[s].runs |->
        [mode |-> "analysis", ok |-> work[s].runs[i].ok,
         vals |-> [m \in Metrics |-> IF work[s].runs[i].fits = r THEN "right" ELSE "wrong"]]]

Value(s, r, rid) ==
    LET i == SelectRun(Judged(s, r), "analysis", rid)
    IN IF i = NoRun THEN "none" ELSE work[s].runs[i].fits

Scores(s, r, rid) == [agent |-> Value(s, r, rid), lane |-> r]

(* Python's !=: a NaN is not equal to itself. *)
Differ(scores, other) == scores # other \/ scores.agent = "nan"

Passed(s, r, rid) == Passes(EffectValues(Judged(s, r), rid))

(* report_matches_effects on values: no comparison with a NaN is a mismatch. *)
Matches(s, value) ==
    IF value = "none" THEN "undefined"
    ELSE IF value = "nan" \/ work[s].claim = value THEN "yes" ELSE "no"

(* The row run_cell wrote: now under the policy, before without a run id. *)
GradedRow(s, r) ==
    LET new == work[s].era = "new"
        rid == IF new THEN work[s].named ELSE NoRun
    IN [seed |-> s, kind |-> "graded",
        rid |-> IF new THEN rid ELSE -1,
        basis |-> IF new THEN SelectionBasis(Judged(s, r), rid) ELSE "unrecorded",
        passed |-> Passed(s, r, rid), scores |-> Scores(s, r, rid),
        matches |-> IF work[s].parsed THEN Matches(s, Value(s, r, rid)) ELSE "unparsed",
        stamp |-> FALSE]

ErrorRow(s) == [seed |-> s, kind |-> "error"]

Row(s, kind, r) == IF kind = "error" THEN ErrorRow(s) ELSE GradedRow(s, r)

-----------------------------------------------------------------------------
(* reselect_record                                                         *)

(* recover_report: the CLI driver's event stream, if there and parseable. *)
Recovered(s) == s \in streams /\ work[s].parsed

(* Fault: the report is asked first, the record not at all. *)
ReportOnly(row) == IF Recovered(row.seed) THEN work[row.seed].named ELSE NoRun

(* The run the agent named: from the record if present, else the report. *)
ReportedRunId(row) ==
    IF row.rid # -1 THEN row.rid
    ELSE IF Recovered(row.seed) THEN work[row.seed].named ELSE NoRun

(* Fault: a missing database is a database without runs. *)
SkipsErrorsOnly(row) == row.kind = "error"

Skipped(row) == row.kind = "error" \/ row.seed \notin dbs

(* Fault: the self-report's fidelity is left as it was. *)
MatchesKept(row, value) == row.matches

Rematched(row, value) == IF Recovered(row.seed) THEN Matches(row.seed, value) ELSE row.matches

(* Runs of a database that is not there are not read. *)
Rescored(row, r) ==
    LET s == row.seed
        rid == ReportedRunId(row)
        gone == s \notin dbs
        scores == IF gone THEN [agent |-> "none", lane |-> r] ELSE Scores(s, r, rid)
    IN [row EXCEPT
            !.rid = rid,
            !.basis = IF gone THEN "nothing" ELSE SelectionBasis(Judged(s, r), rid),
            !.passed = ~gone /\ Passed(s, r, rid),
            !.scores = scores,
            !.matches = Rematched(row, scores.agent),
            !.stamp = TRUE]

Changed(row, new) == row.passed # new.passed \/ Differ(row.scores, new.scores)

Outcome(row, r) ==
    IF Skipped(row) THEN [row |-> row, status |-> "skipped"]
    ELSE LET new == Rescored(row, r)
         IN [row |-> new, status |-> IF Changed(row, new) THEN "changed" ELSE "unchanged"]

-----------------------------------------------------------------------------
(* One pass: main, over the files of a scope.                              *)

(* campaign_records takes the newest file of the case. *)
CampaignRecords == <<newest>>

Scopes == {CampaignRecords, SetToSeq(Files)} \cup {<<f>> : f \in Files}

Begin ==
    /\ pc = "idle" /\ passes < MaxPasses
    /\ passes' = passes + 1
    /\ pc' = "read"
    /\ todo' \in Scopes /\ dry' \in BOOLEAN
    /\ memo' = "none"
    /\ UNCHANGED <<work, world, disk, outs, settled, events>>

End ==
    /\ pc' = "idle" /\ todo' = <<>> /\ outs' = <<>>
    /\ memo' = "none" /\ dry' = FALSE

Told == IF memo = "none" THEN ref ELSE memo

(* read_text and the outcome of every row, in order. *)
Read ==
    /\ pc = "read" /\ todo # <<>> /\ Head(todo) \notin torn
    /\ LET rows == files[Head(todo)] IN
       /\ outs' = [i \in DOMAIN rows |-> Outcome(rows[i], Told)]
       /\ memo' = IF \A i \in DOMAIN rows : Skipped(rows[i]) THEN memo ELSE Told
    /\ pc' = "decide"
    /\ UNCHANGED <<work, world, disk, todo, dry, passes, settled, events>>

(* A line json.loads refuses, a reference that cannot be had: the pass ends  *)
(* with an exception, the files after this one as they are.                  *)
Raise ==
    /\ pc = "read" /\ todo # <<>>
    /\ End
    /\ UNCHANGED <<work, world, disk, passes, settled, events>>

AnyChanged == \E i \in DOMAIN outs : outs[i].status = "changed"

NextFile ==
    /\ pc' = "read" /\ todo' = Tail(todo) /\ outs' = <<>>
    /\ UNCHANGED <<dry, memo, passes>>

(* The pass is through with a file, under the reference of this moment. *)
Settle == IF memo \in {"none", ref} THEN settled \cup {Head(todo)} ELSE settled

(* A file no seed of which changed, or a dry run: nothing is written.  A row *)
(* appended since the file was read has not been looked at.                *)
Leave ==
    /\ pc = "decide" /\ (dry \/ ~AnyChanged)
    /\ NextFile
    /\ settled' = IF AnyChanged \/ Len(files[Head(todo)]) # Len(outs) THEN settled ELSE Settle
    /\ UNCHANGED <<work, world, disk, events>>

(* write_text: the file is truncated ... *)
Truncate ==
    /\ pc = "decide" /\ ~dry /\ AnyChanged
    /\ files' = [files EXCEPT ![Head(todo)] = <<>>]
    /\ torn' = torn \ {Head(todo)}
    /\ newest' = Head(todo)
    /\ pc' = "write"
    /\ UNCHANGED <<work, world, todo, dry, memo, outs, passes, settled, events>>

(* ... and every outcome written in the original order, changed or not; a   *)
(* row appended since the file was read is not among them.                  *)
WriteBack ==
    /\ pc = "write"
    /\ files' = [files EXCEPT ![Head(todo)] = [i \in DOMAIN outs |-> outs[i].row]]
    /\ newest' = Head(todo)
    /\ NextFile
    /\ settled' = Settle
    /\ UNCHANGED <<work, world, torn, events>>

Finish ==
    /\ pc = "read" /\ todo = <<>>
    /\ End
    /\ UNCHANGED <<work, world, disk, passes, settled, events>>

-----------------------------------------------------------------------------
(* Around it.                                                              *)

Happens == events < MaxEvents /\ events' = events + 1

(* Killed or out of disk: of a file being written nothing was flushed, or    *)
(* some rows and perhaps a part of the next.                               *)
Die ==
    /\ pc # "idle" /\ Happens
    /\ \/ UNCHANGED <<files, torn>>
       \/ /\ pc = "write"
          /\ \E n \in 0 .. Len(outs) - 1, cut \in BOOLEAN :
               /\ n > 0 \/ cut
               /\ files' = [files EXCEPT ![Head(todo)] = [i \in 1 .. n |-> outs[i].row]]
               /\ torn' = IF cut THEN torn \cup {Head(todo)} ELSE torn
    /\ settled' = IF pc = "write" THEN settled \ {Head(todo)} ELSE settled
    /\ End
    /\ UNCHANGED <<work, world, newest, passes>>

MoveReference ==
    /\ Happens
    /\ ref' \in Refs \ {ref}
    /\ settled' = {}
    /\ UNCHANGED <<work, streams, dbs, disk, pass>>

LoseWorkspace(s) ==
    /\ s \in streams /\ Happens
    /\ streams' = streams \ {s}
    /\ UNCHANGED <<work, ref, dbs, disk, pass, settled>>

LoseDb(s) ==
    /\ s \in dbs /\ Happens
    /\ dbs' = dbs \ {s}
    /\ UNCHANGED <<work, ref, streams, disk, pass, settled>>

(* The rows a resumed campaign knows of: those of the file, and, if a pass   *)
(* has truncated it since, those that were there.                          *)
Known(f) ==
    ToSet(files[f]) \cup (IF pc = "write" /\ f = Head(todo) THEN {outs[i].row : i \in DOMAIN outs} ELSE {})

(* A campaign resumes the file: a lost seed is retried, and graded now.  A   *)
(* row that comes between truncation and writing is written over.          *)
AppendRetry(f, s) ==
    /\ Happens
    /\ ErrorRow(s) \in Known(f)
    /\ \A row \in Known(f) : row.seed = s => row.kind = "error"
    /\ f \notin torn /\ work[s].era = "new"
    /\ files' = [files EXCEPT ![f] = Append(@, GradedRow(s, ref))]
    /\ newest' = f
    /\ dbs' = dbs \cup {s}
    /\ settled' = settled \ {f}
    /\ UNCHANGED <<work, torn, ref, streams, pass>>

-----------------------------------------------------------------------------
Init ==
    /\ work \in [Seeds -> Works]
    /\ ref \in Refs
    /\ files = [f \in Files |-> [i \in DOMAIN Layout[f] |-> Row(Layout[f][i][1], Layout[f][i][2], ref)]]
    /\ torn = {}
    /\ newest = Owner
    /\ streams = {s \in Seeds : work[s].cli}
    /\ dbs = Seeds
    /\ pc = "idle" /\ todo = <<>> /\ outs = <<>> /\ dry = FALSE /\ memo = "none"
    /\ settled = {} /\ passes = 0 /\ events = 0

PassStep == Begin \/ Read \/ Raise \/ Leave \/ Truncate \/ WriteBack \/ Finish

Next ==
    \/ PassStep
    \/ Die \/ MoveReference
    \/ \E s \in Seeds : LoseWorkspace(s) \/ LoseDb(s)
    \/ \E f \in Files, s \in Seeds : AppendRetry(f, s)

Spec == Init /\ [][Next]_vars

-----------------------------------------------------------------------------
(* Properties                                                              *)

StoredRow ==
    [seed : Seeds, kind : {"graded"}, rid : Int, passed : BOOLEAN, stamp : BOOLEAN,
     basis : {"named", "fallback_last", "nothing", "unrecorded"},
     scores : [agent : Numbers \cup {"none"}, lane : Refs],
     matches : {"yes", "no", "undefined", "unparsed"}]

Rows == StoredRow \cup {ErrorRow(s) : s \in Seeds}

Outcomes == [row : Rows, status : {"skipped", "changed", "unchanged"}]

TypeOK ==
    /\ work \in [Seeds -> WorkKind] /\ ref \in Refs
    /\ files \in [Files -> Seq(Rows)]
    /\ torn \subseteq Files /\ settled \subseteq Files /\ newest \in Files
    /\ todo \in Seq(Files) /\ outs \in Seq(Outcomes)
    /\ streams \subseteq Seeds /\ dbs \subseteq Seeds
    /\ pc \in {"idle", "read", "decide", "write"} /\ dry \in BOOLEAN
    /\ memo \in Refs \cup {"none"}

(* A verdict already given under the policy moves only with the reference:  *)
(* a row that holds the agent's run id flips in a pass only if its lane_a   *)
(* did, whatever workspaces were lost before or since ("the agent's work is *)
(* untouched, only our reading of it changes", reselect.py:17).             *)
VerdictsMoveForCause ==
    [][\A i \in DOMAIN outs' :
        pc = "read" /\ pc' = "decide" =>
            LET old == files[Head(todo)][i]
                new == outs'[i].row
            IN old.kind = "graded" /\ old.rid # -1 /\ old.passed # new.passed
                => old.scores.lane # new.scores.lane]_vars

(* "A second pass over the same file is idempotent" (reselect.py:63): after *)
(* a pass was through with a file, none writes it again until the reference *)
(* moves or a campaign appends, even if workspaces and databases are lost   *)
(* in between.  The exception is a NaN, which never equals what was stored. *)
SecondPassChangesNothing ==
    [][pc = "decide" /\ pc' = "write" =>
        \/ Head(todo) \notin settled
        \/ \E i \in DOMAIN outs : /\ outs[i].row.kind = "graded"
                                  /\ outs[i].row.scores.agent = "nan"]_vars

(* Did the agent report the numbers its own run produced?  The answer in a *)
(* row is about the run that row is graded on, also after the policy has   *)
(* picked another one and the report can no longer be read.                *)
ReportingFitsTheGrade ==
    \A f \in Files : \A i \in DOMAIN files[f] :
        LET row == files[f][i] IN
        row.kind = "graded" /\ row.matches # "unparsed" =>
            row.matches = Matches(row.seed, row.scores.agent)

(* A grade outlives what it was made from.  With the workspace gone, or no  *)
(* report in it, the seed keeps its stored grade (reselect.py:83-84), and   *)
(* without its DB it is left as it was (reselect.py:23-24): the value stays, *)
(* and the verdict moves only with the reference, whichever era and policy  *)
(* the row is from and however many passes have been over it.               *)
GradesOutliveTheirSources ==
    [][pc = "read" /\ pc' = "decide" =>
        \A i \in DOMAIN outs' :
            LET old == files[Head(todo)][i]
                new == outs'[i].row
            IN old.kind = "graded" /\ (old.seed \notin dbs \/ ~Recovered(old.seed)) =>
                /\ new.scores.agent = old.scores.agent
                /\ new.passed # old.passed => new.scores.lane # old.scores.lane]_vars

(* A pass scoped to a campaign is over the file that campaign wrote, and no *)
(* other arm's (reselect.py:30-32, "takes the files a given campaign wrote, *)
(* so a re-score covers exactly the arm you mean").                         *)
CampaignScope == CampaignRecords = <<Owner>>
=============================================================================
