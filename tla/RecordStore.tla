----------------------------- MODULE RecordStore -----------------------------
(***************************************************************************)
(* The results directory: one records file (.jsonl) per run of a case, the *)
(* run manifest beside it, and the question every runner asks before it    *)
(* spends money: has this cell been run, and is its record set clean?      *)
(*                                                                         *)
(* A file is abstracted to what load_records keeps of it, the last row per *)
(* (model, seed).  A row is the verdict it carries: "pass" and "fail" are  *)
(* results, "error" is the row of a seed the harness lost, "none" is no    *)
(* row.  A file whose last line was cut short is in torn: json.loads       *)
(* refuses it and so does every reader.                                    *)
(***************************************************************************)
EXTENDS Integers, FiniteSets

CONSTANTS
    Cases,      \* the benchmark problems
    Models,     \* the arms: one harness/model pair each
    MaxSeeds,   \* bound: seeds are 0 .. MaxSeeds-1
    MaxStamp,   \* bound: run stamps are 1 .. MaxStamp, later is larger
    Graded      \* verdicts of a seed that was graded ("pass", "fail")

ASSUME BoundsAssumption == MaxSeeds \in Nat \ {0} /\ MaxStamp \in Nat \ {0}
ASSUME CasesAssumption  == Cases # {}
ASSUME GradedAssumption == "error" \notin Graded /\ "none" \notin Graded

Seeds  == 0 .. MaxSeeds - 1
Stamps == 1 .. MaxStamp
Files  == Cases \X Stamps
Cells  == Cases \X Models

Row == Graded \cup {"error", "none"}

VARIABLES
    rows,       \* rows[f][m][s]: the last row of seed s of model m in file f
    torn,       \* files ending in a partial line
    manifest    \* files whose _config.json exists

diskVars == <<rows, torn, manifest>>

DiskTypeOK ==
    /\ rows \in [Files -> [Models -> [Seeds -> Row]]]
    /\ torn \subseteq Files
    /\ manifest \subseteq Files

EmptyFile == [m \in Models |-> [s \in Seeds |-> "none"]]

DiskInit ==
    /\ rows = [f \in Files |-> EmptyFile]
    /\ torn = {}
    /\ manifest = {}

-----------------------------------------------------------------------------
(* Reading                                                                 *)

Found(f, m)  == {s \in Seeds : rows[f][m][s] # "none"}
Errors(f, m) == {s \in Seeds : rows[f][m][s] = "error"}
GradedIn(f, m) == {s \in Seeds : rows[f][m][s] \in Graded}

(* The files that answer for a cell: readable, of its case, covering its model. *)
Answering(cell) ==
    {t \in Stamps : <<cell[1], t>> \notin torn /\ Found(<<cell[1], t>>, cell[2]) # {}}

(* The scan runs newest name first and the first covering file wins. *)
NewestStamp(cell) ==
    CHOOSE t \in Answering(cell) : \A u \in Answering(cell) : u <= t

AnswerFile(cell) == <<cell[1], NewestStamp(cell)>>

(* Fault: rows are counted whatever they say, as scripts/_done.py used to. *)
CountingStatus(cell, wanted) ==
    IF Answering(cell) = {} THEN "not_started"
    ELSE IF Cardinality(Found(AnswerFile(cell), cell[2])) < wanted THEN "resumable"
    ELSE "graded"

CaseStatus(cell, wanted) ==
    IF Answering(cell) = {} THEN "not_started"
    ELSE IF Errors(AnswerFile(cell), cell[2]) # {} THEN "resumable"
    ELSE IF Cardinality(Found(AnswerFile(cell), cell[2])) < wanted THEN "resumable"
    ELSE "graded"

(* What the directory says of one seed of a cell: the ledger an outsider sees. *)
Verdict(cell, s) ==
    IF Answering(cell) = {} THEN "none" ELSE rows[AnswerFile(cell)][cell[2]][s]

(* regrade_file: the summary of one cell of one file, straight from its rows. *)
Regrade(f, m) == [s \in Found(f, m) |-> rows[f][m][s]]

-----------------------------------------------------------------------------
(* Writing                                                                 *)

(* Fault: open("a"). *)
OpenAppending(f) ==
    /\ manifest' = manifest \cup {f}
    /\ UNCHANGED <<rows, torn>>

(* open("w"): whatever carried this name is gone, and the manifest is new. *)
OpenFresh(f) ==
    /\ rows' = [rows EXCEPT ![f] = EmptyFile]
    /\ torn' = torn \ {f}
    /\ manifest' = manifest \cup {f}

AppendRow(f, m, s, v) ==
    /\ rows' = [rows EXCEPT ![f][m][s] = v]
    /\ UNCHANGED <<torn, manifest>>

(* A write cut short: the line is partial, so no reader gets past it. *)
TearFile(f) ==
    /\ torn' = torn \cup {f}
    /\ UNCHANGED <<rows, manifest>>
=============================================================================
