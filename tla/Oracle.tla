-------------------------------- MODULE Oracle --------------------------------
(***************************************************************************)
(* The effect oracle: from the runs found in a seed's provenance DB and    *)
(* the run id its report names, the value graded for each metric and the   *)
(* verdict.                                                                *)
(*                                                                         *)
(* A value is compared with its Lane A reference once, when it is read:    *)
(* "right" is within the metric's tolerance, "wrong" is a number outside   *)
(* it, "none" is no number (no such key, an ambiguous suffix, not a        *)
(* scalar).  Run ids are 1, 2, ... in the order the runs started; NoRun is *)
(* a report without a run_id.  "runs" is a function from the ids read to   *)
(* the runs.                                                               *)
(***************************************************************************)
EXTENDS Integers

CONSTANTS
    Metrics,    \* what a case grades
    Modes,      \* what a run can be: an analysis, an optimization
    ModeOf,     \* MODE_BY_MODULE: the mode of the run that holds a metric
    Required,   \* metrics whose miss fails the seed
    Summary     \* metrics omd writes in the assessment; the others are recorder outputs

ASSUME ModeAssumption   == ModeOf \in [Metrics -> Modes] /\ "none" \notin Modes
ASSUME MetricAssumption == Required \subseteq Metrics /\ Required # {} /\ Summary \subseteq Metrics

NoRun  == 0
Values == {"right", "wrong", "none"}

(* The rows omd wrote of one run: its execute activity, its final case, its  *)
(* assessment (which alone carries the mode).  A row not written is absent.  *)
RunRows == [mode : Modes, vals : [Metrics -> Values],
            act : {"absent", "completed", "failed"}, final : BOOLEAN, assessed : BOOLEAN]

(* EffectRun: what the reader makes of the rows it saw. *)
EffectRun == [mode : Modes \cup {"none"}, ok : BOOLEAN, vals : [Metrics -> Values]]

(* _lookup: summary values are found through the assessment, recorder values *)
(* through the final case.                                                   *)
Effect(rows, ok, assessed, final) ==
    [mode |-> IF assessed THEN rows.mode ELSE "none",
     ok   |-> ok,
     vals |-> [m \in Metrics |->
                 IF (m \in Summary /\ assessed) \/ (m \notin Summary /\ final)
                 THEN rows.vals[m] ELSE "none"]]

-----------------------------------------------------------------------------
Candidates(runs, mode) == {i \in DOMAIN runs : runs[i].ok /\ runs[i].mode = mode}

(* Fault: the first successful run of the mode. *)
Earliest(S) == CHOOSE i \in S : \A j \in S : i <= j

Latest(S) == CHOOSE i \in S : \A j \in S : j <= i

(* Fault: the positional policy, the last successful run of the mode. *)
SelectLast(runs, mode, named) ==
    IF Candidates(runs, mode) = {} THEN NoRun ELSE Latest(Candidates(runs, mode))

(* Fault: a named run counts whether or not it succeeded in the mode. *)
SelectNamedAnyhow(runs, mode, named) ==
    IF named \in DOMAIN runs THEN named ELSE SelectLast(runs, mode, named)

(* The run graded for a mode, NoRun when no run of it succeeded. *)
SelectRun(runs, mode, named) ==
    LET candidates == Candidates(runs, mode) IN
    IF candidates = {} THEN NoRun
    ELSE IF named \in candidates THEN named
    ELSE Latest(candidates)

EffectValue(runs, m, named) ==
    LET i == SelectRun(runs, ModeOf[m], named) IN
    IF i = NoRun THEN "none" ELSE runs[i].vals[m]

EffectValues(runs, named) == [m \in Metrics |-> EffectValue(runs, m, named)]

(* score_values: every required metric must be there and within tolerance. *)
Passes(effects) == \A m \in Required : effects[m] = "right"

GradedModes == {ModeOf[m] : m \in Metrics}

(* Fault: how the runs were chosen is not recorded, as it used not to be. *)
SelectionUnmarked(runs, named) == "unmarked"

SelectionBasis(runs, named) ==
    LET chosen == {SelectRun(runs, mode, named) : mode \in GradedModes} \ {NoRun} IN
    IF chosen = {} THEN "nothing"
    ELSE IF named \in chosen THEN "named"
    ELSE "fallback_last"

(* report_matches_effects: did it report the numbers its own runs produced? *)
MatchesEffects(reported, effects) ==
    LET gradable == {m \in Metrics : effects[m] # "none"} IN
    IF gradable = {} THEN "undefined"
    ELSE IF \A m \in gradable : reported[m] = effects[m] THEN "yes" ELSE "no"
=============================================================================
