------------------------------ MODULE MC_Reselect ------------------------------
(* A campaign's file with a lost seed and a graded one, and the file of an    *)
(* older arm.  A seed may have re-solved after the run it names, in either    *)
(* era and with either kind of driver; run to a NaN; or failed.               *)
EXTENDS Reselect

CONSTANTS f_xy, arm, campaign, s1, s2, s3

ModeMap == [m \in {f_xy} |-> "analysis"]

LayoutMap == [f \in {arm, campaign} |->
    IF f = campaign THEN << <<s1, "error">>, <<s2, "graded">> >> ELSE << <<s3, "graded">> >>]

Run(ok, fits) == [ok |-> ok, fits |-> fits]
Swept  == <<Run(TRUE, "refA"), Run(TRUE, "off")>>
Moved  == <<Run(TRUE, "refA"), Run(FALSE, "refA"), Run(TRUE, "refB")>>

Did(runs, named, claim, cli, era, parsed) ==
    [runs |-> runs, named |-> named, claim |-> claim, cli |-> cli, era |-> era, parsed |-> parsed]

OldSwept == {Did(Swept, 1, "refA", TRUE, "old", TRUE)}

WorkKinds == OldSwept \cup {
    Did(Swept, 1, "refA", TRUE, "new", TRUE),
    Did(Moved, 1, "refB", FALSE, "old", TRUE),
    Did(Moved, 2, "refB", FALSE, "new", TRUE),
    Did(<<Run(TRUE, "nan")>>, 1, "refA", TRUE, "new", TRUE),
    Did(<<Run(FALSE, "refA")>>, NoRun, "off", TRUE, "new", FALSE)}
=============================================================================
