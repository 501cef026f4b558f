------------------------------ MODULE MC_SeedRun ------------------------------
(* The paraboloid case in small: one metric from an analysis run, one from an *)
(* optimization, both required.                                               *)
EXTENDS SeedRun

CONSTANTS f_xy, opt_f_xy

ModeMap == [m \in {f_xy, opt_f_xy} |-> IF m = f_xy THEN "analysis" ELSE "optimize"]

AllRight == [m \in {f_xy, opt_f_xy} |-> "right"]
AllWrong == [m \in {f_xy, opt_f_xy} |-> "wrong"]

RightOrWrong == {AllRight, AllWrong}
OnlyRight    == {AllRight}

Cli      == {<<"cli", "http">>}
Opencode == {<<"opencode", "http">>}
=============================================================================
