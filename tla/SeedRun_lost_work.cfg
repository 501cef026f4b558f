CONSTANTS
    f_xy = f_xy  opt_f_xy = opt_f_xy
    Metrics = {f_xy, opt_f_xy}
    Modes = {"analysis", "optimize"}
    ModeOf <- ModeMap
    Required = {f_xy, opt_f_xy}
    Summary = {opt_f_xy}
    Setups <- Opencode
    Outcomes <- RightOrWrong
    Claims <- OnlyRight
    MaxRuns = 1
SPECIFICATION Spec
INVARIANTS
    WorkIsGraded
