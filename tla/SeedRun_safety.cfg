CONSTANTS
    f_xy = f_xy  opt_f_xy = opt_f_xy
    Metrics = {f_xy, opt_f_xy}
    Modes = {"analysis", "optimize"}
    ModeOf <- ModeMap
    Required = {f_xy, opt_f_xy}
    Summary = {opt_f_xy}
    Setups <- Cli
    Outcomes <- RightOrWrong
    Claims <- OnlyRight
    MaxRuns = 2
SPECIFICATION Spec
INVARIANTS
    TypeOK
    PassIsEarned
    NamedRunIsGraded
    GradedRunIsRecent
    HarnessErrorsLoseNothing
    VerdictReproducible
    ServerNeverLeaks
