CONSTANTS
    Harnesses = {"sdk", "cli", "opencode"}
    Tools = {"validate_plan", "run_plan"}
    ValidateTools = {"validate_plan"}
    ExecuteTools = {"run_plan"}
    Codes = {"USER_INPUT_ERROR", "SOLVER_ERROR"}
    Says <- Texts
    Total = 9
    MaxEvents = 4
    MaxLag = 2
SPECIFICATION Spec
INVARIANTS
    TypeOK
    MirrorsTheSdk
    CallsAreAnswers
    NeverASupersededReport
    TokensAreReported
    MetricsFit
CHECK_DEADLOCK FALSE
