CONSTANTS
    f_xy = f_xy
    arm = arm  campaign = campaign
    s1 = s1  s2 = s2  s3 = s3
    Metrics = {f_xy}
    Modes = {"analysis"}
    ModeOf <- ModeMap
    Required = {f_xy}
    Summary = {}
    Files = {arm, campaign}
    Seeds = {s1, s2, s3}
    Layout <- LayoutMap
    Works <- WorkKinds
    Refs = {"refA", "refB"}
    Owner = campaign
    MaxPasses = 2
    MaxEvents = 2
SPECIFICATION Spec
INVARIANTS
    TypeOK
    ReportingFitsTheGrade
PROPERTIES
    VerdictsMoveForCause
    SecondPassChangesNothing
    GradesOutliveTheirSources
CHECK_DEADLOCK FALSE
