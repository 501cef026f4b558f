CONSTANTS
    f_xy = f_xy
    arm = arm  campaign = campaign
    s1 = s1  s2 = s2  s3 = s3
    Metrics = {f_xy}
    Modes = {"analysis"}
    ModeOf <- ModeMap
    Required = {f_xy}
    Summary = {}
    Files = {arm, campaign}
    Seeds = {s1, s2, s3}
    Layout <- LayoutMap
    Works <- OldSwept
    Refs = {"refA", "refB"}
    Owner = campaign
    MaxPasses = 1
    MaxEvents = 0
SPECIFICATION Spec
INVARIANTS
    CampaignScope
CHECK_DEADLOCK FALSE
