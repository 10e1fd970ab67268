SPECIFICATION PipelineSpec
CONSTANTS
    import = import
    candidates = candidates
    monitoring = monitoring
    automation = automation
    site = site
    worker = worker
    StepList <- MCStepList
    Needs <- MCNeeds
    Monitoring = monitoring
    Automation = automation
    Observed = {site}
    Health = {worker}
    Notable = {import, automation, site, worker}
    Stale = 1
    Cooldown = 2
    Renotify = 3
    DayLength = 3
    Limit = 1
    Handled = {site}
    MaxRuns = 2
    MaxDead = 1
    MaxTime = 2
CONSTRAINT MCScope
INVARIANTS
    PipelineTypeOK
    CooldownKept
    WeeklyMailedOnce
    TroubleIsReported
CHECK_DEADLOCK FALSE
