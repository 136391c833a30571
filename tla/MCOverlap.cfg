CONSTANTS
    cron = cron
    manual = manual
    other = other
    formD = formD
    news = news
    Processes = {cron, manual}
    Jobs = {formD, news}
    JobOf <- MCJobOf
    Discoveries = {0, 2, 3}
    FilingResults = {"new", "duplicate", "failed", "raised"}
    LeaseSeconds = {1, 2}
    Room = 2
    ClockLag = 0
    MaxRuns = 2
    Renews = FALSE
    None = None
SPECIFICATION RunsSpec
INVARIANTS NoOverlap
CHECK_DEADLOCK FALSE
