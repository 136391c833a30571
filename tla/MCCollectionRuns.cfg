CONSTANTS
    cron = cron
    manual = manual
    other = other
    formD = formD
    news = news
    Processes = {cron, manual}
    Jobs = {formD, news}
    JobOf <- MCJobOf
    Discoveries = {2, 3}
    FilingResults = {"new", "duplicate", "failed", "raised"}
    LeaseSeconds = {1, 2}
    Room = 2
    ClockLag = 1
    MaxRuns = 2
    Renews = TRUE
    None = None
SPECIFICATION RunsSpec
INVARIANTS RunsTypeOK OneEffectiveCollector HistoryIsTruthful
PROPERTIES ImplementsJobHistory LiveRunRespected RunsEnd
CHECK_DEADLOCK FALSE
