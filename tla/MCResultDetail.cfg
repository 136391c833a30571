CONSTANTS
    cron = cron
    manual = manual
    other = other
    formD = formD
    news = news
    Processes = {cron}
    Jobs = {formD, news}
    JobOf <- MCJobOf
    Discoveries = {25}
    FilingResults = {"duplicate"}
    LeaseSeconds = {1}
    Room = 23
    ClockLag = 0
    MaxRuns = 1
    Renews = FALSE
    None = None
SPECIFICATION RunsSpec
INVARIANTS NeverLeavesRunning
CHECK_DEADLOCK FALSE
