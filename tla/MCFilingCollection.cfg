CONSTANTS
    acme = acme
    goodFiling = goodFiling
    badFiling = badFiling
    Raises = Raises
    Observations <- MCObservations
    Contents <- MCContents
    Supported <- MCContents
    ProposalLists <- MCProposalLists
    Proposed <- MCProposed
    Processors = {company}
    Versions = {1}
    Workers = {w1, w2}
    LeaseSeconds = {1}
    MaxAttempts = 3
    MaxCalls = 3
    None = None
SPECIFICATION FlowSpec
INVARIANTS FlowTypeOK ProcessedMeansExtracted ReportsAreTrue NewOnce
PROPERTIES TasksEnd
CHECK_DEADLOCK FALSE
