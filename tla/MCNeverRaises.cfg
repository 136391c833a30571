CONSTANTS
    acme = acme
    goodFiling = goodFiling
    badFiling = badFiling
    Raises = Raises
    Observations <- MCBadOnly
    Contents <- MCContents
    Supported <- MCContents
    ProposalLists <- MCProposalLists
    Proposed <- MCProposedBad
    Processors = {company}
    Versions = {1}
    Workers = {w1}
    LeaseSeconds = {1}
    MaxAttempts = 1
    MaxCalls = 1
    None = None
SPECIFICATION FlowSpec
INVARIANTS NeverRaises
CHECK_DEADLOCK FALSE
