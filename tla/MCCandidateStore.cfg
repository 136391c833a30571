CONSTANTS
    acme = acme
    globex = globex
    forged = forged
    Contents <- MCContents
    Supported <- MCSupported
    ProposalLists <- MCProposalLists
    Observations = {o1}
    Processors = {p1}
    Versions = {1}
    Workers = {w1, w2}
    LeaseSeconds = {1}
    MaxAttempts = 2
    None = None
SPECIFICATION StoreSpec
INVARIANTS StoreTypeOK CompleteAndSupported
PROPERTIES FinishedAttemptsAreFinal SuccessMeansStored
CHECK_DEADLOCK FALSE
