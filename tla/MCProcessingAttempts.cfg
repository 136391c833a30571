CONSTANTS
    Observations = {o1}
    Processors = {p1, p2}
    Versions = {1, 2}
    Workers = {w1, w2}
    LeaseSeconds = {1, 2}
    MaxAttempts = 3
    None = None
SPECIFICATION Spec
SYMMETRY Symmetry
INVARIANTS TypeOK LockSuffices LinearHistory OneEffectiveHolder
PROPERTIES HistoryPreserved LiveLeaseRespected ImplementsLifecycle
CHECK_DEADLOCK FALSE
