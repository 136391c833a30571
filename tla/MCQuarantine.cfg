CONSTANTS
    Observations = {o1}
    Processors = {p1}
    Versions = {1, 2}
    Workers = {w1}
    LeaseSeconds = {1}
    MaxAttempts = 3
    None = None
SPECIFICATION Spec
INVARIANT QuarantineRespected
CHECK_DEADLOCK FALSE
