CONSTANTS
    alice = alice
    bob = bob
    kiosk = kiosk
    booth = booth
    acme = acme
    None = None
    Dead = Dead
    Reviewer = reviewer
    Users = {alice, bob}
    Ventures = {kiosk, booth}
    OwnerOf <- MCOwnerOf
    Names = {acme}
    Wanted <- MCWanted
    Claimants = {}
    Abandonable = {booth}
    Workers = {w1, w2}
    MaxRefusals = 2
SPECIFICATION GraduationSpec
INVARIANT GraduatedMeansMember
CHECK_DEADLOCK FALSE
