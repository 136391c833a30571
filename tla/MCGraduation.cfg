CONSTANTS
    alice = alice
    bob = bob
    kiosk = kiosk
    booth = booth
    acme = acme
    None = None
    Dead = Dead
    Reviewer = reviewer
    Users = {alice, bob}
    Ventures = {kiosk, booth}
    OwnerOf <- MCOwnerOf
    Names = {acme}
    Wanted <- MCWanted
    Claimants = {alice}
    Abandonable = {booth}
    Workers = {w1, w2}
    MaxRefusals = 1
SPECIFICATION FairGraduationSpec
INVARIANTS GraduationTypeOK AccessIsEntitled NeverLockedOut
PROPERTIES ImplementsAccess FounderIsServed
CHECK_DEADLOCK FALSE
