CONSTANTS
    acme = acme
    globex = globex
    one = one
    two = two
    three = three
    site = site
    wwwSite = wwwSite
    blog = blog
    shop = shop
    Candidates <- MCCandidates
    NameOf <- MCNameOf
    ProposedBy <- MCProposedBy
    Normal <- MCNormal
    Workers = {w1, w2}
    MaxDeferrals = 1
    None = None
SPECIFICATION ResolutionSpec
INVARIANTS ResolutionTypeOK OneFinalDecision OneOwner EveryFactHasAuthority ResolvedInFull LineageIsUnique
PROPERTIES ImplementsCanon OperationsEnd
CHECK_DEADLOCK FALSE
