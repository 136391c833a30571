---------------------------- MODULE MCResolution ----------------------------
(* Resolution with two reviewers.  Candidates one and two have the same     *)
(* name and share two identifiers, in opposite orders and one of them       *)
(* spelled differently; one spells it in both ways, and collides with       *)
(* itself unless a company has it, and has the identifier of three, so that *)
(* two companies may own what one candidate has.                            *)
EXTENDS Resolution

CONSTANTS acme, globex, one, two, three, site, wwwSite, blog, shop

MCCandidates == {one, two, three}
MCNameOf == [c \in MCCandidates |-> IF c = three THEN globex ELSE acme]
MCProposedBy == [c \in MCCandidates |->
    CASE c = one -> <<site, blog, shop, wwwSite>> [] c = two -> <<blog, wwwSite>> [] c = three -> <<shop>>]
MCNormal == [i \in {site, wwwSite, blog, shop} |-> IF i = wwwSite THEN site ELSE i]
=============================================================================
