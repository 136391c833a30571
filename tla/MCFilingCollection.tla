------------------------- MODULE MCFilingCollection -------------------------
(* FilingCollection with two workers and two filings: one that proposes a   *)
(* company and one whose document the proposer cannot digest.               *)
EXTENDS FilingCollection

CONSTANTS acme, goodFiling, badFiling

MCObservations == {goodFiling, badFiling}
MCContents == {acme}
MCProposalLists == {<<acme>>}
MCProposed == [o \in MCObservations |-> IF o = goodFiling THEN <<acme>> ELSE Raises]
MCBadOnly == {badFiling}
MCProposedBad == [o \in MCBadOnly |-> Raises]
=============================================================================
