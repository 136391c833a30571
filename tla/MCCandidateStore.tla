-------------------------- MODULE MCCandidateStore --------------------------
(* CandidateStore with two clients.  A proposer may return nothing, one     *)
(* company, the same company with a second one (a longer replay), another   *)
(* company, or a list whose second proposal the evidence does not support.  *)
EXTENDS CandidateStore

CONSTANTS acme, globex, forged

MCContents == {acme, globex, forged}
MCSupported == {acme, globex}
MCProposalLists == {<<>>, <<acme>>, <<acme, globex>>, <<globex>>, <<acme, forged>>}
=============================================================================
