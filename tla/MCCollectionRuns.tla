-------------------------- MODULE MCCollectionRuns --------------------------
(* CollectionRuns with two invokers of one job (a cron entry and the manual *)
(* trigger) and, where a third is given, one of another job.                *)
EXTENDS CollectionRuns

CONSTANTS cron, manual, other, formD, news

MCJobOf == [p \in Processes |-> IF p = other THEN news ELSE formD]
=============================================================================
