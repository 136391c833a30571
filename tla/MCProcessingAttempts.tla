------------------------ MODULE MCProcessingAttempts ------------------------
(* ProcessingAttempts on a small instance: two workers, one observation     *)
(* under two processors (the row lock is the observation's, the series are  *)
(* the processors').  Workers and processors are interchangeable.           *)
EXTENDS ProcessingAttempts, TLC

Symmetry == Permutations(Workers) \cup Permutations(Processors)
=============================================================================
