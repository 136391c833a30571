---------------------------- MODULE AttemptSeries ----------------------------
(***************************************************************************)
(* What the processing history promises its readers, without transactions, *)
(* leases, workers or crashes: for each (observation, processor) a latest  *)
(* attempt that is started, ends once, and is followed by an attempt with  *)
(* the next number if it failed, or for a later processor version.         *)
(* (domain/processing.py; header of repositories/processing_attempts.py)   *)
(***************************************************************************)
EXTENDS Naturals

CONSTANTS AllSeries, Versions, None

VARIABLE latest     \* per series: its latest attempt, None when "COLLECTED"

Terminal == {"processed", "failed", "quarantined"}

Attempt == [number : Nat \ {0}, version : Versions, status : Terminal \cup {"processing"}]

Init == latest = [s \in AllSeries |-> None]

First(s, version) ==
    /\ latest[s] = None
    /\ latest' = [latest EXCEPT ![s] =
         [number |-> 1, version |-> version, status |-> "processing"]]

Another(s, version) ==
    /\ latest[s] # None
    /\ \/ latest[s].status = "failed"
       \/ latest[s].status \in Terminal /\ version > latest[s].version
    /\ latest' = [latest EXCEPT ![s] =
         [number |-> @.number + 1, version |-> version, status |-> "processing"]]

End(s, status) ==
    /\ latest[s] # None
    /\ latest[s].status = "processing"
    /\ latest' = [latest EXCEPT ![s] = [@ EXCEPT !.status = status]]

Next ==
    \E s \in AllSeries :
        \/ \E version \in Versions : First(s, version) \/ Another(s, version)
        \/ \E status \in Terminal : End(s, status)

Spec == Init /\ [][Next]_latest
=============================================================================
