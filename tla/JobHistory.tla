----------------------------- MODULE JobHistory -----------------------------
(***************************************************************************)
(* What the job history promises an operator, without processes, leases,   *)
(* clocks or crashes (the headers of repositories/collection_runs.py and   *)
(* domain/collection.py): the runs of a job come one after the other, each *)
(* ends once, by completion with an account of every filing or by being    *)
(* interrupted without one, and is history from then on.                   *)
(***************************************************************************)
EXTENDS Integers, Sequences

CONSTANTS Jobs, None

VARIABLE history     \* the runs, in the order in which they were started

Nothing == [new |-> 0, duplicate |-> 0, failed |-> 0]

Counted(row) == row.tally.new + row.tally.duplicate + row.tally.failed

Running(id) == history[id].status = "running"

\* The account a completed run gives of the filings it discovered.
Account(row) ==
    \/ /\ row.note = "discovery_failed" /\ row.status = "failed"
       /\ row.discovered = 0 /\ row.tally = Nothing
    \/ row.note = "dry_run" /\ row.status = "succeeded" /\ row.tally = Nothing
    \/ /\ Counted(row) = row.discovered
       /\ \/ row.note = "results" /\ row.status = "succeeded" /\ row.tally.failed = 0
          \/ /\ row.note = "some_failed" /\ row.tally.failed > 0
             /\ row.status = IF row.tally.failed < row.discovered THEN "partial" ELSE "failed"

Init == history = <<>>

Start(job) ==
    /\ \A id \in DOMAIN history : history[id].job = job => ~ Running(id)
    /\ history' = Append(history,
         [job |-> job, status |-> "running", discovered |-> 0, tally |-> Nothing, note |-> None])

Complete(id) ==
    /\ Running(id)
    /\ \E row \in {history'[id]} : Account(row) /\ history' = [history EXCEPT ![id] = row]
    /\ history'[id].job = history[id].job

\* Some runs are given up together; what they had counted is not known.
Interrupt(ids) ==
    /\ \A id \in ids : Running(id)
    /\ history' = [id \in DOMAIN history |->
         IF id \in ids THEN [history[id] EXCEPT !.status = "interrupted", !.note = "lease_expired"]
         ELSE history[id]]

Next ==
    \/ \E job \in Jobs : Start(job)
    \/ \E id \in DOMAIN history : Complete(id)
    \/ \E ids \in SUBSET DOMAIN history : Interrupt(ids)

Spec == Init /\ [][Next]_history
=============================================================================
