--------------------------- MODULE CollectionRuns ---------------------------
(***************************************************************************)
(* Bounded collection runs: job history, the one-run-per-job lock and its  *)
(* lease (src/app/v2/repositories/collection_runs.py, migration 0011,      *)
(* domain/collection.py) and the one caller that drives them,              *)
(* run_bounded_collection (tools/scheduled_collection.py).                 *)
(*                                                                         *)
(* A process is one place that invokes run-collection for its job, again   *)
(* and again: a cron entry or the review API's manual trigger.  Each       *)
(* statement of the repository is a transaction of its own, hence a step.  *)
(* What happens to one filing is the business of FilingCollection; here it *)
(* is one of its results.                                                  *)
(*                                                                         *)
(* A lease is modelled by the ticks that remain of it.  Clients stamp      *)
(* leases and completions with their own clocks; the database stamps       *)
(* started_at with its own, and a client's clock may lag behind it.        *)
(***************************************************************************)
EXTENDS Integers, Sequences

CONSTANTS
    Processes,      \* invokers of run-collection
    Jobs,
    JobOf,          \* the job each process runs
    Discoveries,    \* how many filings a discovery may find
    FilingResults,  \* how collecting a filing may end
    LeaseSeconds,   \* lease durations a caller may ask for
    Room,           \* how many filing results a result_detail has room for
    ClockLag,       \* ticks the clients' clocks are behind the database's
    MaxRuns,        \* bound of the model: rows the table may hold
    Renews,         \* whether processes renew their leases
    None            \* SQL NULL / nothing

ASSUME JobOfAssumption == JobOf \in [Processes -> Jobs]
ASSUME DiscoveriesAssumption == Discoveries \subseteq Nat
ASSUME ResultsAssumption == FilingResults \subseteq {"new", "duplicate", "failed", "raised"}
ASSUME RunLeaseAssumption == LeaseSeconds \subseteq Nat \ {0}
ASSUME RunNoneAssumption == None \notin Nat /\ None \notin STRING
ASSUME RunBoundAssumption == Room \in Nat /\ MaxRuns \in Nat /\ Renews \in BOOLEAN

\* A lag longer than a lease would make even recovery violate the CHECK
\* that a run is not completed before it started.
ASSUME LagAssumption == ClockLag \in Nat /\ \A lease \in LeaseSeconds : ClockLag <= lease

VARIABLES
    runs,       \* the table: runs[id] is a row, ids in insertion order
    process     \* per process: the invocation in progress, or how the last one ended

runVars == <<runs, process>>

-----------------------------------------------------------------------------
(* Rows and invocations.                                                   *)

TerminalStatus == {"succeeded", "failed", "partial", "interrupted"}

Tally == [new : Nat, duplicate : Nat, failed : Nat]

NoTally == [new |-> 0, duplicate |-> 0, failed |-> 0]

Done(tally) == tally.new + tally.duplicate + tally.failed

\* note: which failure_detail or result_detail the row carries.
Notes == {None, "lease_expired", "discovery_failed", "some_failed", "dry_run", "results"}

\* age: ticks since started_at, up to ClockLag.
Run ==
    [job : Jobs, status : {"running"} \cup TerminalStatus, lease : Nat, age : 0..ClockLag,
     discovered : Nat, tally : Tally, note : Notes]

\* "idle" before the first invocation; then how the last one ended.
Ended == {"idle", "returned", "raised", "crashed"}

Invocation ==
    [step : Ended \cup {"recover", "start", "discover", "collect"},
     run : Nat \cup {None}, found : Nat, tally : Tally]

RunIds == DOMAIN runs

RunningOf(job) == {id \in RunIds : runs[id].job = job /\ runs[id].status = "running"}

At(p, step) == process[p].step = step

Active(p) == process[p].step \notin Ended

GoTo(p, step) == process' = [process EXCEPT ![p].step = step]

\* How an invocation ends: the local variables of its process are gone.
End(p, how) ==
    process' = [process EXCEPT ![p] =
        [@ EXCEPT !.step = how, !.found = 0, !.tally = NoTally]]

RunsInit ==
    /\ runs = <<>>
    /\ process = [p \in Processes |->
         [step |-> "idle", run |-> None, found |-> 0, tally |-> NoTally]]

-----------------------------------------------------------------------------
InvokeKeepingRun(p) ==
    /\ ~ Active(p)
    /\ process' = [process EXCEPT ![p] = [@ EXCEPT !.step = "recover"]]
    /\ UNCHANGED runs

Invoke(p) ==
    /\ ~ Active(p)
    /\ process' = [process EXCEPT ![p] = [@ EXCEPT !.step = "recover", !.run = None]]
    /\ UNCHANGED runs

(* recover_interrupted_runs: every running row of these jobs whose lease   *)
(* has passed becomes interrupted.  Whether its process still runs, the    *)
(* database cannot tell.                                                   *)
ExpiredEagerly(id) == runs[id].status = "running"

Expired(id) == runs[id].status = "running" /\ runs[id].lease = 0

Interrupt(jobs) ==
    runs' = [id \in RunIds |->
        IF Expired(id) /\ runs[id].job \in jobs
        THEN [runs[id] EXCEPT !.status = "interrupted", !.note = "lease_expired"]
        ELSE runs[id]]

SkipRecovery(p) ==
    /\ At(p, "recover")
    /\ GoTo(p, "start")
    /\ UNCHANGED runs

RecoverFirst(p) ==
    /\ At(p, "recover")
    /\ Interrupt({JobOf[p]})
    /\ GoTo(p, "start")

\* recover-collection-runs, by hand, for one job or for all.
OperatorRecovers ==
    /\ \E jobs \in {{job} : job \in Jobs} \cup {Jobs} : Interrupt(jobs)
    /\ UNCHANGED process

(* start_run: the INSERT succeeds unless the partial unique index already  *)
(* holds a running row of the job.                                         *)
FreshRun(job, lease) ==
    [job |-> job, status |-> "running", lease |-> lease, age |-> 0,
     discovered |-> 0, tally |-> NoTally, note |-> None]

LockFreeOnceLeaseIsOver(job) == \A id \in RunningOf(job) : runs[id].lease = 0

LockFree(job) == RunningOf(job) = {}

StartRun(p, lease) ==
    /\ At(p, "start")
    /\ LockFree(JobOf[p])
    /\ Len(runs) < MaxRuns
    /\ runs' = Append(runs, FreshRun(JobOf[p], lease))
    /\ process' = [process EXCEPT ![p] =
         [@ EXCEPT !.step = "discover", !.run = Len(runs) + 1]]

\* CollectionAlreadyRunningError (or the bound of the model is reached).
StartRunRefused(p) ==
    /\ At(p, "start")
    /\ ~ LockFree(JobOf[p]) \/ Len(runs) = MaxRuns
    /\ End(p, "raised")
    /\ UNCHANGED runs

-----------------------------------------------------------------------------
(* complete_run: validation, the guarded UPDATE, the CHECK constraints.    *)

StillRunning(id) == runs[id].status = "running"

\* completed_at (client clock) >= started_at (database clock).
CompletedAfterStarted(id) == runs[id].age >= ClockLag

Completed(row, status, found, tally, note) ==
    [row EXCEPT !.status = status, !.discovered = found, !.tally = tally, !.note = note]

CompleteUnguarded(p, status, found, tally, note) ==
    LET id == process[p].run IN
    /\ runs' = [runs EXCEPT ![id] = Completed(@, status, found, tally, note)]
    /\ End(p, "returned")

Complete(p, status, found, tally, note) ==
    LET id == process[p].run IN
    \/ /\ StillRunning(id) /\ CompletedAfterStarted(id)
       /\ runs' = [runs EXCEPT ![id] = Completed(@, status, found, tally, note)]
       /\ End(p, "returned")
    \/ /\ ~ StillRunning(id) \/ ~ CompletedAfterStarted(id)
       /\ End(p, "raised")
       /\ UNCHANGED runs

DiscoveryFails(p) ==
    /\ At(p, "discover")
    /\ Complete(p, "failed", 0, NoTally, "discovery_failed")

DryRun(p, found) ==
    /\ At(p, "discover")
    /\ Complete(p, "succeeded", found, NoTally, "dry_run")

Discover(p, found) ==
    /\ At(p, "discover")
    /\ process' = [process EXCEPT ![p] = [@ EXCEPT !.step = "collect", !.found = found]]
    /\ UNCHANGED runs

CollectFiling(p, result) ==
    /\ At(p, "collect") /\ Done(process[p].tally) < process[p].found
    /\ process' = [process EXCEPT ![p].tally[result] = @ + 1]
    /\ UNCHANGED runs

\* Nothing between start_run and complete_run catches an exception.
CollectRaises(p) ==
    /\ At(p, "collect") /\ Done(process[p].tally) < process[p].found
    /\ End(p, "raised")
    /\ UNCHANGED runs

OverallIgnoringFailures(tally) == IF Done(tally) = tally.failed THEN "failed" ELSE "succeeded"

Overall(tally) ==
    IF tally.failed = 0 THEN "succeeded"
    ELSE IF tally.new + tally.duplicate > 0 THEN "partial" ELSE "failed"

Note(tally) == IF tally.failed > 0 THEN "some_failed" ELSE "results"

(* The results are serialized into result_detail, cut at 20000 characters, *)
(* and then validated with the bound of failure_detail, 4000 characters:   *)
(* a summary between the two bounds is refused.                            *)
DetailIsValid(tally) == Done(tally) <= Room

FinishRun(p) ==
    LET tally == process[p].tally IN
    /\ At(p, "collect") /\ Done(tally) = process[p].found
    /\ DetailIsValid(tally)
    /\ Complete(p, Overall(tally), process[p].found, tally, Note(tally))

FinishRefused(p) ==
    /\ At(p, "collect") /\ Done(process[p].tally) = process[p].found
    /\ ~ DetailIsValid(process[p].tally)
    /\ End(p, "raised")
    /\ UNCHANGED runs

-----------------------------------------------------------------------------
(* renew_lease is a legal call for the owner of a running run; nothing in  *)
(* the repository makes it.  It sets the lease, it may also shorten it.    *)
RenewRun(p, lease) ==
    /\ Renews
    /\ At(p, "collect") /\ StillRunning(process[p].run)
    /\ runs' = [runs EXCEPT ![process[p].run].lease = lease]
    /\ UNCHANGED process

CrashRun(p) ==
    /\ Active(p)
    /\ End(p, "crashed")
    /\ UNCHANGED runs

Ages(row) == row.lease > 0 \/ row.age < ClockLag

Older(row) ==
    [row EXCEPT !.lease = IF @ > 0 THEN @ - 1 ELSE 0,
                !.age = IF @ < ClockLag THEN @ + 1 ELSE @]

RunTick ==
    /\ \E id \in RunIds : StillRunning(id) /\ Ages(runs[id])
    /\ runs' = [id \in RunIds |-> IF StillRunning(id) THEN Older(runs[id]) ELSE runs[id]]
    /\ UNCHANGED process

Progress(p) ==
    \/ RecoverFirst(p)
    \/ \E lease \in LeaseSeconds : StartRun(p, lease)
    \/ StartRunRefused(p)
    \/ DiscoveryFails(p)
    \/ \E found \in Discoveries : DryRun(p, found) \/ Discover(p, found)
    \/ \E result \in FilingResults \ {"raised"} : CollectFiling(p, result)
    \/ "raised" \in FilingResults /\ CollectRaises(p)
    \/ FinishRun(p) \/ FinishRefused(p)

RunsNext ==
    \/ \E p \in Processes :
         \/ Invoke(p) \/ Progress(p) \/ CrashRun(p)
         \/ \E lease \in LeaseSeconds : RenewRun(p, lease)
    \/ OperatorRecovers
    \/ RunTick

(* The cron service keeps invoking, a process that is not dead keeps       *)
(* going, time passes, and not every invocation dies before its very first *)
(* statement.  No fairness for renewals or for the operator.               *)
RunsSpec ==
    /\ RunsInit /\ [][RunsNext]_runVars
    /\ \A p \in Processes : WF_runVars(Invoke(p)) /\ WF_runVars(Progress(p)) /\ SF_runVars(RecoverFirst(p))
    /\ WF_runVars(RunTick)
-----------------------------------------------------------------------------
(* Properties.                                                             *)

(* Rows satisfy the CHECK constraints of the table, and an invocation that *)
(* has started a run knows a row of its own job.                           *)
RunsTypeOK ==
    /\ runs \in Seq(Run)
    /\ process \in [Processes -> Invocation]
    /\ \A p \in Processes :
         /\ process[p].run # None => process[p].run \in RunIds /\ runs[process[p].run].job = JobOf[p]
         /\ process[p].step \in {"discover", "collect"} => process[p].run # None
         /\ process[p].step \in {"idle", "recover", "start"} => process[p].run = None

(* Two processes may both be at work for one job, but not both with a run  *)
(* that still counts: all but one have had theirs declared interrupted, so *)
(* only one of them will be able to complete.                              *)
AtWork(p) == process[p].step \in {"discover", "collect"}

OneEffectiveCollector ==
    \A p, q \in Processes :
        /\ p # q /\ JobOf[p] = JobOf[q]
        /\ AtWork(p) /\ AtWork(q)
        => \/ runs[process[p].run].status = "interrupted"
           \/ runs[process[q].run].status = "interrupted"

(* What an operator reads off the job history is true of the filings: a    *)
(* succeeded run left no filing out and saw none fail, a partial run got   *)
(* through some and not through others, a failed run got through none, and *)
(* a run that never completed has counted nothing.                         *)
HistoryIsTruthful ==
    \A id \in RunIds :
        LET row == runs[id] IN
        /\ row.status = "succeeded" /\ row.note # "dry_run" =>
             row.tally.failed = 0 /\ Done(row.tally) = row.discovered
        /\ row.status = "partial" =>
             /\ Done(row.tally) = row.discovered
             /\ row.tally.failed \in 1..row.discovered - 1
        /\ row.status = "failed" => row.tally.failed = row.discovered
        /\ row.status \in {"running", "interrupted"} => row.tally = NoTally

(* History is permanent: a row is never removed, its job never changes,    *)
(* once terminal it never changes again - in particular the process of an  *)
(* interrupted run, coming back to life, cannot complete it                *)
(* (v2.collection_run_guard).                                              *)
RunHistoryPreservedStep ==
    /\ RunIds \subseteq DOMAIN runs'
    /\ \A id \in RunIds :
         /\ runs'[id].job = runs[id].job
         /\ runs[id].status \in TerminalStatus => runs'[id] = runs[id]

RunHistoryPreserved == [][RunHistoryPreservedStep]_runVars

(* An operator who reads the job history sees runs that come one after the *)
(* other and end once, each with a full account or interrupted: processes  *)
(* that outlive their run, crash, race for the lock, renew, or stamp with  *)
(* a lagging clock leave no other trace.                                   *)
Shown(row) ==
    [job |-> row.job, status |-> row.status, discovered |-> row.discovered,
     tally |-> row.tally, note |-> row.note]

History == INSTANCE JobHistory WITH history <- [id \in RunIds |-> Shown(runs[id])]

ImplementsJobHistory == History!Spec

(* As long as its lease has time left, a run ends only by the completion   *)
(* of the process that started it.                                         *)
LiveRunRespectedStep ==
    \A id \in RunIds :
        /\ StillRunning(id) /\ runs[id].lease > 0
        /\ runs'[id].status # "running"
        => \E p \in Processes : AtWork(p) /\ process[p].run = id /\ process'[p].step = "returned"

LiveRunRespected == [][LiveRunRespectedStep]_runVars

(* "Never left running forever": whatever became of its process, every run *)
(* reaches a terminal status, as long as the job keeps being invoked.      *)
RunsEnd ==
    \A id \in 1..MaxRuns :
        id \in RunIds /\ StillRunning(id) ~> id \in RunIds /\ ~ StillRunning(id)

(* run_bounded_collection: "always returning a TERMINAL StoredCollectionRun*)
(* (never leaves a row 'running')" (scheduled_collection.py:78-79).        *)
NeverLeavesRunning ==
    \A p \in Processes :
        process[p].step \in {"returned", "raised"} /\ process[p].run # None =>
            ~ StillRunning(process[p].run)

(* "no overlapping collection runs" as the processes see it: no two of     *)
(* them work for the same job at the same time (collection_runs.py:12).    *)
NoOverlap ==
    \A p, q \in Processes :
        AtWork(p) /\ AtWork(q) /\ JobOf[p] = JobOf[q] => p = q
=============================================================================
