------------------------- MODULE CollectionRunsProofs -------------------------
(***************************************************************************)
(* Theorems about CollectionRuns, for every set of processes and jobs, all *)
(* leases, clock lags, discoveries and bounds.                             *)
(***************************************************************************)
EXTENDS CollectionRuns, SequenceTheorems, TLAPS

-----------------------------------------------------------------------------
(* The inductive invariant.                                                *)

\* The partial unique index: the lock of a job is held by one row.
OneRunning ==
    \A id, other \in RunIds :
        /\ runs[id].job = runs[other].job
        /\ runs[id].status = "running" /\ runs[other].status = "running"
        => id = other

\* A run is known to the process that started it, and to no other.
KnownToOne ==
    \A p, q \in Processes :
        process[p].run # None /\ process[p].run = process[q].run => p = q

\* Nobody else has completed the run of a process that is still at work.
RunUndecided ==
    \A p \in Processes : AtWork(p) => runs[process[p].run].status \in {"running", "interrupted"}

TruthfulRow(row) ==
    /\ row.status = "succeeded" /\ row.note # "dry_run" =>
         row.tally.failed = 0 /\ Done(row.tally) = row.discovered
    /\ row.status = "partial" =>
         /\ Done(row.tally) = row.discovered
         /\ row.tally.failed \in 1..row.discovered - 1
    /\ row.status = "failed" => row.tally.failed = row.discovered
    /\ row.status \in {"running", "interrupted"} => row.tally = NoTally

Truthful == \A id \in RunIds : TruthfulRow(runs[id])

IInv ==
    /\ RunsTypeOK
    /\ OneRunning
    /\ KnownToOne
    /\ RunUndecided
    /\ Truthful

-----------------------------------------------------------------------------
(* Types.                                                                  *)

LEMMA RowTypes ==
    ASSUME RunsTypeOK
    PROVE  /\ RunIds = 1..Len(runs) /\ Len(runs) \in Nat
           /\ \A id \in RunIds : runs[id] \in Run
  BY LenProperties, ElementOfSeq DEF RunsTypeOK, RunIds

LEMMA Known ==
    ASSUME RunsTypeOK, NEW p \in Processes, AtWork(p)
    PROVE  process[p].run \in RunIds /\ process[p].run # None
  BY DEF RunsTypeOK, AtWork

LEMMA NoTallyTyped == NoTally \in Tally /\ NoTally.failed = 0 /\ Done(NoTally) = 0
  BY DEF NoTally, Tally, Done

-----------------------------------------------------------------------------
(* How the table and the processes change.                                 *)

\* Every row keeps its job; a finished row, everything; a row that ends was
\* interrupted after its lease, or completed by the process that started it.
RowsKept ==
    /\ runs' \in Seq(Run) /\ Len(runs') = Len(runs) /\ RunIds' = RunIds
    /\ \A id \in RunIds :
         /\ runs'[id].job = runs[id].job
         /\ runs'[id].status = "running" => runs[id].status = "running"
         /\ runs[id].status # "running" => runs'[id] = runs[id]
         /\ TruthfulRow(runs[id]) => TruthfulRow(runs'[id])

\* A row is rewritten by a running run's process or by time.
LEMMA OneRowKept ==
    ASSUME RunsTypeOK, NEW id \in RunIds, NEW row \in Run, runs[id].status = "running",
           runs' = [runs EXCEPT ![id] = row], row.job = runs[id].job,
           TruthfulRow(runs[id]) => TruthfulRow(row)
    PROVE  RowsKept /\ runs'[id] = row /\ \A other \in RunIds \ {id} : runs'[other] = runs[other]
  <1>1. id \in 1..Len(runs) /\ runs \in Seq(Run)
    BY RowTypes DEF RunsTypeOK
  <1>2. runs' \in Seq(Run) /\ Len(runs') = Len(runs) /\ DOMAIN runs' = DOMAIN runs
    BY <1>1, ExceptSeq, LenProperties
  <1>3. runs'[id] = row /\ \A other \in RunIds \ {id} : runs'[other] = runs[other]
    BY <1>1 DEF RunIds
  <1> QED
    BY <1>2, <1>3 DEF RowsKept, RunIds

LEMMA AllRowsKept ==
    ASSUME RunsTypeOK, runs' \in [RunIds -> Run],
           \A id \in RunIds : /\ runs'[id].job = runs[id].job
                              /\ runs'[id].status = "running" => runs[id].status = "running"
                              /\ runs[id].status # "running" => runs'[id] = runs[id]
                              /\ TruthfulRow(runs[id]) => TruthfulRow(runs'[id])
    PROVE  RowsKept
  <1>1. runs' \in [1..Len(runs) -> Run] /\ Len(runs) \in Nat
    BY RowTypes
  <1>2. runs' \in Seq(Run)
    BY <1>1, SeqDef
  <1>3. Len(runs') = Len(runs)
    BY <1>1, <1>2, LenProperties
  <1> QED
    BY <1>1, <1>2, <1>3, RowTypes DEF RowsKept, RunIds

LEMMA SameRowsKept ==
    ASSUME RunsTypeOK, UNCHANGED runs
    PROVE  RowsKept
  BY DEF RowsKept, RunsTypeOK, RunIds

LEMMA InterruptKeeps ==
    ASSUME RunsTypeOK, NEW jobs, Interrupt(jobs)
    PROVE  /\ RowsKept
           /\ \A id \in RunIds : runs'[id].status \in {runs[id].status, "interrupted"}
           /\ \A id \in RunIds : runs[id].status = "running" /\ runs'[id].status # "running" => runs[id].lease = 0
  <1>1. ASSUME NEW id \in RunIds
        PROVE  [runs[id] EXCEPT !.status = "interrupted", !.note = "lease_expired"] \in Run
    BY RowTypes DEF Run, TerminalStatus, Notes
  <1>2. runs' \in [RunIds -> Run]
    BY <1>1, RowTypes DEF Interrupt
  <1>3. ASSUME NEW id \in RunIds
        PROVE  /\ runs'[id].job = runs[id].job
               /\ runs'[id].status = "running" => runs[id].status = "running"
               /\ runs[id].status # "running" => runs'[id] = runs[id]
               /\ TruthfulRow(runs[id]) => TruthfulRow(runs'[id])
               /\ runs'[id].status \in {runs[id].status, "interrupted"}
               /\ runs[id].status = "running" /\ runs'[id].status # "running" => runs[id].lease = 0
    <2>1. CASE runs'[id] = runs[id]
      BY <2>1
    <2>2. CASE Expired(id) /\ runs'[id] = [runs[id] EXCEPT !.status = "interrupted", !.note = "lease_expired"]
      <3>1. /\ runs'[id].job = runs[id].job /\ runs'[id].status = "interrupted"
            /\ runs'[id].tally = runs[id].tally /\ runs[id].status = "running" /\ runs[id].lease = 0
        BY <2>2, RowTypes DEF Run, Expired
      <3> QED
        BY <3>1 DEF TruthfulRow
    <2> QED
      BY <2>1, <2>2 DEF Interrupt
  <1> QED
    BY <1>2, <1>3, AllRowsKept

LEMMA TickKeeps ==
    ASSUME RunsTypeOK, RunTick
    PROVE  RowsKept /\ \A id \in RunIds : runs'[id].status = runs[id].status
  <1>1. ASSUME NEW id \in RunIds
        PROVE  /\ Older(runs[id]) \in Run /\ Older(runs[id]).job = runs[id].job
               /\ Older(runs[id]).status = runs[id].status /\ Older(runs[id]).tally = runs[id].tally
    <2> PICK row \in Run : row = runs[id]
      BY RowTypes
    <2> DEFINE lease == IF row.lease > 0 THEN row.lease - 1 ELSE 0
               age == IF row.age < ClockLag THEN row.age + 1 ELSE row.age
    <2>1. row.lease \in Nat /\ row.age \in 0..ClockLag
      BY DEF Run
    <2>2. lease \in Nat /\ age \in 0..ClockLag
      BY <2>1, LagAssumption
    <2>3. Older(row) = [row EXCEPT !.lease = lease, !.age = age]
      BY DEF Older
    <2> HIDE DEF lease, age
    <2> QED
      BY <2>2, <2>3 DEF Run
  <1>2. runs' \in [RunIds -> Run]
    BY <1>1, RowTypes DEF RunTick
  <1>3. ASSUME NEW id \in RunIds
        PROVE  /\ runs'[id].job = runs[id].job
               /\ runs'[id].status = runs[id].status
               /\ runs[id].status # "running" => runs'[id] = runs[id]
               /\ TruthfulRow(runs[id]) => TruthfulRow(runs'[id])
    <2>1. CASE StillRunning(id)
      <3>1. runs'[id] = Older(runs[id])
        BY <2>1 DEF RunTick
      <3> QED
        BY <1>1, <2>1, <3>1 DEF TruthfulRow, StillRunning
    <2>2. CASE ~ StillRunning(id)
      BY <2>2 DEF RunTick
    <2> QED
      BY <2>1, <2>2
  <1> QED
    BY <1>2, <1>3, AllRowsKept

LEMMA RenewKeeps ==
    ASSUME RunsTypeOK, NEW p \in Processes, NEW lease \in LeaseSeconds, RenewRun(p, lease)
    PROVE  RowsKept /\ \A id \in RunIds : runs'[id].status = runs[id].status
  <1> PICK id \in RunIds : id = process[p].run
    BY Known DEF RenewRun, At, AtWork
  <1> PICK row : row = [runs[id] EXCEPT !.lease = lease]
    OBVIOUS
  <1>1. /\ row \in Run /\ row.job = runs[id].job /\ row.status = runs[id].status
        /\ row.tally = runs[id].tally
    BY RowTypes, RunLeaseAssumption DEF Run
  <1>2. runs' = [runs EXCEPT ![id] = row] /\ runs[id].status = "running"
    BY DEF RenewRun, StillRunning
  <1>3. TruthfulRow(runs[id]) => TruthfulRow(row)
    BY <1>1, <1>2 DEF TruthfulRow
  <1>4. RowsKept /\ runs'[id] = row /\ \A other \in RunIds \ {id} : runs'[other] = runs[other]
    BY <1>1, <1>2, <1>3, OneRowKept
  <1> QED
    BY <1>1, <1>4

-----------------------------------------------------------------------------
(* How a step preserves the invariant.                                     *)

LEMMA StepPreserves ==
    ASSUME IInv, RowsKept, process' \in [Processes -> Invocation],
           \A q \in Processes :
              /\ process'[q].run \in {process[q].run, None}
              /\ process'[q].step \in {"idle", "recover", "start"} => process'[q].run = None
              /\ AtWork(q)' => /\ AtWork(q) /\ process'[q].run = process[q].run
                              /\ runs'[process[q].run].status \in {"running", "interrupted"}
    PROVE  IInv'
  <1>1. RunsTypeOK'
    BY DEF IInv, RunsTypeOK, RowsKept, AtWork
  <1>2. OneRunning'
    BY DEF IInv, OneRunning, RowsKept
  <1>3. KnownToOne'
    BY DEF IInv, KnownToOne
  <1>4. RunUndecided'
    BY DEF RunUndecided
  <1>5. Truthful'
    BY DEF IInv, Truthful, TruthfulRow, RowsKept
  <1> QED
    BY <1>1, <1>2, <1>3, <1>4, <1>5 DEF IInv

\* The rows change, or not, and one process goes on or ends.
LEMMA MovePreserves ==
    ASSUME IInv, RowsKept, NEW p \in Processes, NEW new \in Invocation,
           process' = [process EXCEPT ![p] = new],
           new.run \in {process[p].run, None},
           new.step \in {"discover", "collect"} => AtWork(p) /\ new.run = process[p].run,
           new.step \in {"idle", "recover", "start"} => new.run = None,
           \A id \in RunIds : runs'[id].status \in {runs[id].status, "interrupted"}
    PROVE  IInv'
  <1>1. /\ process' \in [Processes -> Invocation] /\ process'[p] = new
        /\ \A q \in Processes \ {p} : process'[q] = process[q]
    BY DEF IInv, RunsTypeOK
  <1>2. ASSUME NEW q \in Processes, AtWork(q)'
        PROVE  /\ AtWork(q) /\ process'[q].run = process[q].run
               /\ runs'[process[q].run].status \in {"running", "interrupted"}
    <2>1. AtWork(q) /\ process'[q].run = process[q].run
      BY <1>1, <1>2 DEF AtWork
    <2>2. process[q].run \in RunIds /\ runs[process[q].run].status \in {"running", "interrupted"}
      BY <2>1, Known DEF IInv, RunUndecided
    <2> QED
      BY <2>1, <2>2
  <1>3. \A q \in Processes :
          /\ process'[q].run \in {process[q].run, None}
          /\ process'[q].step \in {"idle", "recover", "start"} => process'[q].run = None
    BY <1>1 DEF IInv, RunsTypeOK
  <1> QED
    BY <1>1, <1>2, <1>3, StepPreserves

\* The local variables of an invocation that ends.
LEMMA EndTyped ==
    ASSUME RunsTypeOK, NEW p \in Processes, NEW how \in Ended, End(p, how)
    PROVE  \E new \in Invocation :
              /\ process' = [process EXCEPT ![p] = new]
              /\ new.run = process[p].run /\ new.step = how
  <1> DEFINE new == [process[p] EXCEPT !.step = how, !.found = 0, !.tally = NoTally]
  <1>1. process[p] \in Invocation
    BY DEF RunsTypeOK
  <1>2. new \in Invocation /\ new.run = process[p].run /\ new.step = how
    BY <1>1, NoTallyTyped DEF Invocation
  <1>3. process' = [process EXCEPT ![p] = new]
    BY DEF End
  <1> QED
    BY <1>2, <1>3

LEMMA EndPreserves ==
    ASSUME IInv, NEW p \in Processes, NEW how \in {"returned", "raised", "crashed"},
           End(p, how), UNCHANGED runs
    PROVE  IInv'
  <1>1. PICK new \in Invocation :
          process' = [process EXCEPT ![p] = new] /\ new.run = process[p].run /\ new.step = how
    BY EndTyped DEF IInv, Ended
  <1>2. RowsKept /\ \A id \in RunIds : runs'[id].status \in {runs[id].status, "interrupted"}
    BY SameRowsKept DEF IInv
  <1>3. new.step \notin {"idle", "recover", "start", "discover", "collect"}
    BY <1>1
  <1> QED
    BY <1>1, <1>2, <1>3, MovePreserves

LEMMA CompletePreserves ==
    ASSUME IInv, NEW p \in Processes, AtWork(p),
           NEW status \in {"succeeded", "partial", "failed"}, NEW found \in Nat, NEW tally \in Tally,
           NEW note \in Notes, Complete(p, status, found, tally, note),
           \A row \in Run : TruthfulRow(Completed(row, status, found, tally, note))
    PROVE  IInv'
  <1> PICK id \in RunIds : id = process[p].run
    BY Known DEF IInv
  <1> PICK row : row = Completed(runs[id], status, found, tally, note)
    OBVIOUS
  <1>1. CASE End(p, "raised") /\ UNCHANGED runs
    BY <1>1, EndPreserves
  <1>2. CASE /\ StillRunning(id) /\ runs' = [runs EXCEPT ![id] = row] /\ End(p, "returned")
    <2>1. runs[id] \in Run
      BY RowTypes DEF IInv
    <2>2. /\ row \in Run /\ row.job = runs[id].job /\ row.status = status
      BY <2>1 DEF Completed, Run, TerminalStatus
    <2>3. TruthfulRow(row)
      BY <2>1
    <2>4. RowsKept /\ \A other \in RunIds \ {id} : runs'[other] = runs[other]
      BY <1>2, <2>2, <2>3, OneRowKept DEF IInv, StillRunning
    <2>5. PICK new \in Invocation :
            process' = [process EXCEPT ![p] = new] /\ new.run = id /\ new.step = "returned"
      BY <1>2, EndTyped DEF IInv, Ended
    <2>6. /\ process' \in [Processes -> Invocation] /\ process'[p] = new
          /\ \A q \in Processes \ {p} : process'[q] = process[q]
      BY <2>5 DEF IInv, RunsTypeOK
    <2>7. ASSUME NEW q \in Processes, AtWork(q)'
          PROVE  /\ AtWork(q) /\ process'[q].run = process[q].run
                 /\ runs'[process[q].run].status \in {"running", "interrupted"}
      <3>1. q # p /\ AtWork(q) /\ process'[q] = process[q]
        BY <2>5, <2>6, <2>7 DEF AtWork
      <3>2. process[q].run \in RunIds /\ process[q].run # id
        BY <3>1, Known DEF IInv, KnownToOne
      <3> QED
        BY <2>4, <3>1, <3>2 DEF IInv, RunUndecided
    <2>8. \A q \in Processes :
            /\ process'[q].run \in {process[q].run, None}
            /\ process'[q].step \in {"idle", "recover", "start"} => process'[q].run = None
      BY <2>5, <2>6 DEF IInv, RunsTypeOK
    <2> QED
      BY <2>4, <2>6, <2>7, <2>8, StepPreserves
  <1> QED
    BY <1>1, <1>2 DEF Complete

LEMMA StartPreserves ==
    ASSUME IInv, NEW p \in Processes, NEW lease \in LeaseSeconds, StartRun(p, lease)
    PROVE  IInv'
  <1> PICK last, row : last = Len(runs) + 1 /\ row = FreshRun(JobOf[p], lease)
    OBVIOUS
  <1>1. /\ RunsTypeOK /\ runs \in Seq(Run) /\ RunIds = 1..(last - 1) /\ last \in Nat \ {0}
        /\ last \notin RunIds /\ process[p] \in Invocation /\ JobOf[p] \in Jobs
    BY RowTypes, JobOfAssumption DEF IInv, RunsTypeOK
  <1>2. /\ row \in Run /\ row.job = JobOf[p] /\ row.status = "running" /\ row.tally = NoTally
    BY <1>1, NoTallyTyped, RunLeaseAssumption, LagAssumption DEF FreshRun, Run, Notes
  <1>3. runs' = Append(runs, row)
    BY DEF StartRun
  <1>4. /\ runs' \in Seq(Run) /\ Len(runs') = last /\ runs'[last] = row
        /\ \A id \in RunIds : runs'[id] = runs[id]
    BY <1>1, <1>2, <1>3, AppendProperties
  <1>5. RunIds' = 1..last
    BY <1>4, LenProperties DEF RunIds
  <1> DEFINE new == [process[p] EXCEPT !.step = "discover", !.run = last]
  <1>6. new \in Invocation /\ new.step = "discover" /\ new.run = last
    BY <1>1 DEF Invocation
  <1>7. /\ process' \in [Processes -> Invocation] /\ process'[p] = new
        /\ \A q \in Processes \ {p} : process'[q] = process[q]
    BY <1>1, <1>6 DEF StartRun, RunsTypeOK
  <1>8. RunsTypeOK'
    <2> SUFFICES ASSUME NEW q \in Processes
                 PROVE  /\ process'[q].run # None =>
                             process'[q].run \in RunIds' /\ runs'[process'[q].run].job = JobOf[q]
                        /\ process'[q].step \in {"discover", "collect"} => process'[q].run # None
                        /\ process'[q].step \in {"idle", "recover", "start"} => process'[q].run = None
      BY <1>4, <1>7 DEF RunsTypeOK
    <2>1. CASE q = p
      <3>1. process'[q].run = last /\ process'[q].step = "discover"
        BY <1>6, <1>7, <2>1
      <3>2. last \in RunIds' /\ runs'[last].job = JobOf[q] /\ last # None
        BY <1>1, <1>2, <1>4, <1>5, <2>1, RunNoneAssumption
      <3> QED
        BY <3>1, <3>2
    <2>2. CASE q # p
      BY <1>1, <1>4, <1>5, <1>7, <2>2 DEF RunsTypeOK
    <2> QED
      BY <2>1, <2>2
  <1>9. OneRunning'
    <2>1. \A id \in RunIds : runs[id].job = JobOf[p] => runs[id].status # "running"
      BY DEF StartRun, LockFree, RunningOf
    <2> SUFFICES ASSUME NEW id \in RunIds', NEW other \in RunIds', runs'[id].job = runs'[other].job,
                        runs'[id].status = "running", runs'[other].status = "running", id # other
                 PROVE  FALSE
      BY DEF OneRunning
    <2>2. \A n \in RunIds' : (n \in RunIds /\ runs'[n] = runs[n]) \/ (n = last /\ runs'[n] = row)
      BY <1>1, <1>4, <1>5
    <2>3. CASE id \in RunIds /\ other \in RunIds
      BY <1>4, <2>3 DEF IInv, OneRunning
    <2>4. CASE id = last \/ other = last
      <3>1. runs'[id].job = JobOf[p]
        BY <1>2, <1>4, <2>4
      <3>2. PICK n \in {id, other} : n \in RunIds /\ runs'[n] = runs[n]
        BY <2>2, <2>4
      <3> QED
        BY <2>1, <3>1, <3>2
    <2> QED
      BY <2>2, <2>3, <2>4
  <1>10. KnownToOne'
    <2>1. \A q \in Processes \ {p} : process'[q].run = None \/ process'[q].run \in RunIds
      BY <1>1, <1>7 DEF RunsTypeOK
    <2>2. process'[p].run = last /\ last # None
      BY <1>1, <1>6, <1>7, RunNoneAssumption
    <2>3. \A q \in Processes \ {p} : process'[q].run # last
      BY <1>1, <2>1, <2>2
    <2> QED
      BY <1>7, <2>2, <2>3 DEF IInv, KnownToOne
  <1>11. RunUndecided'
    <2> SUFFICES ASSUME NEW q \in Processes, AtWork(q)'
                 PROVE  runs'[process'[q].run].status \in {"running", "interrupted"}
      BY DEF RunUndecided
    <2>1. CASE q = p
      BY <1>2, <1>4, <1>6, <1>7, <2>1
    <2>2. CASE q # p
      <3>1. AtWork(q) /\ process'[q] = process[q]
        BY <1>7, <2>2 DEF AtWork
      <3> QED
        BY <1>1, <1>4, <3>1, Known DEF IInv, RunUndecided
    <2> QED
      BY <2>1, <2>2
  <1>12. Truthful'
    <2>1. TruthfulRow(row)
      BY <1>2 DEF TruthfulRow
    <2> QED
      BY <1>1, <1>4, <1>5, <2>1 DEF IInv, Truthful, TruthfulRow
  <1> QED
    BY <1>8, <1>9, <1>10, <1>11, <1>12 DEF IInv

LEMMA CountedTyped ==
    ASSUME RunsTypeOK, NEW p \in Processes, NEW result \in FilingResults \ {"raised"},
           CollectFiling(p, result)
    PROVE  \E new \in Invocation :
              /\ process' = [process EXCEPT ![p] = new]
              /\ new.run = process[p].run /\ new.step = "collect"
  <1>1. process[p] \in Invocation /\ process[p].step = "collect"
    BY DEF RunsTypeOK, CollectFiling, At
  <1>2. result \in {"new", "duplicate", "failed"}
    BY ResultsAssumption
  <1> DEFINE tally == [process[p].tally EXCEPT ![result] = @ + 1]
             new == [process[p] EXCEPT !.tally = tally]
  <1>3. process[p].tally \in Tally
    BY <1>1 DEF Invocation
  <1>4. tally \in Tally
    <2>1. CASE result = "new"
      BY <1>3, <2>1 DEF Tally
    <2>2. CASE result = "duplicate"
      BY <1>3, <2>2 DEF Tally
    <2>3. CASE result = "failed"
      BY <1>3, <2>3 DEF Tally
    <2> QED
      BY <1>2, <2>1, <2>2, <2>3
  <1>5. new \in Invocation /\ new.run = process[p].run /\ new.step = "collect"
    BY <1>1, <1>4 DEF Invocation
  <1>6. process' = [process EXCEPT ![p] = new]
    BY DEF CollectFiling
  <1> QED
    BY <1>5, <1>6

LEMMA OverallIsTrue ==
    ASSUME NEW tally \in Tally, NEW row \in Run
    PROVE  /\ Overall(tally) \in {"succeeded", "partial", "failed"}
           /\ TruthfulRow(Completed(row, Overall(tally), Done(tally), tally, Note(tally)))
  <1> PICK done : done = Completed(row, Overall(tally), Done(tally), tally, Note(tally))
    OBVIOUS
  <1>1. /\ done.status = Overall(tally) /\ done.discovered = Done(tally) /\ done.tally = tally
        /\ done.note = Note(tally)
    BY DEF Completed, Run
  <1>2. tally.new \in Nat /\ tally.duplicate \in Nat /\ tally.failed \in Nat
    BY DEF Tally
  <1>3. Done(tally) = tally.new + tally.duplicate + tally.failed
    BY DEF Done
  <1>4. CASE tally.failed = 0
    <2>1. Overall(tally) = "succeeded"
      BY <1>4 DEF Overall
    <2> QED
      BY <1>1, <1>4, <2>1 DEF TruthfulRow
  <1>5. CASE tally.failed > 0 /\ tally.new + tally.duplicate > 0
    <2>1. Overall(tally) = "partial"
      BY <1>2, <1>5 DEF Overall
    <2>2. tally.failed \in 1..Done(tally) - 1
      BY <1>2, <1>3, <1>5
    <2> QED
      BY <1>1, <2>1, <2>2 DEF TruthfulRow
  <1>6. CASE tally.failed > 0 /\ tally.new + tally.duplicate = 0
    <2>1. Overall(tally) = "failed"
      BY <1>2, <1>6 DEF Overall
    <2>2. tally.failed = Done(tally)
      BY <1>2, <1>3, <1>6
    <2> QED
      BY <1>1, <2>1, <2>2 DEF TruthfulRow
  <1> QED
    BY <1>2, <1>4, <1>5, <1>6

LEMMA ProgressPreserves ==
    ASSUME IInv, NEW p \in Processes, Progress(p)
    PROVE  IInv'
  <1>1. RunsTypeOK /\ process[p] \in Invocation /\ process[p].tally \in Tally
    BY DEF IInv, RunsTypeOK, Invocation
  <1>2. CASE RecoverFirst(p)
    <2> DEFINE new == [process[p] EXCEPT !.step = "start"]
    <2>1. new \in Invocation /\ new.run = process[p].run /\ new.step = "start"
      BY <1>1 DEF Invocation
    <2>2. process' = [process EXCEPT ![p] = new] /\ process[p].run = None
      BY <1>1, <1>2 DEF RecoverFirst, GoTo, At, RunsTypeOK
    <2>3. RowsKept /\ \A id \in RunIds : runs'[id].status \in {runs[id].status, "interrupted"}
      BY <1>1, <1>2, InterruptKeeps DEF RecoverFirst
    <2> QED
      BY <2>1, <2>2, <2>3, MovePreserves
  <1>3. ASSUME NEW lease \in LeaseSeconds, StartRun(p, lease)
        PROVE  IInv'
    BY <1>3, StartPreserves
  <1>4. CASE StartRunRefused(p) \/ CollectRaises(p) \/ FinishRefused(p)
    BY <1>4, EndPreserves DEF StartRunRefused, CollectRaises, FinishRefused
  <1>5. CASE DiscoveryFails(p)
    <2>1. \A row \in Run : TruthfulRow(Completed(row, "failed", 0, NoTally, "discovery_failed"))
      BY NoTallyTyped DEF TruthfulRow, Completed, Run
    <2> QED
      BY <1>5, <2>1, CompletePreserves, NoTallyTyped DEF DiscoveryFails, At, AtWork, Notes
  <1>6. ASSUME NEW found \in Discoveries, DryRun(p, found)
        PROVE  IInv'
    <2>1. \A row \in Run : TruthfulRow(Completed(row, "succeeded", found, NoTally, "dry_run"))
      BY NoTallyTyped DEF TruthfulRow, Completed, Run
    <2>2. found \in Nat
      BY DiscoveriesAssumption
    <2> QED
      BY <1>6, <2>1, <2>2, CompletePreserves, NoTallyTyped DEF DryRun, At, AtWork, Notes
  <1>7. ASSUME NEW found \in Discoveries, Discover(p, found)
        PROVE  IInv'
    <2> DEFINE new == [process[p] EXCEPT !.step = "collect", !.found = found]
    <2>1. new \in Invocation /\ new.run = process[p].run /\ new.step = "collect"
      BY <1>1, DiscoveriesAssumption DEF Invocation
    <2>2. /\ process' = [process EXCEPT ![p] = new] /\ AtWork(p)
          /\ RowsKept /\ \A id \in RunIds : runs'[id].status \in {runs[id].status, "interrupted"}
      BY <1>1, <1>7, SameRowsKept DEF Discover, At, AtWork
    <2> QED
      BY <2>1, <2>2, MovePreserves
  <1>8. ASSUME NEW result \in FilingResults \ {"raised"}, CollectFiling(p, result)
        PROVE  IInv'
    <2>1. PICK new \in Invocation :
            process' = [process EXCEPT ![p] = new] /\ new.run = process[p].run /\ new.step = "collect"
      BY <1>1, <1>8, CountedTyped
    <2>2. /\ AtWork(p)
          /\ RowsKept /\ \A id \in RunIds : runs'[id].status \in {runs[id].status, "interrupted"}
      BY <1>1, <1>8, SameRowsKept DEF CollectFiling, At, AtWork
    <2> QED
      BY <2>1, <2>2, MovePreserves
  <1>9. CASE FinishRun(p)
    <2> PICK tally \in Tally : tally = process[p].tally
      BY <1>1
    <2>1. Done(tally) \in Nat /\ Note(tally) \in Notes
      BY DEF Done, Tally, Note, Notes
    <2>2. /\ Overall(tally) \in {"succeeded", "partial", "failed"}
          /\ \A row \in Run : TruthfulRow(Completed(row, Overall(tally), Done(tally), tally, Note(tally)))
      <3>1. Overall(tally) \in {"succeeded", "partial", "failed"}
        BY DEF Overall
      <3> QED
        BY <3>1, OverallIsTrue
    <2>3. Complete(p, Overall(tally), Done(tally), tally, Note(tally)) /\ AtWork(p)
      BY <1>9 DEF FinishRun, At, AtWork
    <2> QED
      BY <2>1, <2>2, <2>3, CompletePreserves
  <1> QED
    BY <1>2, <1>3, <1>4, <1>5, <1>6, <1>7, <1>8, <1>9 DEF Progress

-----------------------------------------------------------------------------
(* The invariant is inductive.                                             *)

LEMMA InitEstablishes == RunsInit => IInv
  <1> SUFFICES ASSUME RunsInit
               PROVE  IInv
    OBVIOUS
  <1>1. RunIds = {} /\ runs \in Seq(Run)
    BY DEF RunsInit, RunIds
  <1>2. \A p \in Processes :
          process[p] = [step |-> "idle", run |-> None, found |-> 0, tally |-> NoTally]
    BY DEF RunsInit
  <1>3. process \in [Processes -> Invocation]
    BY NoTallyTyped DEF RunsInit, Invocation, Ended
  <1>4. RunsTypeOK
    BY <1>1, <1>2, <1>3 DEF RunsTypeOK
  <1>5. OneRunning /\ Truthful
    BY <1>1 DEF OneRunning, Truthful
  <1>6. KnownToOne /\ RunUndecided
    BY <1>2 DEF KnownToOne, RunUndecided, AtWork
  <1> QED
    BY <1>4, <1>5, <1>6 DEF IInv

LEMMA InvokePreserves ==
    ASSUME IInv, NEW p \in Processes, Invoke(p)
    PROVE  IInv'
  <1> DEFINE new == [process[p] EXCEPT !.step = "recover", !.run = None]
  <1>1. process[p] \in Invocation
    BY DEF IInv, RunsTypeOK
  <1>2. new \in Invocation /\ new.run = None /\ new.step = "recover"
    BY <1>1 DEF Invocation
  <1>3. /\ process' = [process EXCEPT ![p] = new]
        /\ RowsKept /\ \A id \in RunIds : runs'[id].status \in {runs[id].status, "interrupted"}
    BY SameRowsKept DEF Invoke, IInv
  <1> QED
    BY <1>2, <1>3, MovePreserves

\* Only the rows change, and none completes.
LEMMA RowsChangePreserves ==
    ASSUME IInv, RowsKept, UNCHANGED process,
           \A id \in RunIds : runs'[id].status \in {runs[id].status, "interrupted"}
    PROVE  IInv'
  <1>1. ASSUME NEW q \in Processes, AtWork(q)
        PROVE  runs'[process[q].run].status \in {"running", "interrupted"}
    <2>1. process[q].run \in RunIds /\ runs[process[q].run].status \in {"running", "interrupted"}
      BY <1>1, Known DEF IInv, RunUndecided
    <2> QED
      BY <2>1
  <1>2. /\ process' \in [Processes -> Invocation]
        /\ \A q \in Processes :
             process'[q].step \in {"idle", "recover", "start"} => process'[q].run = None
    BY DEF IInv, RunsTypeOK
  <1> QED
    BY <1>1, <1>2, StepPreserves DEF AtWork

LEMMA NextPreserves == IInv /\ [RunsNext]_runVars => IInv'
  <1> SUFFICES ASSUME IInv, [RunsNext]_runVars
               PROVE  IInv'
    OBVIOUS
  <1>1. RunsTypeOK
    BY DEF IInv
  <1>2. ASSUME NEW p \in Processes, Invoke(p) \/ Progress(p) \/ CrashRun(p)
        PROVE  IInv'
    <2>1. CASE CrashRun(p)
      BY <2>1, EndPreserves DEF CrashRun
    <2> QED
      BY <1>2, <2>1, InvokePreserves, ProgressPreserves
  <1>3. ASSUME NEW p \in Processes, NEW lease \in LeaseSeconds, RenewRun(p, lease)
        PROVE  IInv'
    <2>1. RowsKept /\ \A id \in RunIds : runs'[id].status = runs[id].status
      BY <1>1, <1>3, RenewKeeps
    <2> QED
      BY <1>3, <2>1, RowsChangePreserves DEF RenewRun
  <1>4. CASE OperatorRecovers
    <2>1. PICK jobs : Interrupt(jobs)
      BY <1>4 DEF OperatorRecovers
    <2> QED
      BY <1>1, <1>4, <2>1, InterruptKeeps, RowsChangePreserves DEF OperatorRecovers
  <1>5. CASE RunTick
    <2>1. RowsKept /\ \A id \in RunIds : runs'[id].status = runs[id].status
      BY <1>1, <1>5, TickKeeps
    <2> QED
      BY <1>5, <2>1, RowsChangePreserves DEF RunTick
  <1>6. CASE UNCHANGED runVars
    BY <1>1, <1>6, SameRowsKept, RowsChangePreserves DEF runVars
  <1> QED
    BY <1>2, <1>3, <1>4, <1>5, <1>6 DEF RunsNext

LEMMA Inductive == RunsSpec => []IInv
  BY InitEstablishes, NextPreserves, PTL DEF RunsSpec

-----------------------------------------------------------------------------
(* What a step does to the rows there are.                                 *)

Lasting == RunHistoryPreservedStep /\ LiveRunRespectedStep

LEMMA CompleteLasts ==
    ASSUME RunsTypeOK, NEW p \in Processes, AtWork(p), NEW status, NEW found, NEW tally, NEW note,
           Complete(p, status, found, tally, note)
    PROVE  Lasting
  <1> PICK id \in RunIds : id = process[p].run
    BY Known
  <1>1. CASE UNCHANGED runs
    BY <1>1 DEF Lasting, RunHistoryPreservedStep, LiveRunRespectedStep, RunIds, StillRunning
  <1>2. CASE /\ StillRunning(id) /\ End(p, "returned")
             /\ runs' = [runs EXCEPT ![id] = Completed(runs[id], status, found, tally, note)]
    <2>1. runs[id] \in Run /\ runs[id].status = "running"
      BY <1>2, RowTypes DEF StillRunning
    <2>2. Completed(runs[id], status, found, tally, note).job = runs[id].job
      BY <2>1 DEF Completed, Run
    <2>3. /\ DOMAIN runs' = RunIds /\ runs'[id].job = runs[id].job
          /\ \A other \in RunIds \ {id} : runs'[other] = runs[other]
      BY <1>2, <2>2 DEF RunIds
    <2>4. process'[p].step = "returned"
      BY <1>2 DEF End, RunsTypeOK, Invocation
    <2> QED
      BY <2>1, <2>3, <2>4 DEF Lasting, RunHistoryPreservedStep, LiveRunRespectedStep, TerminalStatus, StillRunning
  <1> QED
    BY <1>1, <1>2 DEF Complete

LEMMA KeptLasts ==
    ASSUME RunsTypeOK, RowsKept,
           \A id \in RunIds : runs[id].status = "running" /\ runs'[id].status # "running" => runs[id].lease = 0
    PROVE  Lasting
  BY RowTypes DEF Lasting, RunHistoryPreservedStep, LiveRunRespectedStep, RowsKept, RunIds, TerminalStatus, StillRunning

LEMMA StepLasts == IInv /\ [RunsNext]_runVars => Lasting
  <1> SUFFICES ASSUME IInv, [RunsNext]_runVars
               PROVE  Lasting
    OBVIOUS
  <1>1. RunsTypeOK
    BY DEF IInv
  <1>2. ASSUME UNCHANGED runs
        PROVE  Lasting
    BY <1>2 DEF Lasting, RunHistoryPreservedStep, LiveRunRespectedStep, RunIds, StillRunning
  <1>3. ASSUME NEW p \in Processes, Progress(p)
        PROVE  Lasting
    <2>1. CASE RecoverFirst(p)
      BY <1>1, <2>1, InterruptKeeps, KeptLasts DEF RecoverFirst
    <2>2. ASSUME NEW lease \in LeaseSeconds, StartRun(p, lease)
          PROVE  Lasting
      <3>1. runs' = Append(runs, FreshRun(JobOf[p], lease))
        BY <2>2 DEF StartRun
      <3>2. RunIds \subseteq DOMAIN runs' /\ \A id \in RunIds : runs'[id] = runs[id]
        BY <1>1, <3>1, RowTypes DEF RunsTypeOK
      <3> QED
        BY <3>2 DEF Lasting, RunHistoryPreservedStep, LiveRunRespectedStep, StillRunning
    <2>3. CASE \/ StartRunRefused(p) \/ CollectRaises(p) \/ FinishRefused(p)
               \/ \E found \in Discoveries : Discover(p, found)
               \/ \E result \in FilingResults \ {"raised"} : CollectFiling(p, result)
      BY <1>2, <2>3 DEF StartRunRefused, CollectRaises, FinishRefused, Discover, CollectFiling
    <2>4. CASE DiscoveryFails(p)
      BY <1>1, <2>4, CompleteLasts DEF DiscoveryFails, At, AtWork
    <2>5. ASSUME NEW found \in Discoveries, DryRun(p, found)
          PROVE  Lasting
      BY <1>1, <2>5, CompleteLasts DEF DryRun, At, AtWork
    <2>6. CASE FinishRun(p)
      BY <1>1, <2>6, CompleteLasts DEF FinishRun, At, AtWork
    <2> QED
      BY <1>3, <2>1, <2>2, <2>3, <2>4, <2>5, <2>6 DEF Progress
  <1>4. ASSUME NEW p \in Processes, Invoke(p) \/ CrashRun(p)
        PROVE  Lasting
    BY <1>2, <1>4 DEF Invoke, CrashRun
  <1>5. ASSUME NEW p \in Processes, NEW lease \in LeaseSeconds, RenewRun(p, lease)
        PROVE  Lasting
    BY <1>1, <1>5, RenewKeeps, KeptLasts
  <1>6. CASE OperatorRecovers
    <2>1. PICK jobs : Interrupt(jobs)
      BY <1>6 DEF OperatorRecovers
    <2> QED
      BY <1>1, <2>1, InterruptKeeps, KeptLasts
  <1>7. CASE RunTick
    BY <1>1, <1>7, TickKeeps, KeptLasts
  <1>8. CASE UNCHANGED runVars
    BY <1>2, <1>8 DEF runVars
  <1> QED
    BY <1>3, <1>4, <1>5, <1>6, <1>7, <1>8 DEF RunsNext

-----------------------------------------------------------------------------
(* What an operator sees: every step is a step of the job history, or none.*)

Shows == [id \in RunIds |-> Shown(runs[id])]

\* What is shown of a row is its fields but the lease and the age.
LEMMA ShownFields ==
    ASSUME NEW row \in Run
    PROVE  /\ Shown(row).job = row.job /\ Shown(row).status = row.status
           /\ Shown(row).discovered = row.discovered /\ Shown(row).tally = row.tally
           /\ Shown(row).note = row.note
  BY DEF Shown

\* Leases and ages may change unseen.
LEMMA UnseenSteps ==
    ASSUME RunIds' = RunIds, \A id \in RunIds : Shown(runs[id])' = Shown(runs[id])
    PROVE  Shows' = Shows
  BY DEF Shows

LEMMA TickUnseen ==
    ASSUME RunsTypeOK, RunTick
    PROVE  Shows' = Shows
  <1>1. RunIds' = RunIds
    BY TickKeeps DEF RowsKept
  <1>2. ASSUME NEW id \in RunIds
        PROVE  Shown(runs[id])' = Shown(runs[id])
    <2> PICK row \in Run : row = runs[id]
      BY RowTypes
    <2>1. runs'[id] = row \/ runs'[id] = Older(row)
      BY DEF RunTick
    <2>2. Shown(Older(row)) = Shown(row)
      BY DEF Shown, Older, Run
    <2> QED
      BY <2>1, <2>2 DEF Shown
  <1> QED
    BY <1>1, <1>2, UnseenSteps

LEMMA RenewUnseen ==
    ASSUME RunsTypeOK, NEW p \in Processes, NEW lease \in LeaseSeconds, RenewRun(p, lease)
    PROVE  Shows' = Shows
  <1>1. RunIds' = RunIds
    BY RenewKeeps DEF RowsKept
  <1>2. ASSUME NEW id \in RunIds
        PROVE  Shown(runs[id])' = Shown(runs[id])
    <2> PICK row \in Run : row = runs[id]
      BY RowTypes
    <2>1. runs'[id] = row \/ runs'[id] = [row EXCEPT !.lease = lease]
      BY RowTypes DEF RenewRun, RunIds
    <2>2. Shown([row EXCEPT !.lease = lease]) = Shown(row)
      BY DEF Shown, Run
    <2> QED
      BY <2>1, <2>2 DEF Shown
  <1> QED
    BY <1>1, <1>2, UnseenSteps

LEMMA InterruptShown ==
    ASSUME RunsTypeOK, NEW jobs, Interrupt(jobs)
    PROVE  \E ids \in SUBSET RunIds : History!Interrupt(ids)
  <1> DEFINE ids == {id \in RunIds : Expired(id) /\ runs[id].job \in jobs}
  <1>1. RunIds' = RunIds
    BY InterruptKeeps DEF RowsKept
  <1>2. ASSUME NEW id \in RunIds
        PROVE  Shown(runs[id])' = IF id \in ids
                 THEN [Shown(runs[id]) EXCEPT !.status = "interrupted", !.note = "lease_expired"]
                 ELSE Shown(runs[id])
    <2> PICK row \in Run : row = runs[id]
      BY RowTypes
    <2>1. CASE id \in ids
      <3>1. runs'[id] = [row EXCEPT !.status = "interrupted", !.note = "lease_expired"]
        BY <2>1 DEF Interrupt
      <3>2. Shown([row EXCEPT !.status = "interrupted", !.note = "lease_expired"])
              = [Shown(row) EXCEPT !.status = "interrupted", !.note = "lease_expired"]
        <4> DEFINE given == [job |-> row.job, status |-> "interrupted", discovered |-> row.discovered,
                             tally |-> row.tally, note |-> "lease_expired"]
        <4>1. Shown([row EXCEPT !.status = "interrupted", !.note = "lease_expired"]) = given
          BY DEF Shown, Run
        <4>2. [Shown(row) EXCEPT !.status = "interrupted", !.note = "lease_expired"] = given
          <5> PICK shown, new : /\ shown = Shown(row)
                                /\ new = [shown EXCEPT !.status = "interrupted", !.note = "lease_expired"]
            OBVIOUS
          <5>1. shown \in [job : {row.job}, status : {row.status}, discovered : {row.discovered},
                           tally : {row.tally}, note : {row.note}]
            BY DEF Shown
          <5>2. new \in [job : {row.job}, status : {"interrupted"}, discovered : {row.discovered},
                         tally : {row.tally}, note : {"lease_expired"}]
            BY <5>1
          <5>3. new = given
            BY <5>2
          <5> QED
            BY <5>3
        <4> QED
          BY <4>1, <4>2
      <3> QED
        BY <2>1, <3>1, <3>2 DEF Shown
    <2>2. CASE id \notin ids
      <3>1. runs'[id] = row
        BY <2>2 DEF Interrupt
      <3> QED
        BY <2>2, <3>1 DEF Shown
    <2> QED
      BY <2>1, <2>2
  <1>3. ASSUME NEW id \in ids
        PROVE  Shown(runs[id]).status = "running"
    BY RowTypes, ShownFields DEF Expired
  <1> HIDE DEF ids
  <1>4. ids \in SUBSET RunIds
    BY DEF ids
  <1>5. History!Interrupt(ids)
    BY <1>1, <1>2, <1>3, <1>4 DEF History!Interrupt, History!Running
  <1> QED
    BY <1>4, <1>5

LEMMA StartShown ==
    ASSUME IInv, NEW p \in Processes, NEW lease \in LeaseSeconds, StartRun(p, lease)
    PROVE  History!Start(JobOf[p])
  <1> PICK last, row : last = Len(runs) + 1 /\ row = FreshRun(JobOf[p], lease)
    OBVIOUS
  <1>1. /\ RunsTypeOK /\ runs \in Seq(Run) /\ RunIds = 1..Len(runs) /\ Len(runs) \in Nat
        /\ \A id \in RunIds : runs[id] \in Run
    BY RowTypes DEF IInv, RunsTypeOK
  <1>2. /\ runs' = Append(runs, row)
        /\ RunIds' = 1..last /\ runs'[last] = row /\ \A id \in RunIds : runs'[id] = runs[id]
    BY <1>1 DEF StartRun, RunIds
  <1>3. Shown(row) = [job |-> JobOf[p], status |-> "running", discovered |-> 0,
                      tally |-> History!Nothing, note |-> None]
    BY DEF Shown, FreshRun, NoTally, History!Nothing
  <1>4. \A id \in RunIds : Shows[id].job = JobOf[p] => Shows[id].status # "running"
    BY <1>1, ShownFields DEF StartRun, LockFree, RunningOf, Shows
  <1>5. Shows' = Append(Shows, Shown(row))
    <2> PICK seen : seen = Shows
      OBVIOUS
    <2> PICK rows : rows = {Shown(r) : r \in Run} \cup {Shown(row)}
      OBVIOUS
    <2>1. seen \in Seq(rows) /\ Len(seen) = Len(runs) /\ DOMAIN seen = RunIds
      <3>1. seen \in [1..Len(runs) -> rows]
        BY <1>1 DEF Shows
      <3> QED
        BY <1>1, <3>1, SeqDef, LenProperties
    <2>2. Append(seen, Shown(row)) = [id \in 1..last |-> IF id = last THEN Shown(row) ELSE seen[id]]
      <3> PICK appended : appended = Append(seen, Shown(row))
        OBVIOUS
      <3>1. /\ appended \in Seq(rows) /\ Len(appended) = last /\ appended[last] = Shown(row)
            /\ \A id \in 1..Len(runs) : appended[id] = seen[id]
        BY <2>1, AppendProperties
      <3>2. appended \in [1..last -> rows]
        BY <3>1, LenProperties
      <3> QED
        BY <1>1, <3>1, <3>2
    <2>3. \A id \in 1..last : Shown(runs[id])' = IF id = last THEN Shown(row) ELSE seen[id]
      BY <1>1, <1>2 DEF Shows, Shown
    <2> QED
      BY <1>2, <2>2, <2>3 DEF Shows
  <1> QED
    BY <1>3, <1>4, <1>5 DEF History!Start, History!Running, Shows

LEMMA CompleteShown ==
    ASSUME IInv, NEW p \in Processes, AtWork(p),
           NEW status, NEW found, NEW tally, NEW note, Complete(p, status, found, tally, note),
           \A row \in Run : History!Account(Shown(Completed(row, status, found, tally, note)))
    PROVE  Shows' = Shows \/ \E id \in RunIds : History!Complete(id)
  <1> PICK id \in RunIds : id = process[p].run
    BY Known DEF IInv
  <1>1. CASE UNCHANGED runs
    BY <1>1 DEF Shows, RunIds, Shown
  <1>2. CASE /\ StillRunning(id)
             /\ runs' = [runs EXCEPT ![id] = Completed(runs[id], status, found, tally, note)]
    <2> PICK old \in Run : old = runs[id]
      BY RowTypes DEF IInv
    <2> PICK row : row = Completed(old, status, found, tally, note)
      OBVIOUS
    <2>1. Shown(row).job = Shown(old).job /\ Shown(old).status = "running" /\ History!Account(Shown(row))
      BY <1>2 DEF StillRunning, Shown, Completed, Run
    <2>2. RunIds' = RunIds /\ runs'[id] = row /\ \A other \in RunIds \ {id} : runs'[other] = runs[other]
      BY <1>2 DEF RunIds
    <2>3. /\ DOMAIN Shows = RunIds /\ Shows[id] = Shown(old)
          /\ Shows'[id] = Shown(row) /\ Shows' = [Shows EXCEPT ![id] = Shown(row)]
      BY <2>2 DEF Shows, Shown
    <2>4. History!Complete(id)
      BY <2>1, <2>3 DEF History!Complete, History!Running, Shows
    <2> QED
      BY <2>4
  <1> QED
    BY <1>1, <1>2 DEF Complete

\* The account a run that got through its filings gives of them.
LEMMA OverallIsAccount ==
    ASSUME NEW tally \in Tally, NEW row \in Run
    PROVE  History!Account(Shown(Completed(row, Overall(tally), Done(tally), tally, Note(tally))))
  <1> PICK shown : shown = Shown(Completed(row, Overall(tally), Done(tally), tally, Note(tally)))
    OBVIOUS
  <1>1. /\ shown.status = Overall(tally) /\ shown.discovered = Done(tally) /\ shown.tally = tally
        /\ shown.note = Note(tally)
    BY DEF Completed, Run, Shown
  <1>2. tally.new \in Nat /\ tally.duplicate \in Nat /\ tally.failed \in Nat
    BY DEF Tally
  <1>3. Done(tally) = tally.new + tally.duplicate + tally.failed /\ History!Counted(shown) = shown.discovered
    BY <1>1 DEF Done, History!Counted
  <1>4. CASE tally.failed = 0
    BY <1>1, <1>3, <1>4 DEF Overall, Note, History!Account
  <1>5. CASE tally.failed > 0
    <2>1. Note(tally) = "some_failed"
          /\ Overall(tally) = IF tally.failed < Done(tally) THEN "partial" ELSE "failed"
      BY <1>2, <1>3, <1>5 DEF Overall, Note
    <2> QED
      BY <1>1, <1>3, <1>5, <2>1 DEF History!Account
  <1> QED
    BY <1>2, <1>4, <1>5

LEMMA ProgressShown ==
    ASSUME IInv, NEW p \in Processes, Progress(p)
    PROVE  Shows' = Shows \/ History!Next
  <1>1. RunsTypeOK /\ process[p] \in Invocation /\ process[p].tally \in Tally
    BY DEF IInv, RunsTypeOK, Invocation
  <1> DEFINE Seen == Shows' = Shows \/ \E id \in RunIds : History!Complete(id)
  <1>2. DOMAIN Shows = RunIds
    BY DEF Shows
  <1>3. Seen => Shows' = Shows \/ History!Next
    BY <1>2 DEF History!Next, Shows
  <1>4. CASE RecoverFirst(p)
    <2>1. \E ids \in SUBSET RunIds : History!Interrupt(ids)
      BY <1>1, <1>4, InterruptShown DEF RecoverFirst
    <2> QED
      BY <1>2, <2>1 DEF History!Next, Shows
  <1>5. ASSUME NEW lease \in LeaseSeconds, StartRun(p, lease)
        PROVE  History!Next
    <2>1. JobOf[p] \in Jobs
      BY JobOfAssumption
    <2> QED
      BY <1>5, <2>1, StartShown DEF History!Next
  <1>6. CASE UNCHANGED runs
    BY <1>6 DEF Shows, RunIds, Shown
  <1>7. CASE DiscoveryFails(p)
    <2>1. \A row \in Run : History!Account(Shown(Completed(row, "failed", 0, NoTally, "discovery_failed")))
      BY DEF History!Account, History!Nothing, NoTally, Shown, Completed, Run
    <2>2. Complete(p, "failed", 0, NoTally, "discovery_failed") /\ AtWork(p)
      BY <1>7 DEF DiscoveryFails, At, AtWork
    <2> QED
      BY <1>3, <2>1, <2>2, CompleteShown
  <1>8. ASSUME NEW found \in Discoveries, DryRun(p, found)
        PROVE  Shows' = Shows \/ History!Next
    <2>1. \A row \in Run : History!Account(Shown(Completed(row, "succeeded", found, NoTally, "dry_run")))
      BY DEF History!Account, History!Nothing, NoTally, Shown, Completed, Run
    <2>2. Complete(p, "succeeded", found, NoTally, "dry_run") /\ AtWork(p)
      BY <1>8 DEF DryRun, At, AtWork
    <2> QED
      BY <1>3, <2>1, <2>2, CompleteShown
  <1>9. CASE FinishRun(p)
    <2> PICK tally \in Tally : tally = process[p].tally
      BY <1>1
    <2>1. Complete(p, Overall(tally), Done(tally), tally, Note(tally)) /\ AtWork(p)
      BY <1>9 DEF FinishRun, At, AtWork
    <2> QED
      BY <1>3, <2>1, OverallIsAccount, CompleteShown
  <1> QED
    BY <1>4, <1>5, <1>6, <1>7, <1>8, <1>9
    DEF Progress, StartRunRefused, CollectRaises, FinishRefused, Discover, CollectFiling

LEMMA StepShown == IInv /\ [RunsNext]_runVars => Shows' = Shows \/ History!Next
  <1> SUFFICES ASSUME IInv, [RunsNext]_runVars
               PROVE  Shows' = Shows \/ History!Next
    OBVIOUS
  <1>1. RunsTypeOK
    BY DEF IInv
  <1>2. ASSUME UNCHANGED runs
        PROVE  Shows' = Shows
    BY <1>2 DEF Shows, RunIds, Shown
  <1>3. CASE OperatorRecovers
    <2>1. PICK jobs : Interrupt(jobs)
      BY <1>3 DEF OperatorRecovers
    <2>2. \E ids \in SUBSET RunIds : History!Interrupt(ids)
      BY <1>1, <2>1, InterruptShown
    <2> QED
      BY <2>2 DEF History!Next, Shows
  <1>4. ASSUME NEW p \in Processes, Invoke(p) \/ CrashRun(p)
        PROVE  Shows' = Shows
    BY <1>2, <1>4 DEF Invoke, CrashRun
  <1>5. ASSUME NEW p \in Processes, NEW lease \in LeaseSeconds, RenewRun(p, lease)
        PROVE  Shows' = Shows
    BY <1>1, <1>5, RenewUnseen
  <1>6. CASE RunTick
    BY <1>1, <1>6, TickUnseen
  <1>7. CASE UNCHANGED runVars
    BY <1>2, <1>7 DEF runVars
  <1> QED
    BY <1>3, <1>4, <1>5, <1>6, <1>7, ProgressShown DEF RunsNext

-----------------------------------------------------------------------------
(* The theorems.                                                           *)

(* Rows satisfy the CHECK constraints of the table, and an invocation that *)
(* has started a run knows a row of its own job.                           *)
THEOREM RunsAreTyped == RunsSpec => []RunsTypeOK
  <1>1. IInv => RunsTypeOK
    BY DEF IInv
  <1> QED
    BY <1>1, Inductive, PTL

(* Of several processes at work for one job all but one have had their run *)
(* declared interrupted: the partial unique index and the guards of the    *)
(* updates leave only one that can complete.                               *)
THEOREM OneCollectorIsEffective == RunsSpec => []OneEffectiveCollector
  <1>1. IInv => OneEffectiveCollector
    <2> SUFFICES ASSUME IInv, NEW p \in Processes, NEW q \in Processes,
                        p # q, JobOf[p] = JobOf[q], AtWork(p), AtWork(q),
                        runs[process[p].run].status # "interrupted",
                        runs[process[q].run].status # "interrupted"
                 PROVE  FALSE
      BY DEF OneEffectiveCollector
    <2>1. /\ process[p].run \in RunIds /\ process[p].run # None
          /\ process[q].run \in RunIds /\ process[q].run # None
          /\ runs[process[p].run].job = runs[process[q].run].job
      BY Known DEF IInv, RunsTypeOK
    <2>2. runs[process[p].run].status = "running" /\ runs[process[q].run].status = "running"
      BY DEF IInv, RunUndecided
    <2>3. process[p].run = process[q].run
      BY <2>1, <2>2 DEF IInv, OneRunning
    <2> QED
      BY <2>1, <2>3 DEF IInv, KnownToOne
  <1> QED
    BY <1>1, Inductive, PTL

(* What the job history says of a run is true of its filings: succeeded,   *)
(* partial and failed runs have the counts their status claims, and a run  *)
(* that never completed has counted nothing.                               *)
THEOREM HistoryStaysTruthful == RunsSpec => []HistoryIsTruthful
  <1>1. IInv => HistoryIsTruthful
    BY DEF IInv, Truthful, TruthfulRow, HistoryIsTruthful
  <1> QED
    BY <1>1, Inductive, PTL

(* A row is never removed, keeps its job, and is frozen once terminal: the *)
(* process of an interrupted run, coming back to life, cannot complete it. *)
THEOREM RunHistoryIsPreserved == RunsSpec => RunHistoryPreserved
  <1>1. IInv /\ [RunsNext]_runVars => [RunHistoryPreservedStep]_runVars
    BY StepLasts DEF Lasting
  <1> QED
    BY <1>1, Inductive, PTL DEF RunsSpec, RunHistoryPreserved

(* While its lease has time left, a run ends only by the completion of the *)
(* process that started it: neither recovery nor an operator takes it.     *)
THEOREM LiveRunIsRespected == RunsSpec => LiveRunRespected
  <1>1. IInv /\ [RunsNext]_runVars => [LiveRunRespectedStep]_runVars
    BY StepLasts DEF Lasting
  <1> QED
    BY <1>1, Inductive, PTL DEF RunsSpec, LiveRunRespected

(* What an operator sees of the table is a job history: the runs of a job  *)
(* one after the other, each ended once, with an account of every filing   *)
(* or interrupted without one.                                             *)
THEOREM ImplementsHistory == RunsSpec => ImplementsJobHistory
  <1>1. RunsInit => History!Init
    BY DEF RunsInit, History!Init, RunIds
  <1>2. IInv /\ [RunsNext]_runVars => [History!Next]_Shows
    BY StepShown
  <1> QED
    BY <1>1, <1>2, Inductive, PTL DEF RunsSpec, ImplementsJobHistory, History!Spec, Shows
=============================================================================
