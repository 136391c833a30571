----------------------- MODULE FilingCollectionProofs -----------------------
(***************************************************************************)
(* What a collection of filings may be believed to have done, for every    *)
(* set of filings and workers, whatever the proposer returns.  On top of   *)
(* the invariants of ProcessingAttemptsProofs and CandidateStoreProofs:    *)
(* what a worker holds belongs to the filing it is at (Fits), candidates   *)
(* are those their filing's document proposes, and under the one version   *)
(* of the extractor only a failed attempt is followed by another.          *)
(***************************************************************************)
EXTENDS FilingCollection, CandidateStoreProofs, FiniteSetTheorems, WellFoundedInduction

-----------------------------------------------------------------------------
(* The inductive invariant.                                                *)

\* What worker w has in its variables and transactions belongs to its filing.
Fits(w) ==
    /\ request[w] # None =>
         /\ At(w, "claim")
         /\ request[w].observation = Filing(w)
         /\ request[w].processor = Extractor /\ request[w].version = 1
    /\ held[w] # None =>
         /\ task[w] # None /\ task[w].step \in {"extract", "store", "finish", "fail"}
         /\ attempts[held[w]].observation = Filing(w)
    /\ transaction[w] # None =>
         /\ At(w, "store") /\ held[w] # None
         /\ transaction[w].attempt = held[w]
         /\ Proposed[Filing(w)] # Raises
         /\ transaction[w].proposals = Proposed[Filing(w)]
    /\ At(w, "finish") /\ held[w] # None =>
         Proposed[Filing(w)] # Raises /\ AllOf(held[w]) \subseteq candidates

AllFit == \A w \in Workers : Fits(w)

\* One extractor and one version, so an attempt has a successor only after
\* it has failed.
OneExtractor == \A id \in Ids : attempts[id].processor = Extractor /\ attempts[id].version = 1

OlderHaveFailed ==
    \A id, later \in Ids :
        attempts[id].observation = attempts[later].observation /\ id < later
        => attempts[id].status = "failed"

\* Nobody stores anything but what the document proposes.
CandidatesAreProposed ==
    \A row \in candidates :
        /\ row \in AllOf(row.attempt)
        /\ Proposed[attempts[row.attempt].observation] # Raises

ProcessedFiling(o) ==
    \E id \in Ids : attempts[id].observation = o /\ attempts[id].status = "processed"

FlowTyped ==
    /\ task \in [Workers -> Task \cup {None}]
    /\ reported \in [Observations -> [Results -> Nat]]

Reports ==
    \A o \in Observations :
        /\ reported[o]["new"] <= 1
        /\ reported[o]["new"] > 0 \/ reported[o]["duplicate"] > 0 => ProcessedFiling(o)

FlowInv ==
    /\ StoreInv
    /\ FlowTyped
    /\ AllFit
    /\ OneExtractor
    /\ OlderHaveFailed
    /\ CandidatesAreProposed
    /\ ProcessedMeansExtracted
    /\ Reports

-----------------------------------------------------------------------------
(* What the steps do to the attempts.                                      *)

\* Rows keep their identity, finished rows are frozen.
Kept ==
    /\ Ids \subseteq Ids'
    /\ \A id \in Ids :
         /\ SameIdentity(attempts'[id], attempts[id])
         /\ attempts[id].status \in Terminal => attempts'[id] = attempts[id]

\* No attempt becomes PROCESSED.
Unfinished ==
    \A id \in Ids' :
        attempts'[id].status = "processed" => id \in Ids /\ attempts[id].status = "processed"

LEMMA RowsKeptIsKept == RowsKept => Kept /\ Ids' = Ids
  BY DEF RowsKept, Kept

LEMMA UnchangedIsKept == UNCHANGED attempts => Kept /\ Unfinished /\ Ids' = Ids
  BY DEF Kept, Unfinished, Ids, SameIdentity

\* A worker that drops what it held, its transactions being over.
LEMMA HeldDropped ==
    ASSUME StoreInv, NEW w \in Workers, held' = [held EXCEPT ![w] = None],
           UNCHANGED <<attempts, observationLock, request, candidates, transaction>>
    PROVE  StoreInv'
  <1>1. IInv /\ TypeOK
    BY DEF StoreInv, IInv
  <1>2. held' \in [Workers -> Ids \cup {None}] /\ \A x \in Workers : held'[x] = held[x] \/ held'[x] = None
    BY <1>1 DEF TypeOK
  <1>3. IInv'
    BY <1>1, <1>2, UnchangedKeepsRows, RowsKeptPreserves DEF TypeOK
  <1>4. AttemptsStay
    BY DEF AttemptsStay, Ids
  <1>5. transaction' \in [Workers -> Transaction \cup {None}]
    BY DEF StoreInv
  <1> QED
    BY <1>3, <1>4, <1>5, NothingStored

-----------------------------------------------------------------------------
(* The workers a step does not touch.                                      *)

LEMMA AllOfKept ==
    ASSUME Kept, NEW id \in Ids
    PROVE  AllOf(id)' = AllOf(id)
  BY DEF Kept, SameIdentity, AllOf

LEMMA OthersFit ==
    ASSUME FlowInv, Kept, candidates \subseteq candidates', NEW x \in Workers,
           task'[x] = task[x], request'[x] = request[x], held'[x] = held[x],
           transaction'[x] = transaction[x]
    PROVE  Fits(x)'
  <1>1. Fits(x)
    BY DEF FlowInv, AllFit
  <1>2. held[x] # None => held[x] \in Ids
    BY DEF FlowInv, StoreInv, IInv, TypeOK
  <1>3. held[x] # None => attempts'[held[x]].observation = attempts[held[x]].observation
    BY <1>2 DEF Kept, SameIdentity
  <1>4. At(x, "finish") /\ held[x] # None => AllOf(held[x])' = AllOf(held[x])
    BY <1>2, <1>3 DEF AllOf
  <1>5. (At(x, "finish") /\ held[x] # None => Proposed[Filing(x)] # Raises /\ AllOf(held[x]) \subseteq candidates)'
    BY <1>1, <1>3, <1>4 DEF Fits, At, Filing, AllOf
  <1> QED
    BY <1>1, <1>3, <1>5 DEF Fits, At, Filing

-----------------------------------------------------------------------------
(* Steps that neither finish an attempt nor store a candidate.             *)

LEMMA HistoryKept ==
    ASSUME FlowInv, Kept, Ids' = Ids
    PROVE  OneExtractor' /\ OlderHaveFailed'
  <1> USE DEF Kept, SameIdentity
  <1>1. OneExtractor'
    BY DEF FlowInv, OneExtractor
  <1>2. OlderHaveFailed'
    BY DEF FlowInv, OlderHaveFailed, Terminal
  <1> QED
    BY <1>1, <1>2

LEMMA TruthsKept ==
    ASSUME FlowInv, StoreInv', Kept, Unfinished, UNCHANGED candidates
    PROVE  CandidatesAreProposed' /\ ProcessedMeansExtracted'
  <1> USE DEF Kept, SameIdentity, Unfinished
  <1>3. \A row \in candidates : row.attempt \in Ids
    BY DEF FlowInv, StoreInv
  <1>4. CandidatesAreProposed'
    <2> SUFFICES ASSUME NEW row \in candidates
                 PROVE  /\ row \in AllOf(row.attempt)'
                        /\ Proposed[attempts'[row.attempt].observation] # Raises
      BY DEF CandidatesAreProposed, AllOf
    <2>1. row.attempt \in Ids /\ row \in AllOf(row.attempt)
          /\ Proposed[attempts[row.attempt].observation] # Raises
      BY <1>3 DEF FlowInv, CandidatesAreProposed
    <2> QED
      BY <2>1, AllOfKept
  <1>5. ProcessedMeansExtracted'
    <2> SUFFICES ASSUME NEW id \in Ids', attempts'[id].status = "processed" \/ CandidatesOf(id) # {}
                 PROVE  /\ Proposed[attempts'[id].observation] # Raises
                        /\ CandidatesOf(id)' = AllOf(id)'
      BY DEF ProcessedMeansExtracted, CandidatesOf, AllOf
    <2>1. id \in Ids
      BY <1>3 DEF CandidatesOf
    <2>2. Proposed[attempts[id].observation] # Raises /\ CandidatesOf(id) = AllOf(id)
      BY <2>1 DEF FlowInv, ProcessedMeansExtracted
    <2>3. CandidatesOf(id)' = CandidatesOf(id)
      BY DEF CandidatesOf
    <2> QED
      BY <2>1, <2>2, <2>3, AllOfKept
  <1> QED
    BY <1>4, <1>5

LEMMA ProcessedStays == ASSUME Kept, NEW o, ProcessedFiling(o) PROVE ProcessedFiling(o)'
  BY DEF Kept, SameIdentity, ProcessedFiling, Terminal

LEMMA ReportTyped ==
    ASSUME FlowInv, NEW w \in Workers, NEW r \in Results, task[w] # None, Report(w, r)
    PROVE  /\ FlowTyped' /\ Filing(w) \in Observations
           /\ task'[w] = None /\ \A x \in Workers \ {w} : task'[x] = task[x]
           /\ \A o \in Observations, s \in Results :
                reported'[o][s] = IF o = Filing(w) /\ s = r THEN reported[o][s] + 1 ELSE reported[o][s]
  <1>1. FlowTyped
    BY DEF FlowInv
  <1>2. Filing(w) \in Observations
    BY <1>1 DEF FlowTyped, Filing, Task
  <1>3. \A o \in Observations, s \in Results :
          reported'[o][s] = IF o = Filing(w) /\ s = r THEN reported[o][s] + 1 ELSE reported[o][s]
    BY <1>1, <1>2 DEF FlowTyped, Report
  <1>4. reported' \in [Observations -> [Results -> Nat]]
    BY <1>1, <1>2 DEF FlowTyped, Report
  <1>5. /\ task' \in [Workers -> Task \cup {None}]
        /\ task'[w] = None /\ \A x \in Workers \ {w} : task'[x] = task[x]
    BY <1>1 DEF FlowTyped, Report
  <1> QED
    BY <1>2, <1>3, <1>4, <1>5 DEF FlowTyped

LEMMA GotoTyped ==
    ASSUME FlowInv, NEW w \in Workers, NEW step \in Steps, task[w] # None, Goto(w, step)
    PROVE  /\ FlowTyped' /\ UNCHANGED reported
           /\ \A x \in Workers \ {w} : task'[x] = task[x]
           /\ At(w, step)' /\ Filing(w)' = Filing(w)
           /\ task'[w] = [task[w] EXCEPT !.step = step]
           /\ task'[w].step = step /\ task'[w].filing = task[w].filing
           /\ task'[w] # None
  <1>1. PICK t \in Task : t = task[w]
    BY DEF FlowInv, FlowTyped
  <1>2. task \in [Workers -> Task \cup {None}]
    BY DEF FlowInv, FlowTyped
  <1>3. task' = [task EXCEPT ![w] = [t EXCEPT !.step = step]]
    BY <1>1 DEF Goto
  <1>4. /\ [t EXCEPT !.step = step] \in Task /\ [t EXCEPT !.step = step] # None
        /\ [t EXCEPT !.step = step].step = step /\ [t EXCEPT !.step = step].filing = t.filing
    BY NoTaskAssumption DEF Task
  <1> QED
    BY <1>1, <1>2, <1>3, <1>4 DEF FlowInv, FlowTyped, Goto, At, Filing

\* The step does not touch worker x.
Untouched(x) ==
    /\ task'[x] = task[x] /\ request'[x] = request[x]
    /\ held'[x] = held[x] /\ transaction'[x] = transaction[x]

LEMMA WorkersFit ==
    ASSUME FlowInv, Kept, candidates \subseteq candidates',
           \A x \in Workers : Fits(x)' \/ Untouched(x)
    PROVE  AllFit'
  BY OthersFit DEF AllFit, Untouched

LEMMA QuietPreserves ==
    ASSUME FlowInv, StoreInv', FlowTyped', Kept, Unfinished, UNCHANGED candidates,
           Ids' = Ids \/ (OneExtractor' /\ OlderHaveFailed'),
           \A x \in Workers : Fits(x)' \/ Untouched(x),
           \A o \in Observations :
               /\ reported'[o]["new"] = reported[o]["new"]
               /\ reported'[o]["duplicate"] > 0 => reported[o]["duplicate"] > 0 \/ ProcessedFiling(o)
    PROVE  FlowInv'
  <1>1. AllFit'
    BY WorkersFit
  <1>2. Reports'
    <2> SUFFICES ASSUME NEW o \in Observations
                 PROVE  /\ reported'[o]["new"] <= 1
                        /\ reported'[o]["new"] > 0 \/ reported'[o]["duplicate"] > 0 => ProcessedFiling(o)'
      BY DEF Reports, ProcessedFiling
    <2> QED
      BY ProcessedStays DEF FlowInv, Reports
  <1> QED
    BY <1>1, <1>2, TruthsKept, HistoryKept DEF FlowInv

-----------------------------------------------------------------------------
(* The latest attempt exists, so that looking at it says something.        *)

LEMMA GreatestExists ==
    ASSUME NEW N \in Nat, NEW T \in SUBSET (1 .. N), T # {}
    PROVE  \E m \in T : \A n \in T : n <= m
  <1> DEFINE less == {s \in Nat \X Nat : s[1] < s[2]}
             D == {N - n : n \in T}
  <1>1. IsWellFoundedOn(less, Nat)
    BY NatLessThanWellFounded, Zenon DEF OpToRel
  <1>2. D \subseteq Nat /\ D # {}
    <2>1. \A n \in T : N - n \in Nat
      OBVIOUS
    <2>2. PICK n \in T : TRUE
      OBVIOUS
    <2> QED
      BY <2>1, <2>2
  <1>3. PICK d \in D : \A e \in D : <<e, d>> \notin less
    <2> HIDE DEF less, D
    <2> QED
      BY <1>1, <1>2, WFMin
  <1>4. \A e \in D : d <= e
    <2> SUFFICES ASSUME NEW e \in D
                 PROVE  d <= e
      OBVIOUS
    <2>1. d \in Nat /\ e \in Nat
      BY <1>2
    <2>2. ~ (e < d)
      BY <1>3, <2>1
    <2> QED
      BY <2>1, <2>2
  <1>5. PICK m \in T : d = N - m
    BY <1>3
  <1>6. \A n \in T : N - n \in D
    OBVIOUS
  <1>7. \A n \in T : N - m <= N - n
    BY <1>4, <1>5, <1>6
  <1> QED
    BY <1>5, <1>7

LEMMA LatestExists ==
    ASSUME IInv, NEW o, NEW p, Series(o, p) # {}
    PROVE  \E id \in Ids : IsLatest(id, o, p)
  <1>1. Ids = 1 .. Len(attempts) /\ Len(attempts) \in Nat /\ \A id \in Ids : attempts[id].number \in Nat
    BY RowTypes DEF IInv, Attempt
  <1>2. Series(o, p) \in SUBSET (1 .. Len(attempts))
    BY <1>1 DEF Series
  <1>3. PICK m \in Series(o, p) : \A n \in Series(o, p) : n <= m
    BY <1>1, <1>2, GreatestExists
  <1>4. \A n \in Series(o, p) : attempts[n].number <= attempts[m].number
    <2> SUFFICES ASSUME NEW n \in Series(o, p)
                 PROVE  attempts[n].number <= attempts[m].number
      OBVIOUS
    <2>1. n \in Ids /\ m \in Ids /\ attempts[n].number \in Nat /\ attempts[m].number \in Nat /\ n \in Nat /\ m \in Nat
      BY <1>1, <1>2
    <2>2. CASE n = m
      BY <2>1, <2>2
    <2>3. CASE n < m
      BY <2>1, <2>3 DEF IInv, LinearNumbers, Series
    <2> QED
      BY <1>3, <2>1, <2>2, <2>3
  <1> QED
    BY <1>3, <1>4 DEF IsLatest, Series

LEMMA LatestProcessed ==
    ASSUME IInv, NEW o, LatestStatus(o) = "processed"
    PROVE  ProcessedFiling(o)
  <1>1. Series(o, Extractor) # {}
    BY DEF LatestStatus
  <1>2. PICK id \in Ids : id = (CHOOSE i \in Ids : IsLatest(i, o, Extractor)) /\ IsLatest(id, o, Extractor)
    BY <1>1, LatestExists
  <1> QED
    BY <1>1, <1>2 DEF LatestStatus, ProcessedFiling, IsLatest, Series

-----------------------------------------------------------------------------
(* The steps of a collection, in the order of the tool.                    *)

LEMMA ExtractorExists == Extractor \in Processors /\ 1 \in Versions
  <1>1. Processors # {}
    BY OneProcessorAssumption, FS_EmptySet
  <1> QED
    BY <1>1, OneProcessorAssumption DEF Extractor

\* A worker that owns nothing fits any filing, and one that has not started
\* an attempt owns nothing.
LEMMA FreeFits ==
    ASSUME NEW w \in Workers, request'[w] = None, held'[w] = None, transaction'[w] = None
    PROVE  Fits(w)'
  BY DEF Fits

LEMMA NotStartedIsFree ==
    ASSUME FlowInv, NEW w \in Workers,
           task[w] = None \/ At(w, "fetch") \/ At(w, "look") \/ At(w, "start")
    PROVE  request[w] = None /\ held[w] = None /\ transaction[w] = None
  BY DEF FlowInv, AllFit, Fits, At

\* Steps that touch neither attempts nor candidates.
LEMMA StillPreserves ==
    ASSUME FlowInv, UNCHANGED allVars, FlowTyped', NEW w \in Workers, Fits(w)',
           \A x \in Workers \ {w} : task'[x] = task[x],
           \A o \in Observations :
               /\ reported'[o]["new"] = reported[o]["new"]
               /\ reported'[o]["duplicate"] > 0 => reported[o]["duplicate"] > 0 \/ ProcessedFiling(o)
    PROVE  FlowInv'
  <1>1. StoreInv'
    BY StorePreserves DEF FlowInv
  <1>2. \A x \in Workers : Fits(x)' \/ Untouched(x)
    BY DEF Untouched, allVars
  <1> QED
    BY <1>1, <1>2, UnchangedIsKept, QuietPreserves DEF allVars

LEMMA BeginFilingPreserves ==
    ASSUME FlowInv, NEW w \in Workers, NEW o \in Observations, BeginFiling(w, o)
    PROVE  FlowInv'
  <1>1. FlowTyped' /\ UNCHANGED reported /\ \A x \in Workers \ {w} : task'[x] = task[x]
    BY DEF BeginFiling, FlowInv, FlowTyped, Task, Steps
  <1>2. Fits(w)'
    BY NotStartedIsFree, FreeFits DEF BeginFiling, allVars
  <1> QED
    BY <1>1, <1>2, StillPreserves DEF BeginFiling

\* Reports of a worker that has not started an attempt.
LEMMA EarlyReportPreserves ==
    ASSUME FlowInv, NEW w \in Workers, NEW r \in {"duplicate", "failed", "raised"},
           At(w, "fetch") \/ At(w, "look") \/ At(w, "start"),
           Report(w, r), UNCHANGED allVars, r = "duplicate" => ProcessedFiling(Filing(w))
    PROVE  FlowInv'
  <1>1. task[w] # None /\ r \in Results
    BY DEF At, Results
  <1>2. /\ FlowTyped' /\ \A x \in Workers \ {w} : task'[x] = task[x]
        /\ \A o \in Observations, s \in Results :
             reported'[o][s] = IF o = Filing(w) /\ s = r THEN reported[o][s] + 1 ELSE reported[o][s]
    BY <1>1, ReportTyped
  <1>3. \A o \in Observations :
          /\ reported'[o]["new"] = reported[o]["new"]
          /\ reported'[o]["duplicate"] > 0 => reported[o]["duplicate"] > 0 \/ ProcessedFiling(o)
    BY <1>2 DEF Results
  <1>4. Fits(w)'
    BY NotStartedIsFree, FreeFits DEF allVars
  <1> QED
    BY <1>2, <1>3, <1>4, StillPreserves

LEMMA EarlyGotoPreserves ==
    ASSUME FlowInv, NEW w \in Workers, NEW step \in Steps,
           At(w, "fetch") \/ At(w, "look") \/ At(w, "start"),
           Goto(w, step), UNCHANGED allVars
    PROVE  FlowInv'
  <1>1. task[w] # None
    BY DEF At
  <1>2. FlowTyped' /\ UNCHANGED reported /\ \A x \in Workers \ {w} : task'[x] = task[x]
    BY <1>1, GotoTyped
  <1>3. Fits(w)'
    BY NotStartedIsFree, FreeFits DEF allVars
  <1> QED
    BY <1>2, <1>3, StillPreserves

LEMMA ProposerFailsPreserves ==
    ASSUME FlowInv, NEW w \in Workers, ProposerFails(w)
    PROVE  FlowInv'
  <1>1. /\ task[w] # None /\ Goto(w, "fail") /\ UNCHANGED allVars /\ "fail" \in Steps
        /\ At(w, "extract")
    BY DEF ProposerFails, At, Steps
  <1>2. /\ FlowTyped' /\ UNCHANGED reported /\ \A x \in Workers \ {w} : task'[x] = task[x]
        /\ task'[w] # None /\ task'[w].step = "fail" /\ Filing(w)' = Filing(w)
    BY <1>1, GotoTyped
  <1>3. Fits(w)'
    BY <1>1, <1>2 DEF FlowInv, AllFit, Fits, At, allVars
  <1> QED
    BY <1>1, <1>2, <1>3, StillPreserves

LEMMA StartFilingPreserves ==
    ASSUME FlowInv, NEW w \in Workers, StartFiling(w)
    PROVE  FlowInv'
  <1>1. /\ task[w] # None /\ Goto(w, "claim") /\ "claim" \in Steps
        /\ held[w] = None /\ transaction[w] = None
    BY NotStartedIsFree DEF StartFiling, At, Steps
  <1>2. /\ FlowTyped' /\ UNCHANGED reported /\ \A x \in Workers \ {w} : task'[x] = task[x]
        /\ task'[w] # None /\ task'[w].step = "claim" /\ Filing(w)' = Filing(w)
    BY <1>1, GotoTyped
  <1>3. Filing(w) \in Observations
    BY <1>1 DEF FlowInv, FlowTyped, Filing, Task
  <1>4. StoreInv'
    <2>1. WorkerStep(w)
      BY <1>3, ExtractorExists DEF StartFiling, WorkerStep
    <2>2. AttemptStep(w)
      BY <1>1, <2>1 DEF StartFiling, BeginStart, AttemptStep, UpdatesWait
    <2> QED
      BY <2>2, StorePreserves DEF FlowInv, StoreNext
  <1>5. request \in [Workers -> Request \cup {None}]
    BY DEF FlowInv, StoreInv, IInv, TypeOK
  <1>6. /\ request'[w].observation = Filing(w) /\ request'[w].processor = Extractor
        /\ request'[w].version = 1
        /\ \A x \in Workers \ {w} : request'[x] = request[x]
    BY <1>5 DEF StartFiling, BeginStart, ReadLatest
  <1>7. Fits(w)'
    BY <1>1, <1>2, <1>6 DEF Fits, At, StartFiling, BeginStart, storeVars
  <1>8. \A x \in Workers : Fits(x)' \/ Untouched(x)
    BY <1>2, <1>6, <1>7 DEF Untouched, StartFiling, BeginStart, storeVars
  <1> QED
    BY <1>2, <1>4, <1>8, UnchangedIsKept, QuietPreserves DEF StartFiling, BeginStart, storeVars

LEMMA IdIsNotNone == ASSUME IInv, NEW id \in Ids PROVE id # None
  BY RowTypes, NoneAssumption DEF IInv

LEMMA ExtractFilingPreserves ==
    ASSUME FlowInv, NEW w \in Workers, ExtractFiling(w)
    PROVE  FlowInv'
  <1>1. /\ task[w] # None /\ At(w, "extract") /\ Goto(w, "store") /\ "store" \in Steps
        /\ held[w] \in Ids /\ request[w] = None
    BY DEF ExtractFiling, OpenStore, Processing, At, Steps
  <1>2. /\ FlowTyped' /\ UNCHANGED reported /\ \A x \in Workers \ {w} : task'[x] = task[x]
        /\ task'[w] # None /\ task'[w].step = "store" /\ Filing(w)' = Filing(w)
    BY <1>1, GotoTyped
  <1>3. Filing(w) \in Observations /\ Proposed[Filing(w)] \in ProposalLists
    BY <1>1, ProposedAssumption DEF FlowInv, FlowTyped, Filing, Task, ExtractFiling
  <1>4. StoreInv'
    BY <1>1, <1>3, StorePreserves DEF FlowInv, StoreNext, ExtractFiling
  <1>5. held[w] # None /\ attempts[held[w]].observation = Filing(w)
    BY <1>1, IdIsNotNone DEF FlowInv, AllFit, Fits, StoreInv
  <1>6. /\ transaction'[w].attempt = held[w] /\ transaction'[w].proposals = Proposed[Filing(w)]
        /\ \A x \in Workers \ {w} : transaction'[x] = transaction[x]
    BY DEF ExtractFiling, OpenStore, FlowInv, StoreInv
  <1>7. Fits(w)'
    BY <1>1, <1>2, <1>5, <1>6 DEF Fits, At, Filing, ExtractFiling, OpenStore, vars
  <1>8. \A x \in Workers : Fits(x)' \/ Untouched(x)
    BY <1>2, <1>6, <1>7 DEF Untouched, ExtractFiling, OpenStore, vars
  <1> QED
    BY <1>2, <1>4, <1>8, UnchangedIsKept, QuietPreserves DEF ExtractFiling, OpenStore, vars

LEMMA StoreStepPreserves ==
    ASSUME FlowInv, NEW w \in Workers, StoreStep(w)
    PROVE  FlowInv'
  <1>0. PICK tx \in Transaction : tx = transaction[w] /\ tx # None
    BY DEF StoreStep, WriteCandidate, FindCandidate, FlowInv, StoreInv
  <1>1. StoreInv'
    BY StorePreserves DEF FlowInv, StoreNext, StoreStep
  <1>2. UNCHANGED <<vars, candidates, flowVars>>
    BY DEF StoreStep, WriteCandidate, FindCandidate
  <1>3. /\ \A x \in Workers \ {w} : transaction'[x] = transaction[x]
        /\ transaction'[w].attempt = tx.attempt /\ transaction'[w].proposals = tx.proposals
    <2>1. transaction \in [Workers -> Transaction \cup {None}]
      BY DEF FlowInv, StoreInv
    <2>2. CASE WriteCandidate(w)
      <3>1. PICK row : row = Row(tx)
        OBVIOUS
      <3>2. transaction' = [transaction EXCEPT ![w] = [tx EXCEPT !.next = @ + 1, !.written = @ \cup {row}]]
        BY <1>0, <2>1, <2>2, <3>1 DEF WriteCandidate
      <3> QED
        BY <1>0, <2>1, <3>2 DEF Transaction
    <2>3. CASE FindCandidate(w)
      <3>1. transaction' = [transaction EXCEPT ![w] = [tx EXCEPT !.next = @ + 1]]
        BY <1>0, <2>1, <2>3 DEF FindCandidate
      <3> QED
        BY <1>0, <2>1, <3>1 DEF Transaction
    <2> QED
      BY <2>2, <2>3 DEF StoreStep
  <1>4. Fits(w)
    BY DEF FlowInv, AllFit
  <1>5. At(w, "store") /\ held[w] # None /\ tx.attempt = held[w] /\ Proposed[Filing(w)] # Raises
        /\ tx.proposals = Proposed[Filing(w)] /\ request[w] = None
        /\ attempts[held[w]].observation = Filing(w)
    BY <1>0, <1>4 DEF Fits, At
  <1>6. Fits(w)'
    BY <1>2, <1>3, <1>5 DEF Fits, At, Filing, vars, flowVars
  <1>7. \A x \in Workers : Fits(x)' \/ Untouched(x)
    BY <1>2, <1>3, <1>6 DEF Untouched, vars, flowVars
  <1>8. FlowTyped'
    BY <1>2 DEF FlowInv, FlowTyped, flowVars
  <1> QED
    BY <1>1, <1>2, <1>7, <1>8, UnchangedIsKept, QuietPreserves DEF vars, flowVars

\* An exception escapes: the worker lets go of its attempt.
LEMMA RaisedPreserves ==
    ASSUME FlowInv, NEW w \in Workers, task[w] # None, ~ At(w, "claim"), ~ At(w, "store"),
           Report(w, "raised"), held' = [held EXCEPT ![w] = None],
           UNCHANGED <<attempts, observationLock, request, storeVars>>
    PROVE  FlowInv'
  <1>1. /\ FlowTyped' /\ \A x \in Workers \ {w} : task'[x] = task[x]
        /\ \A o \in Observations, s \in Results :
             reported'[o][s] = IF o = Filing(w) /\ s = "raised" THEN reported[o][s] + 1 ELSE reported[o][s]
    BY ReportTyped DEF Results
  <1>2. StoreInv'
    BY HeldDropped DEF FlowInv, storeVars
  <1>3. held \in [Workers -> Ids \cup {None}]
    BY DEF FlowInv, StoreInv, IInv, TypeOK
  <1>4. Fits(w)
    BY DEF FlowInv, AllFit
  <1>5. Fits(w)'
    BY <1>3, <1>4 DEF Fits, storeVars
  <1>6. \A x \in Workers : Fits(x)' \/ Untouched(x)
    BY <1>1, <1>3, <1>5 DEF Untouched, storeVars
  <1>7. \A o \in Observations :
          /\ reported'[o]["new"] = reported[o]["new"]
          /\ reported'[o]["duplicate"] > 0 => reported[o]["duplicate"] > 0 \/ ProcessedFiling(o)
    BY <1>1 DEF Results
  <1> QED
    BY <1>1, <1>2, <1>6, <1>7, UnchangedIsKept, QuietPreserves DEF storeVars

LEMMA RefusalsPreserve ==
    ASSUME FlowInv, NEW w \in Workers,
           ExtractRefused(w) \/ FinishRefused(w) \/ MarkFailedRefused(w)
    PROVE  FlowInv'
  BY RaisedPreserves DEF ExtractRefused, FinishRefused, MarkFailedRefused, LoseAttempt, At

LEMMA CrashFilingPreserves ==
    ASSUME FlowInv, NEW w \in Workers, CrashFiling(w)
    PROVE  FlowInv'
  <1>1. /\ task \in [Workers -> Task \cup {None}]
        /\ task' = [task EXCEPT ![w] = None] /\ UNCHANGED reported
    BY DEF CrashFiling, FlowInv, FlowTyped
  <1>2. FlowTyped'
    BY <1>1 DEF FlowInv, FlowTyped
  <1>3. CrashStore(w) \/ CrashStep(w)
    BY DEF CrashFiling, CrashStep
  <1>4. StoreInv'
    BY <1>3, StorePreserves DEF FlowInv, StoreNext
  <1>5. /\ request \in [Workers -> Request \cup {None}]
        /\ held \in [Workers -> Ids \cup {None}]
        /\ transaction \in [Workers -> Transaction \cup {None}]
    BY DEF FlowInv, StoreInv, IInv, TypeOK
  <1>6. Fits(w)
    BY DEF FlowInv, AllFit
  <1>7. UNCHANGED <<attempts, candidates>>
    BY <1>3 DEF CrashStore, CrashStep, Crash, storeVars
  <1>8. request'[w] = None /\ held'[w] = None /\ transaction'[w] = None
    BY <1>3, <1>5, <1>6 DEF CrashStore, CrashStep, Crash, storeVars, Fits, At
  <1>9. \A x \in Workers : Fits(x)' \/ Untouched(x)
    BY <1>1, <1>3, <1>5, <1>8, FreeFits DEF Untouched, CrashStore, CrashStep, Crash, storeVars
  <1> QED
    BY <1>1, <1>2, <1>4, <1>7, <1>9, UnchangedIsKept, QuietPreserves

\* Attempts of others expire, and time passes.
LEMMA OutsidePreserves ==
    ASSUME FlowInv, FlowTick \/ \E id \in Ids : OperatorExpires(id)
    PROVE  FlowInv'
  <1>0. TypeOK
    BY DEF FlowInv, StoreInv, IInv
  <1>1. StoreInv'
    BY StorePreserves DEF FlowInv, StoreNext, FlowTick, OperatorExpires
  <1>2. UNCHANGED <<request, held, candidates, transaction, flowVars>>
    BY DEF FlowTick, OperatorExpires, TickStep, ExpireStep, Tick, FailExpired, storeVars
  <1>3. RowsKept /\ Unfinished
    <2>1. CASE FlowTick
      BY <1>0, <2>1, TickKeepsRows DEF FlowTick, TickStep, RowsKept, Unfinished
    <2>2. ASSUME NEW id \in Ids, OperatorExpires(id)
          PROVE  RowsKept /\ Unfinished
      BY <1>0, <2>2, FailExpiredKeepsRows DEF OperatorExpires, ExpireStep, RowsKept, Unfinished
    <2> QED
      BY <2>1, <2>2
  <1>4. FlowTyped'
    BY <1>2 DEF FlowInv, FlowTyped, flowVars
  <1>5. \A x \in Workers : Untouched(x)
    BY <1>2 DEF Untouched, flowVars
  <1> QED
    BY <1>1, <1>2, <1>3, <1>4, <1>5, RowsKeptIsKept, QuietPreserves DEF flowVars

LEMMA ClaimFilingPreserves ==
    ASSUME FlowInv, NEW w \in Workers, ClaimFiling(w)
    PROVE  FlowInv'
  <1>0. PICK lease \in LeaseSeconds : ClaimAttempt(w, lease)
    BY DEF ClaimFiling
  <1>1. /\ task[w] # None /\ At(w, "claim") /\ Goto(w, "extract") /\ "extract" \in Steps
        /\ UNCHANGED storeVars /\ IInv /\ TypeOK /\ Fits(w)
    BY DEF ClaimFiling, At, Steps, FlowInv, StoreInv, IInv, AllFit
  <1>2. /\ FlowTyped' /\ UNCHANGED reported /\ \A x \in Workers \ {w} : task'[x] = task[x]
        /\ task'[w] # None /\ task'[w].step = "extract" /\ Filing(w)' = Filing(w)
    BY <1>1, GotoTyped
  <1>3. PICK r \in Request : r = request[w]
    BY <1>0, <1>1 DEF ClaimAttempt, TypeOK
  <1>4. /\ r.observation = Filing(w) /\ r.processor = Extractor /\ r.version = 1
        /\ held[w] = None /\ transaction[w] = None /\ r # None
    BY <1>0, <1>1, <1>3 DEF Fits, At, ClaimAttempt
  <1>5. PICK row : row = NewAttempt(r, lease)
    OBVIOUS
  <1>6. row \in Attempt
    BY <1>5, LeaseAssumption DEF NewAttempt, Attempt, Request, Status
  <1>7. PICK new : new = Len(attempts) + 1
    OBVIOUS
  <1>8. /\ new \notin Ids /\ Ids' = Ids \cup {new}
        /\ attempts'[new] = row
        /\ \A id \in Ids : attempts'[id] = attempts[id] /\ id < new
    <2>1. attempts' = Append(attempts, row)
      BY <1>0, <1>3, <1>5 DEF ClaimAttempt
    <2> QED
      BY <1>1, <1>6, <1>7, <2>1, RowAppended
  <1>9. row.observation = Filing(w) /\ row.processor = Extractor /\ row.version = 1
        /\ row.status = "processing"
    BY <1>4, <1>5 DEF NewAttempt
  <1>10. Kept /\ Unfinished
    BY <1>8, <1>9 DEF Kept, Unfinished, SameIdentity
  <1>11. OneExtractor'
    BY <1>8, <1>9 DEF FlowInv, OneExtractor
  <1>12. \A id \in Ids : attempts[id].observation = Filing(w) => attempts[id].status = "failed"
    <2> SUFFICES ASSUME NEW id \in Ids, attempts[id].observation = Filing(w)
                 PROVE  attempts[id].status = "failed"
      OBVIOUS
    <2>1. /\ attempts[id].version = 1 /\ attempts[id].processor = Extractor
          /\ attempts[id].number \in Nat \ {0}
      BY <1>1, RowTypes DEF FlowInv, OneExtractor, Attempt
    <2>2. id \in Series(r.observation, r.processor)
      BY <1>4, <2>1 DEF Series
    <2>3. /\ attempts[id].number <= r.latest
          /\ attempts[id].number = r.latest =>
               attempts[id].status = "failed" \/ r.version > attempts[id].version
          /\ r.latest # 0 =>
               \E other \in Series(r.observation, r.processor) : attempts[other].number = r.latest
      BY <1>1, <1>3, <1>4, <2>2 DEF IInv, ReadIsCurrent
    <2>4. r.latest \in Nat
      BY DEF Request
    <2>5. CASE attempts[id].number = r.latest
      BY <1>4, <2>1, <2>3, <2>5
    <2>6. CASE attempts[id].number # r.latest
      <3>1. r.latest # 0 /\ attempts[id].number < r.latest
        BY <2>1, <2>3, <2>4, <2>6
      <3>2. PICK other \in Series(r.observation, r.processor) : attempts[other].number = r.latest
        BY <2>3, <3>1
      <3>3. other \in Ids /\ id # other /\ id \in Nat /\ other \in Nat
            /\ attempts[other].observation = Filing(w) /\ attempts[other].processor = Extractor
        BY <1>1, <1>4, <2>6, <3>2, RowTypes DEF Series
      <3>4. ~ (other < id)
        BY <1>1, <2>1, <2>2, <2>4, <3>1, <3>2, <3>3 DEF IInv, LinearNumbers, Series
      <3>5. id < other
        BY <3>3, <3>4
      <3> QED
        BY <3>3, <3>5 DEF FlowInv, OlderHaveFailed
    <2> QED
      BY <2>5, <2>6
  <1>13. OlderHaveFailed'
    <2> SUFFICES ASSUME NEW id \in Ids', NEW later \in Ids',
                        attempts'[id].observation = attempts'[later].observation, id < later
                 PROVE  attempts'[id].status = "failed"
      BY DEF OlderHaveFailed
    <2>1. id \in Nat /\ later \in Nat /\ new \in Nat
      BY <1>1, <1>7, <1>8, RowTypes
    <2>2. id \in Ids
      BY <1>8, <2>1
    <2>3. CASE later \in Ids
      BY <1>8, <2>2, <2>3 DEF FlowInv, OlderHaveFailed
    <2>4. CASE later = new
      BY <1>8, <1>9, <1>12, <2>2, <2>4
    <2> QED
      BY <1>8, <2>3, <2>4
  <1>14. StoreInv'
    <2>1. WorkerStep(w)
      BY <1>0 DEF WorkerStep
    <2>2. UpdatesWait
      BY <1>8 DEF UpdatesWait
    <2>3. AttemptStep(w)
      BY <1>1, <1>4, <2>1, <2>2 DEF AttemptStep
    <2> QED
      BY <2>3, StorePreserves DEF FlowInv, StoreNext
  <1>15. /\ request'[w] = None /\ held'[w] = new /\ transaction'[w] = None
         /\ \A x \in Workers \ {w} : request'[x] = request[x] /\ held'[x] = held[x]
    BY <1>0, <1>1, <1>4, <1>7 DEF ClaimAttempt, TypeOK, storeVars
  <1>16. Fits(w)'
    BY <1>2, <1>8, <1>9, <1>15 DEF Fits, At
  <1>17. \A x \in Workers : Fits(x)' \/ Untouched(x)
    BY <1>1, <1>2, <1>15, <1>16 DEF Untouched, storeVars
  <1> QED
    BY <1>1, <1>2, <1>10, <1>11, <1>13, <1>14, <1>17, QuietPreserves DEF storeVars

LEMMA StoreDonePreserves ==
    ASSUME FlowInv, NEW w \in Workers, StoreDone(w)
    PROVE  FlowInv'
  <1>1. /\ task[w] # None /\ At(w, "store") /\ Goto(w, "finish") /\ "finish" \in Steps
        /\ UNCHANGED vars /\ CommitStore(w) /\ Fits(w)
    BY DEF StoreDone, CommitStore, At, Steps, FlowInv, AllFit
  <1>2. /\ FlowTyped' /\ UNCHANGED reported /\ \A x \in Workers \ {w} : task'[x] = task[x]
        /\ task'[w] # None /\ task'[w].step = "finish" /\ Filing(w)' = Filing(w)
    BY <1>1, GotoTyped
  <1>3. StoreInv'
    BY <1>1, StorePreserves DEF FlowInv, StoreNext
  <1>4. PICK tx \in Transaction : tx = transaction[w]
    BY <1>1, CommitFacts DEF FlowInv
  <1>5. /\ StoreSound(tx) /\ tx.next = Len(tx.proposals) + 1 /\ Len(tx.proposals) \in Nat
        /\ DOMAIN tx.proposals = 1 .. Len(tx.proposals)
        /\ candidates' = candidates \cup tx.written
    BY <1>1, <1>4, CommitFacts DEF FlowInv
  <1>6. /\ held[w] # None /\ tx.attempt = held[w] /\ attempts[tx.attempt].observation = Filing(w)
        /\ Proposed[Filing(w)] # Raises /\ tx.proposals = Proposed[Filing(w)]
        /\ request[w] = None
    BY <1>1, <1>4 DEF Fits, CommitStore, At
  <1>7. AllOf(tx.attempt) = {Asked(tx, n) : n \in 1 .. tx.next - 1}
    BY <1>5, <1>6 DEF AllOf, Asked
  <1>8. AllOf(tx.attempt) \subseteq candidates'
    BY <1>5, <1>7 DEF StoreSound
  <1>9. \A row \in tx.written : row.attempt = tx.attempt /\ row \in AllOf(tx.attempt)
    BY <1>5, <1>7 DEF StoreSound, Asked
  <1>10. \A id \in Ids : AllOf(id)' = AllOf(id)
    BY <1>1 DEF AllOf, vars
  <1>11. tx.attempt \in Ids /\ attempts[tx.attempt].status = "processing"
    BY <1>5 DEF StoreSound, Processing
  <1>12. CandidatesAreProposed'
    <2> SUFFICES ASSUME NEW row \in candidates'
                 PROVE  /\ row \in AllOf(row.attempt)'
                        /\ Proposed[attempts'[row.attempt].observation] # Raises
      BY DEF CandidatesAreProposed
    <2>1. CASE row \in candidates
      BY <1>1, <1>10, <2>1 DEF FlowInv, StoreInv, CandidatesAreProposed, vars
    <2>2. CASE row \in tx.written
      BY <1>1, <1>6, <1>9, <1>10, <1>11, <2>2 DEF vars
    <2> QED
      BY <1>5, <2>1, <2>2
  <1>13. ProcessedMeansExtracted'
    <2> SUFFICES ASSUME NEW id \in Ids, attempts[id].status = "processed" \/ CandidatesOf(id)' # {}
                 PROVE  /\ Proposed[attempts[id].observation] # Raises
                        /\ CandidatesOf(id)' = AllOf(id)'
      BY <1>1 DEF ProcessedMeansExtracted, CandidatesOf, AllOf, vars, Ids
    <2>1. CASE id = tx.attempt
      <3>1. \A row \in AllOf(id) : row.attempt = id
        BY DEF AllOf
      <3>2. CandidatesOf(id)' = AllOf(id)
        BY <1>8, <1>10, <1>11, <1>12, <2>1, <3>1 DEF CandidatesAreProposed, CandidatesOf
      <3> QED
        BY <1>6, <1>10, <2>1, <3>2
    <2>2. CASE id # tx.attempt
      <3>1. CandidatesOf(id)' = CandidatesOf(id)
        BY <1>5, <1>9, <2>2 DEF CandidatesOf
      <3>2. Proposed[attempts[id].observation] # Raises /\ CandidatesOf(id) = AllOf(id)
        BY <3>1 DEF FlowInv, ProcessedMeansExtracted
      <3> QED
        BY <1>10, <3>1, <3>2
    <2> QED
      BY <2>1, <2>2
  <1>14. /\ transaction'[w] = None
         /\ \A x \in Workers \ {w} : transaction'[x] = transaction[x]
    BY <1>1 DEF CommitStore, FlowInv, StoreInv
  <1>15. Fits(w)'
    <2>1. (AllOf(held[w]) \subseteq candidates)'
      BY <1>1, <1>6, <1>8, <1>10, <1>11 DEF AllOf, vars
    <2> QED
      BY <1>1, <1>2, <1>6, <1>14, <2>1 DEF Fits, At, vars
  <1>16. \A x \in Workers : Fits(x)' \/ Untouched(x)
    BY <1>1, <1>2, <1>14, <1>15 DEF Untouched, vars
  <1>17. Kept /\ Ids' = Ids
    BY <1>1, UnchangedIsKept DEF vars
  <1>18. AllFit'
    BY <1>5, <1>16, <1>17, WorkersFit
  <1>19. Reports'
    BY <1>1, <1>2 DEF FlowInv, Reports, ProcessedFiling, vars, Ids
  <1> QED
    BY <1>2, <1>3, <1>12, <1>13, <1>17, <1>18, <1>19, HistoryKept DEF FlowInv

LEMMA FinishFilingPreserves ==
    ASSUME FlowInv, NEW w \in Workers, FinishFiling(w)
    PROVE  FlowInv'
  <1>1. /\ task[w] # None /\ At(w, "finish") /\ Report(w, "new") /\ "new" \in Results
        /\ held[w] # None /\ Finish(w, held[w], "processed", None) /\ UNCHANGED storeVars
        /\ Fits(w) /\ IInv /\ TypeOK
    BY DEF FinishFiling, MarkProcessed, At, Results, FlowInv, StoreInv, IInv, AllFit
  <1>2. /\ FlowTyped' /\ Filing(w) \in Observations /\ \A x \in Workers \ {w} : task'[x] = task[x]
        /\ \A o \in Observations, s \in Results :
             reported'[o][s] = IF o = Filing(w) /\ s = "new" THEN reported[o][s] + 1 ELSE reported[o][s]
    BY <1>1, ReportTyped
  <1>3. PICK id \in Ids : id = held[w]
    BY <1>1 DEF TypeOK
  <1>4. /\ attempts[id].status = "processing" /\ attempts[id].observation = Filing(w)
        /\ Proposed[Filing(w)] # Raises /\ AllOf(id) \subseteq candidates
        /\ request[w] = None /\ transaction[w] = None
    BY <1>1, <1>3 DEF Fits, At, Finish, Processing
  <1>5. /\ RowsKept /\ attempts'[id].status = "processed"
        /\ \A other \in Ids : other # id => attempts'[other] = attempts[other]
    BY <1>1, <1>3, NoneAssumption, FinishKeepsRows DEF Terminal
  <1>6. Kept /\ Ids' = Ids
    BY <1>5, RowsKeptIsKept
  <1>7. StoreInv'
    <2>1. WorkerStep(w)
      BY <1>1 DEF WorkerStep, MarkProcessed
    <2>2. AttemptStep(w)
      BY <1>1, <1>4, <2>1 DEF AttemptStep, FinishFiling
    <2> QED
      BY <2>2, StorePreserves DEF FlowInv, StoreNext
  <1>8. \A row \in candidates : row.attempt \in Ids
    BY DEF FlowInv, StoreInv
  <1>9. CandidatesAreProposed'
    <2> SUFFICES ASSUME NEW row \in candidates
                 PROVE  /\ row \in AllOf(row.attempt)'
                        /\ Proposed[attempts'[row.attempt].observation] # Raises
      BY <1>1 DEF CandidatesAreProposed, storeVars
    <2>1. row.attempt \in Ids /\ row \in AllOf(row.attempt)
          /\ Proposed[attempts[row.attempt].observation] # Raises
      BY <1>8 DEF FlowInv, CandidatesAreProposed
    <2> QED
      BY <1>6, <2>1, AllOfKept DEF Kept, SameIdentity
  <1>10. CandidatesOf(id) = AllOf(id)
    <2>1. \A row \in AllOf(id) : row.attempt = id
      BY DEF AllOf
    <2> QED
      BY <1>4, <2>1 DEF FlowInv, CandidatesAreProposed, CandidatesOf
  <1>11. ProcessedMeansExtracted'
    <2> SUFFICES ASSUME NEW i \in Ids, attempts'[i].status = "processed" \/ CandidatesOf(i)' # {}
                 PROVE  /\ Proposed[attempts'[i].observation] # Raises
                        /\ CandidatesOf(i)' = AllOf(i)'
      BY <1>6 DEF ProcessedMeansExtracted
    <2>1. CandidatesOf(i)' = CandidatesOf(i)
      BY <1>1 DEF CandidatesOf, storeVars
    <2>2. Proposed[attempts[i].observation] # Raises /\ CandidatesOf(i) = AllOf(i)
      BY <1>4, <1>5, <1>10, <2>1 DEF FlowInv, ProcessedMeansExtracted
    <2> QED
      BY <1>6, <2>1, <2>2, AllOfKept DEF Kept, SameIdentity
  <1>12. /\ request'[w] = None /\ held'[w] = None /\ transaction'[w] = None
         /\ \A x \in Workers \ {w} : request'[x] = request[x] /\ held'[x] = held[x]
    BY <1>1, <1>4 DEF Finish, TypeOK, storeVars
  <1>13. \A x \in Workers : Fits(x)' \/ Untouched(x)
    BY <1>1, <1>2, <1>12, FreeFits DEF Untouched, storeVars
  <1>14. AllFit'
    BY <1>1, <1>6, <1>13, WorkersFit DEF storeVars
  <1>15. ~ ProcessedFiling(Filing(w))
    <2> SUFFICES ASSUME NEW other \in Ids, attempts[other].observation = Filing(w),
                        attempts[other].status = "processed"
                 PROVE  FALSE
      BY DEF ProcessedFiling
    <2>1. other \in Nat /\ id \in Nat /\ other # id
      BY <1>1, <1>4, RowTypes
    <2> QED
      BY <1>4, <2>1 DEF FlowInv, OlderHaveFailed
  <1>16. Reports'
    <2> SUFFICES ASSUME NEW o \in Observations
                 PROVE  /\ reported'[o]["new"] <= 1
                        /\ reported'[o]["new"] > 0 \/ reported'[o]["duplicate"] > 0 => ProcessedFiling(o)'
      BY DEF Reports, ProcessedFiling
    <2>1. CASE o = Filing(w)
      <3>1. reported[o]["new"] \in Nat
        BY DEF FlowInv, FlowTyped, Results
      <3>2. reported[o]["new"] = 0
        BY <1>15, <2>1, <3>1 DEF FlowInv, Reports
      <3>3. ProcessedFiling(o)'
        BY <1>4, <1>5, <1>6, <2>1 DEF ProcessedFiling, Kept, SameIdentity
      <3> QED
        BY <1>1, <1>2, <2>1, <3>2, <3>3
    <2>2. CASE o # Filing(w)
      BY <1>2, <1>6, <2>2, ProcessedStays DEF FlowInv, Reports, Results
    <2> QED
      BY <2>1, <2>2
  <1> QED
    BY <1>2, <1>6, <1>7, <1>9, <1>11, <1>14, <1>16, HistoryKept DEF FlowInv

-----------------------------------------------------------------------------
(* The invariant is inductive.                                             *)

LEMMA FlowPreserves ==
    ASSUME FlowInv, [FlowNext]_systemVars
    PROVE  FlowInv'
  <1>1. CASE UNCHANGED systemVars
    <2>1. StoreInv'
      BY <1>1, StorePreserves DEF FlowInv, systemVars
    <2>2. FlowTyped' /\ \A x \in Workers : Untouched(x)
      BY <1>1 DEF systemVars, allVars, flowVars, Untouched, FlowInv, FlowTyped
    <2> QED
      BY <1>1, <2>1, <2>2, UnchangedIsKept, QuietPreserves DEF systemVars, allVars, flowVars
  <1>2. CASE FlowNext
    <2>1. ASSUME NEW w \in Workers,
                 FetchFails(w) \/ LookDuplicate(w) \/ LookInProgress(w) \/ StartRefused(w)
          PROVE  FlowInv'
      <3>1. CASE LookDuplicate(w)
        <4>1. ProcessedFiling(Filing(w))
          BY <3>1, LatestProcessed DEF LookDuplicate, FlowInv, StoreInv
        <4> QED
          BY <3>1, <4>1, EarlyReportPreserves DEF LookDuplicate
      <3>2. CASE FetchFails(w) \/ LookInProgress(w) \/ StartRefused(w)
        BY <3>2, EarlyReportPreserves DEF FetchFails, LookInProgress, StartRefused
      <3> QED
        BY <2>1, <3>1, <3>2
    <2>2. ASSUME NEW w \in Workers, Ingest(w) \/ LookFree(w)
          PROVE  FlowInv'
      BY <2>2, EarlyGotoPreserves DEF Ingest, LookFree, Steps
    <2>3. ASSUME NEW w \in Workers, WorkerProgress(w)
          PROVE  FlowInv'
      BY <2>1, <2>2, <2>3, StartFilingPreserves, ClaimFilingPreserves, ExtractFilingPreserves,
         ProposerFailsPreserves, RefusalsPreserve, StoreStepPreserves, StoreDonePreserves,
         FinishFilingPreserves DEF WorkerProgress
    <2> QED
      BY <1>2, <2>3, BeginFilingPreserves, CrashFilingPreserves, OutsidePreserves DEF FlowNext
  <1> QED
    BY <1>1, <1>2

LEMMA FlowInitEstablishes == FlowInit => FlowInv
  <1> SUFFICES ASSUME FlowInit
               PROVE  FlowInv
    OBVIOUS
  <1>1. StoreInv
    BY StoreInitEstablishes DEF FlowInit
  <1>2. Ids = {} /\ candidates = {}
    BY DEF FlowInit, StoreInit, Init, Ids
  <1>3. AllFit
    BY DEF FlowInit, StoreInit, Init, AllFit, Fits, At
  <1>4. FlowTyped /\ Reports
    BY DEF FlowInit, FlowTyped, Reports, Results
  <1> QED
    BY <1>1, <1>2, <1>3, <1>4 DEF FlowInv, OneExtractor, OlderHaveFailed, CandidatesAreProposed,
                                  ProcessedMeansExtracted

LEMMA FlowInductive == FlowSpec => []FlowInv
  BY FlowInitEstablishes, FlowPreserves, PTL DEF FlowSpec

-----------------------------------------------------------------------------
(* The counters.  Every collection begun is under way or reported at most  *)
(* once, so that no counter and no set of workers under way outgrows the   *)
(* collections begun; and what is past its fetch is ingested.              *)

Active == {w \in Workers : task[w] # None}

Counts ==
    /\ IsFiniteSet(Active)
    /\ calls \in 0..MaxCalls
    /\ \A o \in Observations, r \in Results : reported[o][r] + Cardinality(Active) <= calls
    /\ ingested \subseteq Observations
    /\ \A w \in Workers : task[w] # None /\ task[w].step # "fetch" => Filing(w) \in ingested

LEMMA ActiveSize == ASSUME Counts PROVE Cardinality(Active) \in Nat /\ calls \in Nat
  BY FS_CardinalityType, CallsAssumption DEF Counts

LEMMA OneLessActive ==
    ASSUME FlowInv, Counts, NEW w \in Workers, task[w] # None, task' = [task EXCEPT ![w] = None]
    PROVE  IsFiniteSet(Active') /\ Cardinality(Active') = Cardinality(Active) - 1
  <1>1. Active' = Active \ {w} /\ w \in Active
    BY DEF Active, FlowInv, FlowTyped
  <1> QED
    BY <1>1, FS_RemoveElement DEF Counts

LEMMA ReportCounts ==
    ASSUME FlowInv, Counts, NEW w \in Workers, NEW r \in Results, task[w] # None,
           Report(w, r), UNCHANGED ingested
    PROVE  Counts'
  <1>1. /\ \A x \in Workers \ {w} : task'[x] = task[x]
        /\ task'[w] = None
        /\ \A o \in Observations, s \in Results :
             reported'[o][s] = IF o = Filing(w) /\ s = r THEN reported[o][s] + 1 ELSE reported[o][s]
    BY ReportTyped
  <1>2. IsFiniteSet(Active') /\ Cardinality(Active') = Cardinality(Active) - 1
    BY OneLessActive DEF Report
  <1>3. \A o \in Observations, s \in Results : reported'[o][s] + Cardinality(Active') <= calls
    <2> SUFFICES ASSUME NEW o \in Observations, NEW s \in Results
                 PROVE  reported'[o][s] + Cardinality(Active') <= calls
      OBVIOUS
    <2>1. reported[o][s] \in Nat
      BY DEF FlowInv, FlowTyped
    <2> QED
      BY <1>1, <1>2, <2>1, ActiveSize DEF Counts
  <1>4. calls' = calls
    BY DEF Report
  <1> QED
    BY <1>1, <1>2, <1>3, <1>4 DEF Counts, Filing

LEMMA GotoCounts ==
    ASSUME FlowInv, Counts, NEW w \in Workers, NEW step \in Steps, task[w] # None, Goto(w, step),
           ingested \subseteq ingested', ingested' \subseteq Observations, Filing(w) \in ingested'
    PROVE  Counts'
  <1>1. /\ UNCHANGED reported /\ \A x \in Workers \ {w} : task'[x] = task[x]
        /\ task'[w] # None /\ Filing(w)' = Filing(w)
    BY GotoTyped
  <1>2. Active' = Active
    BY <1>1 DEF Active
  <1> QED
    BY <1>1, <1>2 DEF Counts, Goto, Filing

LEMMA BeginFilingCounts ==
    ASSUME FlowInv, Counts, NEW w \in Workers, NEW o \in Observations, BeginFiling(w, o)
    PROVE  Counts'
  <1>1. /\ task'[w] = [filing |-> o, step |-> "fetch"]
        /\ \A x \in Workers \ {w} : task'[x] = task[x]
        /\ task[w] = None /\ calls' = calls + 1 /\ calls < MaxCalls
        /\ UNCHANGED <<reported, ingested>>
    BY DEF BeginFiling, FlowInv, FlowTyped
  <1>2. task'[w] # None
    BY <1>1, NoTaskAssumption DEF Task, Steps
  <1>3. Active' = Active \cup {w} /\ w \notin Active
    BY <1>1, <1>2 DEF Active
  <1>4. IsFiniteSet(Active') /\ Cardinality(Active') = Cardinality(Active) + 1
    BY <1>3, FS_AddElement DEF Counts
  <1>5. \A p \in Observations, s \in Results : reported[p][s] \in Nat
    BY DEF FlowInv, FlowTyped
  <1>6. \A p \in Observations, s \in Results : reported'[p][s] + Cardinality(Active') <= calls'
    BY <1>1, <1>4, <1>5, ActiveSize DEF Counts
  <1>7. calls' \in 0..MaxCalls
    BY <1>1, CallsAssumption DEF Counts
  <1> QED
    BY <1>1, <1>4, <1>6, <1>7 DEF Counts, Filing

LEMMA CrashFilingCounts ==
    ASSUME FlowInv, Counts, NEW w \in Workers, CrashFiling(w)
    PROVE  Counts'
  <1>1. /\ task[w] # None /\ task' = [task EXCEPT ![w] = None]
        /\ UNCHANGED <<ingested, reported, calls>>
    BY DEF CrashFiling
  <1>2. IsFiniteSet(Active') /\ Cardinality(Active') = Cardinality(Active) - 1
    BY <1>1, OneLessActive
  <1>3. \A o \in Observations, s \in Results : reported[o][s] \in Nat
    BY DEF FlowInv, FlowTyped
  <1>4. \A o \in Observations, s \in Results : reported'[o][s] + Cardinality(Active') <= calls'
    BY <1>1, <1>2, <1>3, ActiveSize DEF Counts
  <1>5. \A x \in Workers : task'[x] # None => task'[x] = task[x]
    BY <1>1 DEF FlowInv, FlowTyped
  <1> QED
    BY <1>1, <1>2, <1>4, <1>5 DEF Counts, Filing

LEMMA StillCounts == ASSUME Counts, UNCHANGED flowVars PROVE Counts'
  BY DEF Counts, flowVars, Active, Filing

LEMMA CountsPreserved ==
    ASSUME FlowInv, Counts, [FlowNext]_systemVars
    PROVE  Counts'
  <1>1. CASE UNCHANGED systemVars
    BY <1>1, StillCounts DEF systemVars
  <1>2. ASSUME NEW w \in Workers,
               \/ FetchFails(w) \/ LookDuplicate(w) \/ LookInProgress(w) \/ StartRefused(w)
               \/ ExtractRefused(w) \/ FinishFiling(w) \/ FinishRefused(w) \/ MarkFailedRefused(w)
        PROVE  Counts'
    BY <1>2, ReportCounts
       DEF FetchFails, LookDuplicate, LookInProgress, StartRefused, ExtractRefused, FinishFiling,
           FinishRefused, MarkFailedRefused, At, Results
  <1>3. ASSUME NEW w \in Workers, Ingest(w)
        PROVE  Counts'
    <2>1. task[w] # None /\ Goto(w, "look") /\ "look" \in Steps
      BY <1>3 DEF Ingest, At, Steps
    <2>2. Filing(w) \in Observations
      BY <2>1 DEF FlowInv, FlowTyped, Filing, Task
    <2> QED
      BY <1>3, <2>1, <2>2, GotoCounts DEF Ingest, Counts
  <1>4. ASSUME NEW w \in Workers,
               \/ LookFree(w) \/ StartFiling(w) \/ ClaimFiling(w) \/ ExtractFiling(w)
               \/ ProposerFails(w) \/ StoreDone(w)
        PROVE  Counts'
    <2>1. task[w] # None /\ task[w].step # "fetch" /\ UNCHANGED ingested
      BY <1>4 DEF LookFree, StartFiling, ClaimFiling, ExtractFiling, ProposerFails, StoreDone, At
    <2>2. PICK step \in Steps : Goto(w, step)
      BY <1>4 DEF LookFree, StartFiling, ClaimFiling, ExtractFiling, ProposerFails, StoreDone, Steps
    <2> QED
      BY <2>1, <2>2, GotoCounts DEF Counts
  <1>5. ASSUME NEW w \in Workers, WorkerProgress(w)
        PROVE  Counts'
    BY <1>2, <1>3, <1>4, <1>5, StillCounts DEF WorkerProgress, StoreStep
  <1> QED
    BY <1>1, <1>5, BeginFilingCounts, CrashFilingCounts, StillCounts
       DEF FlowNext, OperatorExpires, FlowTick

LEMMA CountsInit == FlowInit => Counts
  <1> SUFFICES ASSUME FlowInit
               PROVE  Counts
    OBVIOUS
  <1>1. Active = {}
    BY DEF FlowInit, Active
  <1>2. \A w \in Workers : task[w] = None
    BY DEF FlowInit
  <1>3. \A o \in Observations, r \in Results : reported[o][r] = 0
    BY DEF FlowInit
  <1>4. ingested = {} /\ calls = 0
    BY DEF FlowInit
  <1> QED
    BY <1>1, <1>2, <1>3, <1>4, FS_EmptySet, CallsAssumption DEF Counts

-----------------------------------------------------------------------------
(* Refinement: a collection, seen from the database, is a client of        *)
(* CandidateStore that stores what the proposer returned.                  *)

FlowComposed == FlowInv /\ LockOwned

LEMMA FittingCallers == FlowInv => OneCall
  BY DEF FlowInv, AllFit, Fits, At, OneCall

LEMMA FlowStepsAreStoreSteps ==
    ASSUME FlowComposed, [FlowNext]_systemVars
    PROVE  [StoreNext]_allVars
  <1>0. FlowInv /\ StoreInv /\ IInv /\ LockOwned /\ AllFit /\ FlowTyped
    BY DEF FlowComposed, FlowInv, StoreInv
  <1>1. CASE UNCHANGED allVars
    BY <1>1
  <1>2. ASSUME NEW w \in Workers, StartFiling(w)
        PROVE  StoreNext
    <2>1. Filing(w) \in Observations
      BY <1>0, <1>2 DEF StartFiling, At, FlowTyped, Filing, Task
    <2>2. WorkerStep(w)
      BY <1>2, <2>1, ExtractorExists DEF StartFiling, WorkerStep
    <2>3. transaction[w] = None
      BY <1>0, <1>2, NotStartedIsFree DEF StartFiling
    <2> QED
      BY <1>2, <2>2, <2>3 DEF StartFiling, BeginStart, AttemptStep, UpdatesWait, StoreNext
  <1>3. ASSUME NEW w \in Workers, ClaimFiling(w)
        PROVE  StoreNext
    <2>1. WorkerStep(w) /\ transaction[w] = None /\ UNCHANGED storeVars
      BY <1>0, <1>3 DEF ClaimFiling, WorkerStep, AllFit, Fits, At
    <2>2. \A id \in Ids : attempts'[id] = attempts[id]
      <3>1. PICK lease \in LeaseSeconds : ClaimAttempt(w, lease)
        BY <1>3 DEF ClaimFiling
      <3>2. PICK row : row = NewAttempt(request[w], lease)
        OBVIOUS
      <3>3. TypeOK /\ request[w] \in Request /\ attempts' = Append(attempts, row)
        BY <1>0, <3>1, <3>2 DEF ClaimAttempt, IInv, TypeOK
      <3>4. row \in Attempt
        BY <3>2, <3>3, LeaseAssumption DEF NewAttempt, Request, Attempt, Status
      <3> QED
        BY <3>3, <3>4, RowAppended
    <2> QED
      BY <2>1, <2>2 DEF AttemptStep, UpdatesWait, StoreNext
  <1>4. ASSUME NEW w \in Workers, ExtractFiling(w)
        PROVE  StoreNext
    <2>1. Filing(w) \in Observations
      BY <1>0, <1>4 DEF ExtractFiling, At, FlowTyped, Filing, Task
    <2>2. held[w] \in Ids /\ Proposed[Filing(w)] \in ProposalLists
      BY <1>4, <2>1, ProposedAssumption DEF ExtractFiling, OpenStore, Processing
    <2> QED
      BY <1>4, <2>2 DEF ExtractFiling, StoreNext
  <1>5. ASSUME NEW w \in Workers, StoreStep(w) \/ StoreDone(w)
        PROVE  StoreNext
    BY <1>5 DEF StoreStep, StoreDone, StoreNext
  <1>6. ASSUME NEW w \in Workers, FinishFiling(w) \/ FinishRefused(w)
        PROVE  StoreNext
    <2>1. WorkerStep(w) /\ transaction[w] = None /\ UNCHANGED storeVars
      BY <1>0, <1>6 DEF FinishFiling, FinishRefused, WorkerStep, AllFit, Fits, At
    <2>2. UpdatesWait
      BY <1>6 DEF FinishFiling, FinishRefused, LoseAttempt, UpdatesWait
    <2> QED
      BY <2>1, <2>2 DEF AttemptStep, StoreNext
  <1>7. ASSUME NEW w \in Workers, ExtractRefused(w) \/ MarkFailedRefused(w)
        PROVE  [StoreNext]_allVars
    <2>1. /\ transaction[w] = None /\ request[w] = None /\ UNCHANGED storeVars
          /\ held' = [held EXCEPT ![w] = None] /\ UNCHANGED <<attempts, observationLock, request>>
      BY <1>0, <1>7 DEF ExtractRefused, MarkFailedRefused, AllFit, Fits, At
    <2>2. CASE held[w] = None
      BY <1>0, <2>1, <2>2 DEF IInv, TypeOK, allVars, storeVars
    <2>3. CASE held[w] # None
      <3>1. observationLock' = [o \in Observations |->
               IF observationLock[o] = w THEN None ELSE observationLock[o]]
        BY <1>0, <2>1 DEF IInv, TypeOK, LockOwned
      <3>2. Crash(w)
        BY <1>0, <2>1, <2>3, <3>1 DEF Crash, Idle, IInv, TypeOK
      <3> QED
        BY <2>1, <3>2 DEF CrashStep, StoreNext
    <2> QED
      BY <2>2, <2>3
  <1>8. ASSUME NEW w \in Workers, CrashFiling(w)
        PROVE  StoreNext
    BY <1>8 DEF CrashFiling, CrashStep, StoreNext
  <1>9. ASSUME NEW w \in Workers, WorkerProgress(w)
        PROVE  [StoreNext]_allVars
    BY <1>1, <1>2, <1>3, <1>4, <1>5, <1>6, <1>7, <1>9
       DEF WorkerProgress, FetchFails, Ingest, LookDuplicate, LookInProgress, LookFree,
           StartRefused, ProposerFails
  <1>10. ASSUME NEW w \in Workers, NEW o \in Observations, BeginFiling(w, o)
         PROVE  [StoreNext]_allVars
    BY <1>1, <1>10 DEF BeginFiling
  <1>11. CASE FlowTick \/ \E id \in Ids : OperatorExpires(id)
    BY <1>11 DEF FlowTick, OperatorExpires, StoreNext
  <1> QED
    BY <1>1, <1>8, <1>9, <1>10, <1>11 DEF FlowNext, systemVars

LEMMA FlowComposedAlways == FlowSpec => []FlowComposed
  <1>1. FlowInit => FlowComposed
    BY FlowInitEstablishes, LocksOwnedInit DEF FlowInit, StoreInit, FlowComposed
  <1>2. ASSUME FlowComposed, [FlowNext]_systemVars
        PROVE  FlowComposed'
    <2>1. FlowInv'
      BY <1>2, FlowPreserves DEF FlowComposed
    <2>2. Composed /\ [StoreNext]_allVars
      BY <1>2, FittingCallers, FlowStepsAreStoreSteps DEF FlowComposed, FlowInv, Composed
    <2>3. LockOwned'
      BY <2>2, ComposedPreserved DEF Composed
    <2> QED
      BY <2>1, <2>3 DEF FlowComposed
  <1> QED
    BY <1>1, <1>2, PTL DEF FlowSpec

-----------------------------------------------------------------------------
(* The theorems.                                                           *)

(* Every collection is at a step of the tool and, past its fetch, works on *)
(* an observation that exists; and a filing is reported no more often than *)
(* MaxCalls, which bounds the collections of all filings together.         *)
THEOREM FlowIsTyped == FlowSpec => []FlowTypeOK
  <1>1. FlowInv /\ Counts => FlowTypeOK
    <2> SUFFICES ASSUME FlowInv, Counts
                 PROVE  FlowTypeOK
      OBVIOUS
    <2>1. \A o \in Observations, r \in Results : reported[o][r] \in 0..MaxCalls
      <3> SUFFICES ASSUME NEW o \in Observations, NEW r \in Results
                   PROVE  reported[o][r] \in 0..MaxCalls
        OBVIOUS
      <3>1. reported[o][r] \in Nat
        BY DEF FlowInv, FlowTyped
      <3> QED
        BY <3>1, ActiveSize, CallsAssumption DEF Counts
    <2>2. reported \in [Observations -> [Results -> 0..MaxCalls]]
      BY <2>1 DEF FlowInv, FlowTyped
    <2> QED
      BY <2>2 DEF FlowInv, FlowTyped, Counts, FlowTypeOK
  <1>2. FlowSpec => []Counts
    BY CountsInit, CountsPreserved, FlowInductive, PTL DEF FlowSpec
  <1> QED
    BY <1>1, <1>2, FlowInductive, PTL

(* A filing whose attempt is processed, so that no later collection will   *)
(* look at it again, has every candidate its document proposes and no      *)
(* other, whatever crashed, expired or raced on the way; an attempt that   *)
(* was cut off before it could be reported has them in full or not at all. *)
THEOREM ProcessedIsExtracted == FlowSpec => []ProcessedMeansExtracted
  <1>1. FlowInv => ProcessedMeansExtracted
    BY DEF FlowInv
  <1> QED
    BY <1>1, FlowInductive, PTL

(* Whatever attempts of a filing have left candidates behind, a reviewer   *)
(* who meets the same company under two of them meets the same list: a     *)
(* retry after a crash between storing and reporting repeats, and never    *)
(* contradicts, what was stored (cli.py:272).                              *)
Stored(id) == {<<row.ordinal, row.content>> : row \in CandidatesOf(id)}

RetriesAgree ==
    \A id, other \in Ids :
        /\ attempts[id].observation = attempts[other].observation
        /\ Stored(id) # {} /\ Stored(other) # {}
        => Stored(id) = Stored(other)

THEOREM RetriesStoreTheSame == FlowSpec => []RetriesAgree
  <1>1. ASSUME ProcessedMeansExtracted, NEW id \in Ids, Stored(id) # {}
        PROVE  Stored(id) = {<<n, Proposed[attempts[id].observation][n]>> :
                               n \in DOMAIN Proposed[attempts[id].observation]}
    <2>1. CandidatesOf(id) = AllOf(id)
      BY <1>1 DEF ProcessedMeansExtracted, Stored
    <2> PICK list, stored : list = Proposed[attempts[id].observation] /\ stored = CandidatesOf(id)
      OBVIOUS
    <2>2. stored = {[attempt |-> id, ordinal |-> n, content |-> list[n]] : n \in DOMAIN list}
      BY <2>1 DEF AllOf
    <2>3. {<<row.ordinal, row.content>> : row \in stored} = {<<n, list[n]>> : n \in DOMAIN list}
      <3>1. \A row \in stored : \E n \in DOMAIN list : row.ordinal = n /\ row.content = list[n]
        BY <2>2
      <3>2. \A n \in DOMAIN list : \E row \in stored : row.ordinal = n /\ row.content = list[n]
        <4> SUFFICES ASSUME NEW n \in DOMAIN list
                     PROVE  \E row \in stored : row.ordinal = n /\ row.content = list[n]
          OBVIOUS
        <4>1. [attempt |-> id, ordinal |-> n, content |-> list[n]] \in stored
          BY <2>2
        <4> QED
          BY <4>1
      <3> QED
        BY <3>1, <3>2
    <2> QED
      BY <2>3 DEF Stored
  <1>2. ProcessedMeansExtracted => RetriesAgree
    BY <1>1 DEF RetriesAgree
  <1> QED
    BY <1>2, ProcessedIsExtracted, PTL

(* A filing reported new or duplicate is one whose extraction was finished *)
(* by somebody.                                                            *)
THEOREM ReportsStayTrue == FlowSpec => []ReportsAreTrue
  <1>1. FlowInv => ReportsAreTrue
    <2> SUFFICES ASSUME FlowInv, NEW o \in Observations,
                        reported[o]["new"] + reported[o]["duplicate"] > 0
                 PROVE  ProcessedFiling(o)
      BY DEF ReportsAreTrue, ProcessedFiling
    <2>1. reported[o]["new"] \in Nat /\ reported[o]["duplicate"] \in Nat
      BY DEF FlowInv, FlowTyped, Results
    <2> QED
      BY <2>1 DEF FlowInv, Reports
  <1> QED
    BY <1>1, FlowInductive, PTL

(* However many workers collect a filing however often, at most one        *)
(* collection reports it new.                                              *)
THEOREM NewAtMostOnce == FlowSpec => []NewOnce
  <1>1. FlowInv => NewOnce
    BY DEF FlowInv, Reports, NewOnce
  <1> QED
    BY <1>1, FlowInductive, PTL

(* The collection tool uses the two repositories as their contracts ask:   *)
(* whatever it does, refuses, lets escape or dies of is a behaviour of     *)
(* CandidateStore, and with it of ProcessingAttempts.                      *)
THEOREM CollectionImplementsStore == FlowSpec => StoreSpec
  <1>1. FlowInit => StoreInit
    BY DEF FlowInit
  <1> QED
    BY <1>1, FlowComposedAlways, FlowStepsAreStoreSteps, PTL DEF FlowSpec, StoreSpec

(* Therefore the history of attempts stays one of AttemptSeries under      *)
(* collections: linear, append-only, no live lease broken into.            *)
THEOREM CollectionKeepsHistory ==
    FlowSpec => ImplementsLifecycle /\ HistoryPreserved /\ LiveLeaseRespected /\ []LinearHistory
  BY CollectionImplementsStore, StoreImplementsAttempts, ImplementsAttemptSeries,
     HistoryIsPreserved, LiveLeaseIsRespected, HistoryIsLinear, PTL

(* And what it stores is complete, supported by the evidence, never        *)
(* changed, and never added to an attempt that has ended.                  *)
THEOREM CollectionKeepsCandidates ==
    FlowSpec => FinishedAttemptsAreFinal /\ SuccessMeansStored /\ []CompleteAndSupported
  BY CollectionImplementsStore, FinishedStayFinal, SuccessIsStorage, StoredWholeAndSupported, PTL
=============================================================================
