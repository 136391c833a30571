-------------------------- MODULE FilingCollection --------------------------
(***************************************************************************)
(* One filing, start to (candidate) finish: fetch, ingest, start an        *)
(* attempt, extract company candidates, end the attempt                    *)
(* (src/app/v2/tools/cli.py, _collect_and_extract_one and the batch that   *)
(* calls it), composed with the attempts and candidates it works on.       *)
(*                                                                         *)
(* A worker is a place where the tool is run again and again; it works     *)
(* through filings one at a time, and an exception that escapes ends one   *)
(* invocation.  Between any two of its steps another worker, a crash or an *)
(* operator's fail_expired_attempt may come.  An observation stands for    *)
(* the filing whose bytes it holds: collecting a filing again finds the    *)
(* same bytes.                                                             *)
(***************************************************************************)
EXTENDS CandidateStore, FiniteSets

CONSTANTS
    Proposed,    \* Proposed[o]: what the proposer returns for o's document,
                 \* or Raises if it raises
    Raises,
    MaxCalls     \* bound of the model: collections begun, over all workers

ASSUME ProposedAssumption ==
    Proposed \in [Observations -> ProposalLists \cup {Raises}]

\* The one processor and version the tool starts attempts for.
ASSUME OneProcessorAssumption == Cardinality(Processors) = 1 /\ Versions = {1}

ASSUME CallsAssumption == MaxCalls \in Nat

Extractor == CHOOSE p \in Processors : TRUE

VARIABLES
    ingested,    \* observations that exist
    task,        \* per worker: the filing and step it is at, or None
    reported,    \* reported[o][r]: how many collections of o ended with r
    calls        \* collections begun so far

flowVars == <<ingested, task, reported, calls>>
systemVars == <<allVars, flowVars>>

Steps == {"fetch", "look", "start", "claim", "extract", "store", "finish", "fail"}

Task == [filing : Observations, step : Steps]

ASSUME NoTaskAssumption == None \notin Task

\* How a collection ends; "raised" is an exception that escapes it.
Results == {"new", "duplicate", "failed", "raised"}

FlowInit ==
    /\ StoreInit
    /\ ingested = {}
    /\ task = [w \in Workers |-> None]
    /\ reported = [o \in Observations |-> [r \in Results |-> 0]]
    /\ calls = 0

At(w, step) == task[w] # None /\ task[w].step = step

Filing(w) == task[w].filing

Goto(w, step) ==
    /\ task' = [task EXCEPT ![w] = [@ EXCEPT !.step = step]]
    /\ UNCHANGED <<reported, calls>>

Report(w, result) ==
    /\ reported' = [reported EXCEPT ![Filing(w)][result] = @ + 1]
    /\ task' = [task EXCEPT ![w] = None]
    /\ UNCHANGED calls

-----------------------------------------------------------------------------
BeginIngested(w, o) ==
    /\ task[w] = None /\ calls < MaxCalls
    /\ task' = [task EXCEPT ![w] = [filing |-> o, step |-> "look"]]
    /\ calls' = calls + 1
    /\ UNCHANGED <<allVars, ingested, reported>>

BeginFiling(w, o) ==
    /\ task[w] = None /\ calls < MaxCalls
    /\ task' = [task EXCEPT ![w] = [filing |-> o, step |-> "fetch"]]
    /\ calls' = calls + 1
    /\ UNCHANGED <<allVars, ingested, reported>>

(* CollectionError while fetching, or any exception while ingesting.       *)
FetchFails(w) ==
    /\ At(w, "fetch")
    /\ Report(w, "failed")
    /\ UNCHANGED <<allVars, ingested>>

\* ingest_evidence stores the observation or finds it.
Ingest(w) ==
    /\ At(w, "fetch")
    /\ ingested' = ingested \cup {Filing(w)}
    /\ Goto(w, "look")
    /\ UNCHANGED allVars

(* get_latest_attempt, before any lock: what it says may be stale by the   *)
(* time the worker acts on it.                                             *)
LatestStatus(o) ==
    IF Series(o, Extractor) = {} THEN "none"
    ELSE attempts[CHOOSE id \in Ids : IsLatest(id, o, Extractor)].status

LookDuplicateWhileProcessing(w) ==
    /\ At(w, "look")
    /\ LatestStatus(Filing(w)) \in {"processed", "processing"}
    /\ Report(w, "duplicate")
    /\ UNCHANGED <<allVars, ingested>>

LookDuplicate(w) ==
    /\ At(w, "look")
    /\ LatestStatus(Filing(w)) = "processed"
    /\ Report(w, "duplicate")
    /\ UNCHANGED <<allVars, ingested>>

LookInProgressWaiting(w) == FALSE

LookInProgress(w) ==
    /\ At(w, "look")
    /\ LatestStatus(Filing(w)) = "processing"
    /\ Report(w, "failed")
    /\ UNCHANGED <<allVars, ingested>>

LookFree(w) ==
    /\ At(w, "look")
    /\ LatestStatus(Filing(w)) \notin {"processed", "processing"}
    /\ Goto(w, "start")
    /\ UNCHANGED <<allVars, ingested>>

(* start_processing: refused if somebody started or finished an attempt    *)
(* since the look; nothing in the tool catches that refusal.               *)
StartFiling(w) ==
    /\ At(w, "start")
    /\ BeginStart(w, Filing(w), Extractor, 1)
    /\ Goto(w, "claim")
    /\ UNCHANGED <<storeVars, ingested>>

StartRefused(w) ==
    /\ At(w, "start")
    /\ observationLock[Filing(w)] = None
    /\ \E id \in Ids :
         /\ IsLatest(id, Filing(w), Extractor)
         /\ ~ MayStartAttempt(attempts[id].status, attempts[id].version, 1)
    /\ Report(w, "raised")
    /\ UNCHANGED <<allVars, ingested>>

ClaimFiling(w) ==
    /\ At(w, "claim")
    /\ \E lease \in LeaseSeconds : ClaimAttempt(w, lease)
    /\ Goto(w, "extract")
    /\ UNCHANGED <<storeVars, ingested>>

(* persist_verified_candidates, outcome by outcome.                        *)
ExtractFiling(w) ==
    /\ At(w, "extract")
    /\ Proposed[Filing(w)] # Raises
    /\ OpenStore(w, held[w], Proposed[Filing(w)])
    /\ Goto(w, "store")
    /\ UNCHANGED ingested

ProposerFails(w) ==
    /\ At(w, "extract")
    /\ Processing(held[w])
    /\ Proposed[Filing(w)] = Raises
    /\ Goto(w, "fail")
    /\ UNCHANGED <<allVars, ingested>>

(* attempt_not_processing (the attempt was failed behind the worker's      *)
(* back) or a proposal the evidence does not support: neither is caught.   *)
ExtractRefused(w) ==
    /\ At(w, "extract")
    /\ \/ ~ Processing(held[w])
       \/ Proposed[Filing(w)] # Raises /\ ~ Verified(Proposed[Filing(w)])
    /\ Report(w, "raised")
    /\ held' = [held EXCEPT ![w] = None]
    /\ UNCHANGED <<attempts, observationLock, request, storeVars, ingested>>

StoreStep(w) ==
    /\ At(w, "store")
    /\ WriteCandidate(w) \/ FindCandidate(w)
    /\ UNCHANGED flowVars

StoreDone(w) ==
    /\ At(w, "store")
    /\ CommitStore(w)
    /\ Goto(w, "finish")
    /\ UNCHANGED ingested

FinishFiling(w) ==
    /\ At(w, "finish")
    /\ MarkProcessed(w) /\ UpdatesWait
    /\ Report(w, "new")
    /\ UNCHANGED <<storeVars, ingested>>

\* illegal_transition out of mark_processed: not caught.
FinishRefused(w) ==
    /\ At(w, "finish")
    /\ LoseAttempt(w)
    /\ Report(w, "raised")
    /\ UNCHANGED <<storeVars, ingested>>

(* mark_failed(detail_code = the exception's class name).  The validation  *)
(* of a detail code accepts lowercase machine codes only, and the name of  *)
(* a Python exception class is none: InvalidInputError escapes, before the *)
(* UPDATE, so the attempt stays PROCESSING.                                *)
MarkFailedRefused(w) ==
    /\ At(w, "fail")
    /\ Report(w, "raised")
    /\ held' = [held EXCEPT ![w] = None]
    /\ UNCHANGED <<attempts, observationLock, request, storeVars, ingested>>

-----------------------------------------------------------------------------
CrashFiling(w) ==
    /\ task[w] # None
    /\ CrashStore(w) \/ (transaction[w] = None /\ Crash(w) /\ UNCHANGED storeVars)
    /\ task' = [task EXCEPT ![w] = None]
    /\ UNCHANGED <<ingested, reported, calls>>

\* An operator (nothing in the tool does it) fails an expired attempt.
OperatorExpires(id) == ExpireStep(id) /\ UNCHANGED flowVars

FlowTick == TickStep /\ UNCHANGED flowVars

WorkerProgress(w) ==
    \/ FetchFails(w) \/ Ingest(w)
    \/ LookDuplicate(w) \/ LookInProgress(w) \/ LookFree(w)
    \/ StartFiling(w) \/ StartRefused(w) \/ ClaimFiling(w)
    \/ ExtractFiling(w) \/ ProposerFails(w) \/ ExtractRefused(w)
    \/ StoreStep(w) \/ StoreDone(w)
    \/ FinishFiling(w) \/ FinishRefused(w) \/ MarkFailedRefused(w)

FlowNext ==
    \/ \E w \in Workers :
         \/ \E o \in Observations : BeginFiling(w, o)
         \/ WorkerProgress(w)
         \/ CrashFiling(w)
    \/ \E id \in Ids : OperatorExpires(id)
    \/ FlowTick

(* A process that is not dead keeps running, and PostgreSQL grants a lock  *)
(* that keeps becoming free to whoever waits for it.  Nothing makes an     *)
(* operator expire attempts.                                               *)
FlowSpec == FlowInit /\ [][FlowNext]_systemVars /\ \A w \in Workers : SF_systemVars(WorkerProgress(w))

-----------------------------------------------------------------------------
(* Properties.                                                             *)

FlowTypeOK ==
    /\ ingested \subseteq Observations
    /\ task \in [Workers -> Task \cup {None}]
    /\ \A w \in Workers : task[w] # None /\ task[w].step # "fetch" => Filing(w) \in ingested
    /\ reported \in [Observations -> [Results -> 0..MaxCalls]]
    /\ calls \in 0..MaxCalls

(* What "processed" is worth: an attempt that is processed, so that no     *)
(* later collection will look at the filing again, has every candidate its *)
(* document proposes, and no other.  The same is true of any attempt that  *)
(* has candidates at all: a worker that dies, or loses its attempt, before *)
(* it reports leaves them in full or not at all, and the retry, which      *)
(* stores them again under its own attempt, cannot disagree with it.       *)
CandidatesOf(id) == {row \in candidates : row.attempt = id}

AllOf(id) ==
    LET proposals == Proposed[attempts[id].observation] IN
    {[attempt |-> id, ordinal |-> n, content |-> proposals[n]] : n \in DOMAIN proposals}

ProcessedMeansExtracted ==
    \A id \in Ids : attempts[id].status = "processed" \/ CandidatesOf(id) # {} =>
        /\ Proposed[attempts[id].observation] # Raises
        /\ CandidatesOf(id) = AllOf(id)

(* The batch report is truthful: a filing reported new or duplicate has a  *)
(* processed attempt (and so, with ProcessedMeansExtracted, candidates).   *)
ReportsAreTrue ==
    \A o \in Observations :
        reported[o]["new"] + reported[o]["duplicate"] > 0 =>
            \E id \in Ids :
                attempts[id].observation = o /\ attempts[id].status = "processed"

(* A filing is reported new at most once over all workers and all time: no *)
(* two collections both extract it to the end.                             *)
NewOnce == \A o \in Observations : reported[o]["new"] <= 1

(* Every collection of a filing comes to an end, whatever locks it meets.  *)
TasksEnd == \A w \in Workers : task[w] # None ~> task[w] = None

(* _collect_and_extract_one "never raises for a single filing's ordinary   *)
(* failure modes (network/parse/etc.)" (cli.py:229).                       *)
NeverRaises == \A o \in Observations : reported[o]["raised"] = 0
=============================================================================
