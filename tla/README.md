# VentureGPS V2: a verification project

TLA+ modules, TLC configurations and TLAPS proofs for the evidence and
canonical-data core of VentureGPS (`app/v2` in the repository; paths below are
relative to `src/app/v2` unless they begin with `app/`), and for the part of the
older application that grants access to startups. The repository is the reference: every definition was
translated from its source, and `PROJECT.json` names the lines each one stands
for.

VentureGPS collects regulatory filings, stores their exact bytes as evidence,
lets extractors propose *candidates* from them, and lets people (or one narrow
rule) *promote* candidates to canonical companies. The programs that do this are
short-lived processes - a command-line tool, a cron entry, a review API - which
share nothing but a PostgreSQL database running READ COMMITTED transactions.
There is no daemon and no queue: row locks, partial unique indexes, guarded
updates and leases carry the whole burden of concurrency and recovery. That
burden is what is modelled here.

## 1. Inventory

| Component | State | Operations | What makes it correct |
|---|---|---|---|
| Processing attempts (`repositories/processing_attempts.py`, `domain/processing.py`) | table `processing_attempt`: rows with number, version, status, lease | `start_processing`, `renew_lease`, `mark_processed / failed / quarantined`, `fail_expired_attempt` | one active attempt, linear history, finished rows frozen, a live lease respected, a quarantine honoured |
| Company candidates (`candidates/service.py`, `candidates/evidence.py`, `repositories/company_candidates.py`) | `company_candidate` and its identifiers | `persist_verified_candidates` (one transaction of many inserts) | all or nothing, supported by the evidence, idempotent, nothing added to a finished attempt |
| Collection of one filing (`tools/cli.py`) | none of its own; a sequence of transactions over the parts above | fetch, ingest, look, start, extract, store, finish | "processed" means extracted; the report is true; nothing stays locked |
| Collection runs (`repositories/collection_runs.py`, `tools/scheduled_collection.py`) | `collection_run`: one row per bounded batch, with a lease | `start_run`, `renew_lease`, `complete_run`, `recover_interrupted_runs`, `run_bounded_collection` | one running row per job, truthful and permanent history, every run ends |
| Resolution and promotion (`resolution/*`, `repositories/companies.py`, migration 0007) | `resolution_decision`, `company`, `company_name`, `company_identifier` | create, attach (human or rule), reject, defer | one final decision, one owner per identifier, all or nothing, authority for every fact, no operation stuck |
| Evidence ingestion (`ingestion/service.py`, `repositories/{sources,raw_payloads,observations,sightings}.py`) | sources, payloads, observations, sightings | `ingest_evidence`, registration and activation of sources | append-only, deduplicated, atomic, nothing from an inactive source, true answers |
| Startup claims and venture graduation (`app/database/db.py`, endpoints in `app/api.py`) | `startups`, `startup_claims`, `startup_memberships`, `venture_graduations` | claim, approve, reject, cancel; graduate a venture; analyses that create startups; deletion of ventures | access only by a decision, nobody admits himself to a stranger's company, a crash locks nobody out, a founder who keeps asking is served |
| SEC collector (`tools/sec_form_d_collector.py`) | none | `fetch` with bounded retries, discovery | bounded time and attempts, only classified errors |
| Financing candidates and resolution | events and their facts | create, attach, reject, defer with a fact selection | one value per fact and event, facts of the same company |
| Lifecycle candidates and resolution | name history, status, acquisitions, successors | accept, reject, defer | the same promises for lifecycle facts |
| Classification and markets | classifications | `classify_company` | one primary market per taxonomy version |
| Capital metrics and signal | none (pure) | aggregation of canonical facts | equality with the definition in the docs |
| Migrations and their lock (`migrations/env.py`, `db/locks.py`) | advisory lock, version table | upgrade, downgrade | mutual exclusion with a bounded wait |
| HTTP APIs, Evidence Engine, evidence v1, legacy application, AI scoring, calibration, dashboard | | | outside the core; reasons in section 8 |

**How they interact.** `run_bounded_collection` opens a run, discovers filings
and calls `_collect_and_extract_one` for each. That function ingests the filing
(an *observation*), starts an *attempt* for it, runs the proposer inside
`persist_verified_candidates`, which locks the attempt's row and stores the
*candidates*, and then ends the attempt. Later, in another process, a reviewer
or the exact-identifier rule resolves a candidate. Each arrow is one or more
transactions, and other processes run between any two of them. Beside this, the
web application lets a founder turn a modeled venture into a startup: its
requests are sequences of short transactions over tables of their own.

**What is hard.** Two processes between read and write of the same series; a
worker that outlives its lease; a process that dies between two transactions;
inserts that wait for each other's unique keys, in opposite orders; decisions
taken on rows that were looked up some statements earlier; client clocks that
disagree with the database's. The list, with lines, is `"hazards"` in
`PROJECT.json`; each entry names the properties that would fail, or says why
there is none.

## 2. Modules

```
AttemptSeries                    what the history promises (abstract)
     ^ refined by
ProcessingAttempts               attempts, locks, leases, crashes
     ^ extended by
CandidateStore                   candidates written under an attempt
     ^ extended by
FilingCollection                 the workflow that drives both; it implements
                                 CandidateStore, and that ProcessingAttempts

EvidenceLog                      what evidence promises (abstract)
     ^ refined by
EvidenceStore                    ingestion: payload, observation, sighting

JobHistory                       what an operator reads of a job (abstract)
     ^ refined by
CollectionRuns                   batches, their lock and their lease

Canon                            decisions one at a time (abstract)
     ^ refined by
Resolution                       promotion to canonical companies

Access                           who may be admitted, by whom (abstract)
     ^ refined by
Graduation                       claims, memberships, ventures that become startups

ProcessingAttemptsProofs         theorems (TLAPS), each module EXTENDS the one
     ^ extended by               it is about
CandidateStoreProofs
     ^ extended by
FilingCollectionProofs
EvidenceStoreProofs, CollectionRunsProofs, ResolutionProofs, GraduationProofs

MC*                              instances for TLC
```

### ProcessingAttempts
`attempts` is the table in insertion order. `start_processing` is two steps,
`BeginStart` (row lock on the observation, read of the latest attempt, the
domain's permission check) and `ClaimAttempt` (insert and commit), because
others run in between; `observationLock` and `request` are what is held
meanwhile. Each other operation is one guarded `UPDATE ... WHERE status =
'processing'`, hence one action: `RenewLease`, `MarkProcessed`, `MarkFailed`,
`MarkQuarantined`, `FailExpired`. `LoseAttempt` is the caller that finds its
guarded update matched nothing. `held` is the attempt id a worker has in a local
variable, which may be stale. `Crash` ends a worker anywhere: its transaction is
rolled back, what it committed stays. Time is the number of ticks a lease has
left, so *expired* is `lease = 0` and no absolute clock has to be bounded.

Abstracted: the validation of ids and versions, `detail_code` (present where it
matters, in FilingCollection), timestamps, and the explicit `as_of` of
`fail_expired_attempt` (production passes none).

### AttemptSeries
The abstract specification of one series: a first attempt, an end, another
attempt that follows only a failure or carries a later version. No
transactions, locks, leases or crashes. `ImplementsLifecycle` says that
`get_latest_attempt`, series by series, behaves like this; the mapping is
`LatestOf`.

### CandidateStore
One call of `persist_verified_candidates` is a transaction over several steps.
`OpenStore` is the `FOR SHARE` lock, the refusal of an attempt that is not
processing, the proposer and the verification of *every* proposal; then one
`INSERT .. ON CONFLICT DO NOTHING` per ordinal, which inserts (`WriteCandidate`),
finds the row (`FindCandidate`, a replay) or finds a different one
(`ConflictingCandidate`), and waits (`AwaitsOther`) while another open transaction
holds the same key; `CommitStore` makes all of it visible. `UpdatesWait` is the
effect of the shared lock on the attempt's row: every step of ProcessingAttempts
that would change that row waits. Any worker may store for any attempt, as the
repository function allows, not only the one that started it.

Abstracted: bytes, hashes and locators become the set `Supported` of contents
the evidence supports; identifiers are part of a content.

### FilingCollection
`_collect_and_extract_one` step by step, on top of the actions above. `task[w]`
is the program counter; `LookDuplicate`, `LookInProgress` and `LookFree` are the
unlocked look at the latest attempt, whose answer may be old when `StartFiling`
acts on it. Every exception the function does not catch is an action that ends
in the result `"raised"`: `StartRefused`, `ExtractRefused`, `FinishRefused`,
`MarkFailedRefused`. `OperatorExpires` is `fail_expired_attempt`; it is enabled
but never fair, because nothing in the tool calls it. `reported` counts the
results per filing. A collection reports "new" rather than "duplicate" at the
end because each fetch has its own acquisition key, so `is_replay` is false.

### EvidenceStore
`ingest_evidence` statement by statement. `ingesting[c]` is a collector's open
transaction: the step it is at and what its statements inserted or found.
`LockSource` is the `FOR SHARE` look at the source; from there to the end
`ShareLocked` makes `UpdateSource` wait, the single update behind
`deactivate_source`, `reactivate_source` and `mark_source_as_test`. Each of the
three `INSERT .. ON CONFLICT DO NOTHING` waits while another transaction holds its
key (`WaitsFor`) and then inserts its own row (`StorePayload`,
`InsertObservation`, `InsertSighting`) or reads the other's (`FindObservation`,
`FindSighting`). `CommitIngestion` makes all of it visible and gives the
`IngestionResult`; `CrashIngestion` rolls back. An identity with and one without
`source_record_identifier` fall under two partial indexes; `None` being a value
of its own, `IdentityOf` is both.

Abstracted: a content stands for its bytes and their hash; `described` for the
collector and its version, which an observation and a sighting both keep (the
type, the event time and the media types are kept by an observation only and are
compared the same way); `differs` says whether `differences` is empty; a source
is its two flags, because nothing in ingestion reads its name, URL or type.

### EvidenceLog
The abstract specification of evidence: `Observe` and `SightAgain`, each one
step and only from a source that is active in that step, and `Switch`. The
refinement mapping is the identity on the tables; what it hides is the
transactions, their locks and the moment between the look at the source and the
commit.

### Graduation
A request is a sequence of transactions (`request[w].step`), one action each,
with two exceptions where other requests can come between the statements of one
transaction: `InsertStartup` holds the unique key of the name (`NameLocked`) until
`TagStartup` adds the founder's claim and commits both, and `create_startup_claim`
reads (`ClaimReadsMember`, `ClaimReadsPending`) before it inserts (`InsertClaim`,
`ClaimDuplicate`). `request[w].claim` is the claim id a request carries from one
transaction to a later one; that id may be stale by then. `Approve` is
`approve_startup_claim`, used by the reviewer and by the founder's own request;
`RefuseClaim` is both rejecting and cancelling. `startups[name]` remembers how the
startup came about (a history variable: the code has no such column, which is
why it must rely on the tag of a claim). `CrashRequest` and `Restart` are the
death and restart of the process; a request lost in that way is sent again by the
founder.

Abstracted: a startup is its normalized name, and startups are not deleted;
requests that their first statement answers change nothing and are left out; two
consecutive looks at the membership, after an approval and in
`create_startup_claim`, are one, since memberships are never removed; the claims
of a user and startup are ordered by insertion, where the code orders by
`submitted_at`, the start of the inserting transaction.

### Access
The abstract specification of access to startups: a startup appears by an
analysis, or is founded by the graduation of a venture and then comes with its
founder's claim; users file claims, one pending at a time; a claim is decided
once, and admission is by the reviewer, or by the founder on a startup of his own
graduation; a venture graduates if its founder has access or was refused it on the
way. Each is one step. `ImplementsAccess` says that the tables of Graduation, read
as they are, behave like this. What it hides is `request`: transactions, the ids
carried between them, races and deaths.

### CollectionRuns
Each invocation goes through `RecoverFirst`, `StartRun` or `StartRunRefused`,
discovery (or its failure, or the dry run), one `CollectFiling` per filing and
`FinishRun`. `Complete` contains the two ways in which `complete_run` fails at
the database: the row is no longer running, or `completed_at` (client clock)
lies before `started_at` (database clock). `ClockLag` is how many ticks the
client's clock is behind. `DetailIsValid` is the bound of `result_detail`,
counted in filing results. `Renews` says whether processes call `renew_lease`:
nothing in the repository does, but it is a public operation, so the main run
allows it and the overlap run, which is about the repository as it is, does not.

### JobHistory
What an operator reads of a job: runs that come one after the other, each of
which ends once, completed with an account of every filing or interrupted without
one. The mapping, `Shown`, leaves out the lease, the clocks and the
private knowledge of processes. A completion is any change of one running row
that satisfies `Account`, which holds of the *new* row: that the counts a process
carries in its memory add up to it is what the refinement has to show.

### Resolution
One action per SQL statement. A transaction carries what the code holds in local
variables: identifiers still to be looked up (`unseen`), those found free
(`fresh`), the companies the rule matched (`matched`), and the rows it inserted
and has not committed (`named`, `owned`). `Locked` is the row lock on the
candidate, `GuardAccepts` the trigger `resolution_decision_guard`, which looks
again when the decision is inserted. `WaitsFor` is the wait of an insert for
another transaction's uncommitted key; `DeadlockVictim` is PostgreSQL aborting
any member of a cycle of waits. The committed tables are `decisions`, `names`
and `owners`; a company is identified by the candidate it was created from.

Abstracted: normalization is the function `Normal` given as a constant (the
instance has two spellings of one identifier); reason codes and authority ids;
the `Connection` variants, where the caller's transaction is a savepoint.

### Canon
What readers of the canonical data are promised: candidates are decided one after
the other, each decision at once with everything it accepts. `Create` finds
no owner of any of the candidate's identifiers, `Attach` no owner but its company,
`AttachByRule` a company that owns one of them at that moment. The mapping is the
identity on the committed tables. `ImplementsCanon` thereby says that the
statements of concurrent promotions, their look-ups before their inserts and the
guard before its commit are serializable as far as the tables show, although the
transactions are only READ COMMITTED. That the company of a rule is the *only*
match is not part of Canon: it is true when the guard looks, being one of the
guard's own conditions, and may cease to be before the commit.

### The triggers behind the code
Migrations 0005, 0006, 0007 and 0011 also install triggers that forbid deletes
and updates of finished rows, and that re-check who accepted a name or an
identifier. They repeat what the application is meant to do anyway, and are left
out on purpose (except `resolution_decision_guard`, whose second look takes part
in the protocol): the properties then say that the application code itself keeps
history and authority intact, and a mutant of that code is not rescued by a
trigger.

## 3. Runs

| Run | Module / cfg | Shows |
|---|---|---|
| `attempts` | MCProcessingAttempts | type, lock sufficiency, linear history (one active attempt, numbers in order, justified succession), one effective holder, history preserved, live leases respected, refinement of AttemptSeries |
| `quarantine` (violated) | MCQuarantine.cfg | a quarantined version is started again once a later version has failed |
| `candidates` | MCCandidateStore | complete and supported, no candidates under a finished attempt, success means stored |
| `filings` | MCFilingCollection | reports are true, extracted in full or not at all, extracted once, every collection ends |
| `never_raises` (violated) | MCNeverRaises.cfg | a proposer failure escapes the function that promises not to raise |
| `collection_runs` | MCCollectionRuns | one effective collector, truthful history, refinement of JobHistory, live runs respected, every run ends |
| `overlap` (violated) | MCOverlap.cfg | two processes collect for one job at once after a lease, never renewed, has run out |
| `result_detail` (violated) | MCResultDetail.cfg | a batch whose summary is too long leaves its run running |
| `resolution` | MCResolution | one final decision, one owner, authority for every fact, resolved in full, an accepted identifier traces to one proposal, refinement of Canon, every operation ends |
| `evidence` | MCEvidenceStore | nothing stored in part, checks thought unreachable are, answers are true, refinement of EvidenceLog, every ingestion ends |
| `graduation` | MCGraduation | access is entitled, refinement of Access, only a refusal of his claim locks a founder out, founders are served |
| `graduated_members` (violated) | MCGraduatedMembers.cfg | a claim refused at the wrong moment leaves a graduated venture without membership |

**Bounds, and why they suffice.**
`attempts`: two workers, one observation under two processors (so that one row
lock covers two series), versions 1 and 2, leases of 1 and 2 ticks, three rows.
Two workers show every race of a row lock; three rows give a first attempt, a
retry and a retry of the retry, or two series of different length; two lease
lengths let a renewal be shorter and longer than what remains. `candidates`: two
clients, two attempts, and a proposer that may return nothing, one company, a
longer list, a contradicting one, or a list whose second member the evidence does
not support. `filings`: two workers, three collections, a filing whose proposer
succeeds and one whose proposer raises; three collections allow a race followed
by a retry. `collection_runs`: two invokers of one job, two rows, discoveries of
two and three filings with room for two results, leases of 1 and 2 ticks, a lag
of one tick. `resolution`: two workers, three candidates; two share their name
and two identifiers in opposite orders, once spelled differently, and one of them
shares a third identifier with the third candidate; that same one spells one of
its own identifiers twice and so collides with itself, while the other candidate
with that identifier may be committed before, after or between its look-ups. That
is the least instance in which a deadlock, an ambiguous rule match, an identifier
conflict after a clean look-up, a candidate that can never be accepted and an
alias race all occur. `evidence`: two collectors and four
commands about the same bytes - one acquisition, the same with another clock and
description, a later sighting, and the bytes from another source without a record
identifier; every pair of them meets at a different subset of the three keys, and
only the payload is shared across sources. `graduation`: two founders, a venture
each, one name that both and an analysis want, two requests at a time, and one
claim that may be refused; `graduated_members` needs no claim by hand and allows
two refusals: the first brings the founder to the branch that creates a second
claim, the second meets that claim. Symmetry (workers, processors) is used
in `attempts` only, which checks no liveness.

`CHECK_DEADLOCK FALSE` is set everywhere: the bounded tables fill up, processes
are then allowed to stop, and nobody is obliged to resolve anything.

**Fairness.**
- `FilingCollection`: strong fairness of the progress of each worker. A process
  that is not dead executes its next statement; where it waits for a row lock or
  a unique key that becomes free again and again, PostgreSQL's lock queue lets it
  through. Beginning a collection, ticks and operators are not fair, and
  `TasksEnd` holds without them.
- `CollectionRuns`: weak fairness of invoking (the cron service), of each
  process's progress and of time; strong fairness of `RecoverFirst`: not every
  invocation dies before its first statement. Renewals are not fair in either
  direction: a process that renews for ever without progressing is excluded by
  the fairness of its progress only.
- `Resolution` and `EvidenceStore`: strong fairness of the statements of a
  transaction, for the same reason as above. Nobody has to begin one.
- `Graduation`: weak fairness of serving a request and of restarting a dead
  process; strong fairness of `Retry`, the founder sending his request again when
  a worker is free again and again; and processes do not die for ever
  (`<>[][~ Crash]`), which is what a deployment has to provide for anything to
  get done. Reviewers, analyses and claimants owe nothing. `FounderIsServed` lists
  the legitimate reasons for not being served (`Declined`).

ProcessingAttempts and CandidateStore claim no liveness; an expired attempt is
released only by hand, and it is an action property that nothing else ends it.

## 4. What the runs found

1. **Quarantine is forgotten** (`quarantine`). `mark_quarantined` promises that
   the version is never retried automatically, but `check_may_start_attempt`
   sees the latest attempt only: quarantined under v1, failed under v2, and v1
   may start again (`domain/processing.py:89`). How far the promise does reach is
   proved: `ReopenedByFailureOnly` and `QuarantineHoldsInOneVersion` in section 5.
2. **An extraction failure cannot be recorded** (`never_raises`).
   `mark_failed(.., detail_code=exc.exception_type)` passes a class name such as
   `ValueError`; a detail code must be a lowercase machine code, so
   `InvalidInputError` escapes, the batch is aborted and the attempt stays
   processing (`tools/cli.py:277`; the same pattern is at 327, 405 and 442).
3. **A slow run overlaps its successor** (`overlap`). Nothing calls
   `renew_lease`, which exists so that this cannot happen.
4. **Two bounds for one column** (`result_detail`). `result_detail` is cut at
   20000 characters and then validated with a limit of 4000; some twenty-four
   duplicate filings suffice, and the run stays running until its lease ends.
5. **Graduated without access** (`graduated_members`). The result of the
   self-approval is not looked at (`app/database/db.py:7353`): if a reviewer
   rejects the claim, or the founder cancels it in another tab, between its
   creation and its approval, the venture is linked although the founder is no
   member, the state that `create_venture_graduation` calls unreachable. What
   does hold is `LinkHasAccess`: it takes a refused claim of that founder.

Seen while modelling, without a run: a crash between storing candidates and
marking the attempt leaves it processing until an operator acts, and a retry then
stores the candidates once more, the same ones, under its own attempt; two identifiers of one
candidate that normalize alike make it unacceptable for good, with an error that
says one "already belongs to a different company" (`promotion.py:85`), as it also
does when a concurrent transaction made the identifier the same company's;
a founder whose process died with his claim pending, and whose claim is rejected or
cancelled before he tries again, is stuck, although the comment at
`app/database/db.py:7330` speaks of claims "rejected or cancelled by an admin between
attempts" and of creating a fresh one "rather than leaving the founder stuck": that
branch is reached only if the refusal falls inside the retry, after its resolve;
between attempts the resolve itself raises `StartupNameCollisionError` (7165), since
7153 recognizes pending and approved claims only (`NeverLockedOut` states this as
its one exception, and `FounderIsServed` excepts it too);
two tabs that graduate one venture under different names create two startups, and
the second answers with its own startup id beside the name of the first; the
deletion of a venture while it is being graduated is reported as "already linked to
a different venture", because every remaining `IntegrityError` is taken for that;
a member may come to have a pending claim (a membership granted between the two
reads of `create_startup_claim`), although `get_startup_claim_status_for_user`
argues that membership prevents a second claim.

## 5. What is proved

`ProcessingAttemptsProofs` proves the following for **every** set of
observations, processors, versions (natural numbers), workers and lease durations
and every bound on the table:

| Theorem | States |
|---|---|
| `TypeCorrect` | `[]TypeOK`, including the table's state-shape constraint |
| `LockIsSufficient` | `[]LockSuffices`: the unique-constraint branches are unreachable |
| `HistoryIsLinear` | `[]LinearHistory`, the conjunction of the next three |
| `OneActiveAlways` | `[]OneActive` |
| `NumbersAreLinear` | `[]LinearNumbers` |
| `SuccessionIsJustified` | `[]SuccessionJustified` |
| `OneHolderIsEffective` | `[]OneEffectiveHolder` |
| `HistoryIsPreserved` | `HistoryPreserved` (action property) |
| `LiveLeaseIsRespected` | `LiveLeaseRespected` (action property) |
| `LocksHaveOwners` | a row lock is held only by a worker in a call on that row |
| `ReopenedByFailureOnly` | after an attempt that was processed or quarantined, its version or an older one comes back only once a later version has failed |
| `QuarantineHoldsInOneVersion` | if there is one version, `[]QuarantineRespected` |
| `ImplementsAttemptSeries` | `Spec => ImplementsLifecycle`, the refinement |

**Assumptions.** The named `ASSUME`s of ProcessingAttempts: versions are naturals,
leases are positive, the bound is a natural, and `None` is none of the values it
stands beside (no number, worker, reason, request or row). TLC evaluates them in the runs.

**The argument.** None of the properties is inductive. `IInv` adds what makes
them so: a worker between its read and its insert holds the lock it took
(`LockHeld`); what it read is therefore still the truth - every row of the series
is terminal, none has a greater number, and the one with that number justifies
the request (`ReadIsCurrent`); only the youngest row of a series can be
unfinished (`OlderAreTerminal`); and a row id is held by one worker
(`HeldByOne`). The steps fall into three classes. Steps that rewrite rows without
adding one (`RenewLease`, `Finish`, `FailExpired`, `Tick`) are handled once, by
`RowsKept`: identities stay, finished rows stay, and everything in `IInv` depends
on nothing else (`RowsKeptPreserves`). `BeginStart` establishes `ReadIsCurrent`
for its worker. `ClaimAttempt` uses it to keep numbers linear and successions
justified. For the refinement, `LatestIsUnique` makes `LatestOf` well defined,
and each step maps to `First`, `Another`, `End` or a stutter.

`check_may_start_attempt` looks at one row, the promises of the docstrings are about
whole histories. `OnlyAFailureReopens` is the strongest history property that looking
at one row keeps: a new row either follows the old one directly, and then has a
later version; or the latest row has a later version than the old one, and then it
has failed; or the detour lies behind that row already. For one version per
processor, which is what `tools/cli.py` uses today, no detour exists.

`CandidateStoreProofs` and `FilingCollectionProofs` build on it, for every proposer
and every set of contents and evidence:

| Theorem | States |
|---|---|
| `StoreIsTyped` | `[]StoreTypeOK` |
| `StoredWholeAndSupported` | `[]CompleteAndSupported` |
| `FinishedStayFinal` | `FinishedAttemptsAreFinal` (action property) |
| `SuccessIsStorage` | `SuccessMeansStored` (action property) |
| `ProcessedIsExtracted` | `[]ProcessedMeansExtracted` |
| `ReportsStayTrue` | `[]ReportsAreTrue` |
| `NewAtMostOnce` | `[]NewOnce` |
| `FlowIsTyped` | `[]FlowTypeOK` |
| `RetriesStoreTheSame` | two attempts at one filing that have candidates have the same |
| `StoreImplementsAttempts` | `StoreSpec => Spec` |
| `StoresNeverDeadlock` | `[]WaitsPointForward`: an insert only waits for a transaction of its attempt that is further on |
| `CollectionImplementsStore` | `FlowSpec => StoreSpec` |
| `CollectionKeepsHistory` | under `FlowSpec`: `ImplementsLifecycle`, `HistoryPreserved`, `LiveLeaseRespected`, `[]LinearHistory` |
| `CollectionKeepsCandidates` | under `FlowSpec`: `FinishedAttemptsAreFinal`, `SuccessMeansStored`, `[]CompleteAndSupported` |

**Assumptions.** What the evidence supports is among the contents, a proposer
returns a sequence of contents or raises, the tool has one processor in one
version (it starts every attempt with version 1), the bound on collections is a
natural, and `None` is no task.

**The argument.** `StoreInv` says of an open transaction that the rows before its
`next` are written by it or committed (`StoreSound`), and that its attempt is
processing: that outlives the steps of others because every step that would
change the attempt waits for the shared lock (`AttemptsStay`). `FlowInv` adds that
what a worker holds belongs to the filing it is at (`Fits`), that stored
candidates are those the attempt's document proposes, and `OlderHaveFailed`: with
one version, only a failed attempt is followed by another, so a filing with a
finished attempt never gets a second one. Looks before any lock may be stale, but a
"processed" they saw is final. Steps that neither finish an attempt nor
store a candidate are handled once (`QuietPreserves`). `ProcessedMeansExtracted` is
stated of every attempt that was processed *or has any candidate*, which is what
makes retries agree: candidates are committed all at once, so an attempt has what
its document proposes or nothing.

The three specifications form a chain, `FlowSpec => StoreSpec => Spec =>
ImplementsLifecycle`, with identities for mappings, fairness aside. That is not
immediate although the modules extend each other: the composed actions conjoin
several steps at once, and the death of a process in the workflow is, below, now a
`Crash` of its attempt, now a `CrashStore` of its transaction, now nothing at all. With
the chain, what was proved of a part is inherited by the whole: the last two
theorems need no invariant of their own.

`FlowIsTyped` contains a count: a filing is reported no more often than the bound on
the collections, of whichever filing. `Counts` says that the reports of a filing with one result and the
workers still busy (`Active`) are together no more than the collections begun; a
report adds one to the former and takes one worker out of the latter. Cardinality facts of finite sets are cited from the library, so no
induction is needed.

`EvidenceStoreProofs`, for every set of sources, records, contents, commands and
collectors:

| Theorem | States |
|---|---|
| `EvidenceIsTyped` | `[]EvidenceTypeOK` |
| `EvidenceStaysWhole` | `[]EvidenceIsWhole` |
| `AnswersStayTrue` | `[]AnswersAreTrue` |
| `ImplementsLog` | `EvidenceSpec => ImplementsEvidenceLog`, the refinement |
| `EvidenceNeverDeadlocks` | `[]WaitsEnd`: no two ingestions wait for each other, and behind every wait some transaction past its payload can go on |

`EvidenceNeverDeadlocks` and `StoresNeverDeadlock` are why `Resolution` has a
`DeadlockVictim` and the two stores have none: both insert in one order, while two
resolutions may insert identifiers in opposite orders.

**Assumptions.** Commands are commands, and `None` is no row and no transaction.

**The argument.** `TxSound` says what the later statements of a transaction may
rely on: the source it locked is still active; what it inserted is in no table,
what it found is in one; a new payload comes with a new observation, and that with
a new sighting. No two open transactions have inserted the same key
(`TransactionsApart`), because the second inserter waits. When one commits, its
rows therefore conflict with nothing another has inserted, and the commit is one
`Observe` or `SightAgain` of EvidenceLog (or a stutter); every other step is a
stutter or a `Switch`.

`CollectionRunsProofs`, for every set of processes and jobs, all leases, lags and
discoveries:

| Theorem | States |
|---|---|
| `RunsAreTyped` | `[]RunsTypeOK` |
| `OneCollectorIsEffective` | `[]OneEffectiveCollector` |
| `HistoryStaysTruthful` | `[]HistoryIsTruthful` |
| `LiveRunIsRespected` | `LiveRunRespected` (action property) |
| `ImplementsHistory` | `RunsSpec => ImplementsJobHistory`, the refinement |
| `RunHistoryIsPreserved` | `RunHistoryPreserved` (action property; the refinement implies it, so no run checks it) |

**Assumptions.** Every process works for a job; leases are positive; a filing's
result is one of four; the client's clock is behind by no more than any lease;
`None` is no number and no string.

**The argument.** A run is known to the process that started it and to no other
(`KnownToOne`); while that process is at work its row is running or was declared
interrupted by somebody else (`RunUndecided`); one row per job is running
(`OneRunning`). Two processes at work for one job thus have different rows, and one
of these is interrupted, which the guard of `complete_run` refuses. `RowsKept` is
again what all steps that add no row have in common. For the refinement,
`OverallIsAccount` derives the account of a completion from what its process
counted (the results it collected are as many as the filings it discovered), steps
that touch only leases, clocks or processes are stutters (`UnseenSteps`), and a
recovery is one `Interrupt` of several runs.

`ResolutionProofs`, for every set of candidates with any names, identifiers and
spellings, and any number of workers:

| Theorem | States |
|---|---|
| `ResolutionIsTyped` | `[]ResolutionTypeOK` |
| `OneFinalDecisionEach` | `[]OneFinalDecision` |
| `OneOwnerEach` | `[]OneOwner` |
| `FactsHaveAuthority` | `[]EveryFactHasAuthority` |
| `NothingIsForgotten` | `[]ResolvedInFull` |
| `ImplementsAtomicDecisions` | `ResolutionSpec => ImplementsCanon`, the refinement |
| `CanonOnlyGrows` | `CanonIsAppendOnly` (action property; the refinement implies it, so no run checks it) |
| `LineageStaysUnique` | `[]LineageIsUnique`: an accepted identifier traces to exactly one proposal |

**Assumptions.** A candidate proposes a sequence of identifiers; `None` is neither
candidate nor worker.

**The argument.** The invariant gives every open transaction five facts (`Sound`):
its candidate is unresolved, since it has the row lock; its fields have the shape
its operation gives them; what it will insert and has inserted is what its
candidate proposes; for a person's decision every identifier is still to be looked
up, still to be inserted, the company's already, or inserted here (`Accounted`);
and no committed row has a key it has inserted (`Clear`). Look-ups may be out of
date in one direction only: an identifier once owned keeps its owner, so "found
as the company's" lasts, while "found free" is decided again by the unique index
at the insert. Transactions hold different candidates and different keys
(`Apart`). At the commit these are exactly the conjuncts of the properties.

`LineageStaysUnique` needs one more invariant, `DoublesPend`. The code compares no two
spellings; what refuses a candidate with two spellings of one identifier is that,
as long as nobody owns it, the transaction has both before it, or has one before it
and the other inserted. Each look-up moves a spelling from `unseen` to `fresh`, each
insert from `fresh` to `owned`, and the second insert meets the first. If another
transaction commits the identifier meanwhile, the owner traces to that one's candidate,
and the two spellings are no longer this one's to insert.

For the refinement every step but a commit is a stutter, and a commit is one step of
Canon. Three more facts say which: a company is named after the candidate it was created
from (`CreatedFromItself`), the company of a rule owns
an identifier of the candidate and always will (`RuleMatched`), and the values of
the rows to be committed are the candidate's values that nobody owns yet
(`AcceptedValues`), which is `Accounted` and `Clear` read at the end of the
transaction.

`GraduationProofs` proves, for every set of users, ventures, names and workers and
every number of refusals:

| Theorem | States |
|---|---|
| `GraduationIsTyped` | `[]GraduationTypeOK` |
| `AccessHasReasons` | `[]AccessIsEntitled`: self-approval only on a startup of one's own graduation; a linked venture's founder is a member or was refused |
| `CrashLocksNobodyOut` | `[]NeverLockedOut`: the founder of a startup is a member, or his latest graduation claim is pending, so that a retry takes it up, or that very claim was rejected or cancelled |
| `ImplementsRights` | `GraduationSpec => ImplementsAccess`, the refinement |
| `DecisionsGrantAccess` | `DecisionsGrant` (action property; the refinement implies it, so no run checks it) |

**Assumptions.** Every venture has an owner and a wanted name; the reviewer is no
user, and `None` is neither; `Dead` is not `None`.

**The argument.** What a request read in an earlier transaction may be stale; the
invariant `IInv` says what stays true all the same. Tables only grow (`Grows`): a
startup keeps its origin, a claim its method, a decided claim everything, a member
his membership, so ownership, refusal and membership, once established, last
(`Lasting`). Four facts do the rest. A claim tagged as a graduation's exists only on
a startup of the claimant's own graduation, and only such a claim is approved by its
claimant (`TagsAreTrue`). Between inserting a startup and tagging it the name belongs
to one request (`TagIsExclusive`); hence the tag is never wrong. A claim id carried
from one transaction to a later one is that of a graduation claim of the request's
own pair, and a request that is about to link has seen a membership or a claim that
was refused meanwhile (`Justified`). And an approved claim comes with its membership
(`ApprovedAreMembers`), by which the silent no-op of `approve_startup_claim` on a
decided claim either finds a member or a refusal. `CrashLocksNobodyOut` needs a fifth:
a startup that a graduation created has a graduation claim of its founder, both being
committed at once (`FounderHasClaim`).
The latest such claim is pending, refused, or approved, and then
`ApprovedAreMembers` applies. `StepPreserves` reduces each
action to what it changes.

The refinement needs one invariant more, `Rooted`: nobody has a claim on, or access
to, a startup that is not there, and a request for a graduation is about a venture
of its own user. The first makes the founding of a startup a founding also in
Access, where it must meet no earlier claim; the second outlives the deletion of
the venture while the request runs. A self-approval with a stale id is a stutter if
the claim was decided meanwhile, and `Admit` otherwise.

**Out of the prover's reach,** and left to TLC: the liveness properties (`TasksEnd`,
`RunsEnd`, `OperationsEnd`, `IngestionsEnd`, `FounderIsServed`), which rest on
fairness and `ENABLED`; induction over data structures; recursive operators (no
module uses any). Every invariant, action property and refinement that a passing
run checks is also a theorem.

## 6. Mutants

Every property of a passing run has a mutant in `PROJECT.json`: a plausible bug in
one mapped definition (a dropped lock, a missing status guard, an eager expiry, a
check of the first proposal only, a commit before the last identifier) under which
TLC must report that property violated. The mutated forms stand next to the
definitions they replace, under names that say what is wrong with them.

## 7. Plan

Done: ProcessingAttempts with AttemptSeries, CandidateStore, FilingCollection,
CollectionRuns with JobHistory, Resolution with Canon, EvidenceStore with
EvidenceLog, and Graduation with Access, each with its proofs.

Next, in this order:

1. **FactPromotion**: financing and lifecycle resolution with a fact selection;
   several candidates onto one event against the one-value-per-fact indexes.
   What it shares with Resolution is already checked and proved there.
2. **MigrationLock**: try-lock, poll and deadline.
3. **CapitalSignal**: the metrics as operators, against a reference definition.
4. **Proofs**: the safety half of the liveness arguments (what decreases with each
   step of a transaction), and for new modules what section 5 has for the old ones.

## 8. Not modelled, and why

- **HTTP APIs** (`v2/api.py`, `v2_review_api.py`): each endpoint validates, calls
  one modelled operation and renders the answer.
- **Evidence Engine, evidence v1, AI scoring**: sequential pipelines around model
  calls and scoring in real arithmetic; no shared state beyond one insert.
- **The rest of the legacy application** (`app/api.py`, `app/database/db.py`
  outside claims and graduation): mostly one guarded statement per endpoint over
  separate tables. The lock on a user's parallel analyses (`analysis_runs`) has
  the protocol of `collection_run` and would repeat its model; what differs, an
  end without a guard on the status, is listed among the hazards.
- **SEC collector**: one thread, at most three attempts, capped sleeps. Its outcome
  is a choice in FilingCollection and CollectionRuns.
- **Financing, lifecycle, classification**: further instances of the candidate and
  decision protocols (section 7).
- **Calibration, benchmarks, reliability, dashboard, CI**: data, experiments and
  presentation.
- **Parsing of Form D documents, hashing, media sniffing, URL checks**: pure
  conversions; where their outcome matters it is a constant (`Proposed`,
  `Supported`) or a choice (`FetchFails`).
