------------------------- MODULE ProcessingAttempts -------------------------
(***************************************************************************)
(* Processing attempts: the durable history of who tried to process which  *)
(* observation, under which processor version, and how it ended            *)
(* (src/app/v2/repositories/processing_attempts.py, domain/processing.py,  *)
(* domain/processing_attempt.py, migration 0005).                          *)
(*                                                                         *)
(* Workers are concurrent clients of one PostgreSQL database running READ  *)
(* COMMITTED transactions.  start_processing is two steps, because other   *)
(* workers may run between its row lock + read and its insert + commit.    *)
(* Every other operation is one guarded UPDATE, hence one step.            *)
(*                                                                         *)
(* Time is the database clock.  A lease is modelled by the ticks that      *)
(* remain of it, so that "expired" is remaining = 0 and no absolute clock  *)
(* (nor a bound on one) is needed; a NULL lease_expires_at is None.        *)
(***************************************************************************)
EXTENDS Integers, Sequences

CONSTANTS
    Observations,   \* stored observations
    Processors,     \* processor ids
    Versions,       \* version numbers of a processor version ("name.vN")
    Workers,        \* clients of the repository
    LeaseSeconds,   \* lease durations a caller may ask for
    MaxAttempts,    \* bound of the model: rows the table may hold
    None            \* SQL NULL / nothing

ASSUME VersionsAssumption == Versions \subseteq Nat
ASSUME LeaseAssumption == LeaseSeconds \subseteq Nat \ {0}
ASSUME NoneAssumption ==
    None \notin Nat /\ None \notin Workers /\ None \notin {"lease_expired", "reported"}
ASSUME BoundAssumption == MaxAttempts \in Nat

VARIABLES
    attempts,          \* the table: attempts[id] is a row, ids in insertion order
    observationLock,   \* who holds the FOR NO KEY UPDATE lock of an observation row
    request,           \* per worker: the start_processing call in progress, or None
    held               \* per worker: the id of the attempt it is working on, or None

vars == <<attempts, observationLock, request, held>>

-----------------------------------------------------------------------------
(* Rows.                                                                   *)

Terminal == {"processed", "failed", "quarantined"}
Status == {"processing"} \cup Terminal

Attempt ==
    [observation : Observations, processor : Processors, version : Versions,
     number : Nat \ {0}, status : Status, lease : Nat \cup {None},
     reason : {None, "lease_expired", "reported"}]

Request ==
    [observation : Observations, processor : Processors, version : Versions,
     latest : Nat]

ASSUME NoRequestAssumption == None \notin Request

Ids == DOMAIN attempts

\* The ids of the attempts of one (observation, processor): one series.
Series(o, p) ==
    {id \in Ids : attempts[id].observation = o /\ attempts[id].processor = p}

\* ORDER BY attempt_number DESC LIMIT 1: the rows that query may return.
IsEarliest(id, o, p) ==
    /\ id \in Series(o, p)
    /\ \A other \in Series(o, p) : attempts[id].number <= attempts[other].number

IsLatest(id, o, p) ==
    /\ id \in Series(o, p)
    /\ \A other \in Series(o, p) : attempts[other].number <= attempts[id].number

Processing(id) == id \in Ids /\ attempts[id].status = "processing"

-----------------------------------------------------------------------------
Init ==
    /\ attempts = <<>>
    /\ observationLock = [o \in Observations |-> None]
    /\ request = [w \in Workers |-> None]
    /\ held = [w \in Workers |-> None]

Idle(w) == request[w] = None /\ held[w] = None

(* domain.processing.check_may_start_attempt, given the latest attempt.    *)
MayStartBesideActive(status, latestVersion, requested) ==
    status \in {"processing", "failed"} \/ requested > latestVersion

MayStartAttempt(status, latestVersion, requested) ==
    /\ status # "processing"
    /\ status = "failed" \/ requested > latestVersion

(* start_processing up to its read: take the observation's row lock, read  *)
(* the latest attempt, and go on only if check_may_start_attempt agrees    *)
(* (a refusal rolls the transaction back: nothing changes).                *)
ReadLatest(w, o, p, v) ==
    \/ /\ Series(o, p) = {}
       /\ request' = [request EXCEPT ![w] =
            [observation |-> o, processor |-> p, version |-> v, latest |-> 0]]
    \/ \E id \in Ids :
         /\ IsLatest(id, o, p)
         /\ MayStartAttempt(attempts[id].status, attempts[id].version, v)
         /\ request' = [request EXCEPT ![w] =
              [observation |-> o, processor |-> p, version |-> v,
               latest |-> attempts[id].number]]

BeginStartUnlocked(w, o, p, v) ==
    /\ Idle(w)
    /\ ReadLatest(w, o, p, v)
    /\ observationLock' = [observationLock EXCEPT ![o] = w]
    /\ UNCHANGED <<attempts, held>>

BeginStart(w, o, p, v) ==
    /\ Idle(w)
    /\ observationLock[o] = None
    /\ ReadLatest(w, o, p, v)
    /\ observationLock' = [observationLock EXCEPT ![o] = w]
    /\ UNCHANGED <<attempts, held>>

(* The rest of start_processing: insert latest + 1 and commit, which       *)
(* releases the lock.  (The IntegrityError branches are unreachable while  *)
(* the lock is respected: that is the invariant LockSuffices.)             *)
NewAttempt(r, lease) ==
    [observation |-> r.observation, processor |-> r.processor,
     version |-> r.version, number |-> r.latest + 1,
     status |-> "processing", lease |-> lease, reason |-> None]

ClaimAttempt(w, lease) ==
    /\ request[w] # None
    /\ Len(attempts) < MaxAttempts
    /\ attempts' = Append(attempts, NewAttempt(request[w], lease))
    /\ observationLock' = [observationLock EXCEPT ![request[w].observation] = None]
    /\ request' = [request EXCEPT ![w] = None]
    /\ held' = [held EXCEPT ![w] = Len(attempts) + 1]

-----------------------------------------------------------------------------
(* _update_processing: UPDATE ... WHERE id = .. AND status = 'processing'. *)

RenewShorter(old, lease) == lease

GreatestLease(old, lease) == IF lease > old THEN lease ELSE old

RenewLease(w, lease) ==
    /\ held[w] # None
    /\ Processing(held[w])
    /\ attempts' = [attempts EXCEPT ![held[w]].lease = GreatestLease(@, lease)]
    /\ UNCHANGED <<observationLock, request, held>>

FinishKeepingLease(w, id, status, reason) ==
    /\ Processing(id)
    /\ attempts' = [attempts EXCEPT ![id] = [@ EXCEPT !.status = status, !.reason = reason]]
    /\ held' = [held EXCEPT ![w] = None]
    /\ UNCHANGED <<observationLock, request>>

FinishResurrecting(w, id, status, reason) ==
    /\ attempts' = [attempts EXCEPT ![id] =
         [@ EXCEPT !.status = status, !.lease = None, !.reason = reason]]
    /\ held' = [held EXCEPT ![w] = None]
    /\ UNCHANGED <<observationLock, request>>

Finish(w, id, status, reason) ==
    /\ Processing(id)
    /\ attempts' = [attempts EXCEPT ![id] =
         [@ EXCEPT !.status = status, !.lease = None, !.reason = reason]]
    /\ held' = [held EXCEPT ![w] = None]
    /\ UNCHANGED <<observationLock, request>>

MarkProcessed(w) == held[w] # None /\ Finish(w, held[w], "processed", None)

MarkFailed(w) == held[w] # None /\ Finish(w, held[w], "failed", "reported")

MarkQuarantined(w) == held[w] # None /\ Finish(w, held[w], "quarantined", "reported")

(* _explain_unchanged: the guarded UPDATE matched nothing because somebody *)
(* else ended the attempt; the caller gets illegal_transition and gives up.*)
LoseAttempt(w) ==
    /\ held[w] # None
    /\ ~ Processing(held[w])
    /\ held' = [held EXCEPT ![w] = None]
    /\ UNCHANGED <<attempts, observationLock, request>>

(* fail_expired_attempt(id): anyone may call it for any attempt.           *)
FailExpiredEagerly(id) ==
    /\ Processing(id)
    /\ attempts' = [attempts EXCEPT ![id] =
         [@ EXCEPT !.status = "failed", !.lease = None, !.reason = "lease_expired"]]
    /\ UNCHANGED <<observationLock, request, held>>

FailExpired(id) ==
    /\ Processing(id)
    /\ attempts[id].lease = 0
    /\ attempts' = [attempts EXCEPT ![id] =
         [@ EXCEPT !.status = "failed", !.lease = None, !.reason = "lease_expired"]]
    /\ UNCHANGED <<observationLock, request, held>>

(* A worker dies or abandons its call.  Its open transaction is rolled     *)
(* back, which releases its lock; an attempt it had committed stays        *)
(* PROCESSING.                                                             *)
Crash(w) ==
    /\ ~ Idle(w)
    /\ observationLock' = [o \in Observations |->
         IF observationLock[o] = w THEN None ELSE observationLock[o]]
    /\ request' = [request EXCEPT ![w] = None]
    /\ held' = [held EXCEPT ![w] = None]
    /\ UNCHANGED attempts

(* One unit of database time passes for every running lease.               *)
Running(id) == Processing(id) /\ attempts[id].lease > 0

Tick ==
    /\ \E id \in Ids : Running(id)
    /\ attempts' = [id \in Ids |->
         IF Running(id) THEN [attempts[id] EXCEPT !.lease = @ - 1] ELSE attempts[id]]
    /\ UNCHANGED <<observationLock, request, held>>

WorkerStep(w) ==
    \/ \E o \in Observations, p \in Processors, v \in Versions : BeginStart(w, o, p, v)
    \/ \E lease \in LeaseSeconds : ClaimAttempt(w, lease) \/ RenewLease(w, lease)
    \/ MarkProcessed(w) \/ MarkFailed(w) \/ MarkQuarantined(w)
    \/ LoseAttempt(w)

Next ==
    \/ \E w \in Workers : WorkerStep(w) \/ Crash(w)
    \/ \E id \in Ids : FailExpired(id)
    \/ Tick

Spec == Init /\ [][Next]_vars

-----------------------------------------------------------------------------
(* Properties.                                                             *)

(* Every row satisfies the table's CHECK constraints (in particular        *)
(* ck_processing_attempt_state_shape: a lease exactly while processing, a  *)
(* reason exactly for failed and quarantined attempts), and every worker   *)
(* is in at most one call.                                                 *)
StateShape(row) ==
    /\ row.lease = None <=> row.status \in Terminal
    /\ row.reason # None <=> row.status \in {"failed", "quarantined"}

TypeOK ==
    /\ attempts \in Seq(Attempt)
    /\ \A id \in Ids : StateShape(attempts[id])
    /\ observationLock \in [Observations -> Workers \cup {None}]
    /\ request \in [Workers -> Request \cup {None}]
    /\ held \in [Workers -> Ids \cup {None}]
    /\ \A w \in Workers : request[w] = None \/ held[w] = None

(* The insert of start_processing never meets a unique constraint: while a *)
(* worker is between its read and its insert, the series it read has no    *)
(* active attempt and nobody has taken the number it is about to insert.   *)
(* (The comment "only reachable if something bypassed the row lock".)      *)
LockSuffices ==
    \A w \in Workers : request[w] # None =>
        \A id \in Series(request[w].observation, request[w].processor) :
            /\ attempts[id].status # "processing"
            /\ attempts[id].number # request[w].latest + 1

(* At most one PROCESSING attempt per observation and processor, whatever  *)
(* crashed workers, expired leases and concurrent starts did               *)
(* (uq_processing_attempt_one_active).                                     *)
OneActive ==
    \A id, other \in Ids :
        /\ attempts[id].observation = attempts[other].observation
        /\ attempts[id].processor = attempts[other].processor
        /\ Processing(id) /\ Processing(other)
        => id = other

(* Attempt numbers of a series are 1, 2, 3, ... without a gap or a         *)
(* duplicate, in the order the rows were inserted (uq_processing_attempt_  *)
(* number, next_attempt_number_for).                                       *)
LinearNumbers ==
    \A id \in Ids :
        LET series == Series(attempts[id].observation, attempts[id].processor) IN
        /\ \A later \in series : id < later => attempts[id].number < attempts[later].number
        /\ attempts[id].number > 1 =>
             \E before \in series : attempts[before].number = attempts[id].number - 1

(* Whatever was started after an attempt had the right to be: the earlier  *)
(* attempt had ended, and it either failed or the successor runs under a   *)
(* LATER version (check_may_start_attempt, over the whole history).        *)
SuccessionJustified ==
    \A id, next \in Ids :
        /\ attempts[id].observation = attempts[next].observation
        /\ attempts[id].processor = attempts[next].processor
        /\ attempts[next].number = attempts[id].number + 1
        => /\ attempts[id].status \in Terminal
           /\ \/ attempts[id].status = "failed"
              \/ attempts[next].version > attempts[id].version

(* The history of a series is linear: one attempt after the other, each    *)
(* entitled to follow the one before it, although what start_processing    *)
(* decides on was read earlier and every other worker may have acted since.*)
LinearHistory == OneActive /\ LinearNumbers /\ SuccessionJustified

(* Two workers never hold the active attempt of one series: of those that  *)
(* believe they hold an attempt of it, at most one holds an attempt that   *)
(* has not ended.                                                          *)
OneEffectiveHolder ==
    \A w, x \in Workers :
        /\ held[w] # None /\ held[x] # None
        /\ Processing(held[w]) /\ Processing(held[x])
        /\ attempts[held[w]].observation = attempts[held[x]].observation
        /\ attempts[held[w]].processor = attempts[held[x]].processor
        => w = x

(* History is append-only: no row is ever removed or renumbered, what      *)
(* identifies a row never changes, a finished row is frozen, and only the  *)
(* passing of time shortens a lease (v2.processing_attempt_guard).         *)
SameIdentity(row, was) ==
    /\ row.observation = was.observation /\ row.processor = was.processor
    /\ row.version = was.version /\ row.number = was.number

HistoryPreservedStep ==
    /\ Ids \subseteq DOMAIN attempts'
    /\ \A id \in Ids :
         /\ SameIdentity(attempts'[id], attempts[id])
         /\ attempts[id].status \in Terminal => attempts'[id] = attempts[id]
         /\ attempts'[id].status = "processing" =>
              attempts'[id].lease >= attempts[id].lease \/ Tick

HistoryPreserved == [][HistoryPreservedStep]_vars

(* A live lease is respected: as long as an attempt's lease has time left, *)
(* the attempt ends only by the hand of the worker that started it and     *)
(* still holds it.                                                         *)
LiveLeaseRespectedStep ==
    \A id \in Ids :
        /\ Running(id)
        /\ attempts'[id].status # "processing"
        => \E w \in Workers : held[w] = id /\ held'[w] = None

LiveLeaseRespected == [][LiveLeaseRespectedStep]_vars

(* What mark_quarantined's docstring and the RUNBOOK promise: a processor  *)
(* version under which an observation was quarantined is never started     *)
(* again for it, nor is an older one.                                      *)
QuarantineRespected ==
    \A id, later \in Ids :
        /\ attempts[id].observation = attempts[later].observation
        /\ attempts[id].processor = attempts[later].processor
        /\ attempts[id].status = "quarantined"
        /\ attempts[later].number > attempts[id].number
        => attempts[later].version > attempts[id].version

-----------------------------------------------------------------------------
(* Refinement: what get_latest_attempt returns, series by series, behaves  *)
(* as AttemptSeries does; locks, leases, crashes and ticks are stuttering. *)

LatestOf(o, p) ==
    IF \E id \in Ids : IsLatest(id, o, p)
    THEN LET id == CHOOSE i \in Ids : IsLatest(i, o, p)
         IN  [number |-> attempts[id].number, version |-> attempts[id].version,
              status |-> attempts[id].status]
    ELSE None

AllSeries == Observations \X Processors

Lifecycle == INSTANCE AttemptSeries
    WITH latest <- [s \in AllSeries |-> LatestOf(s[1], s[2])]

\* SQL's "no row" is not a row.
ASSUME NoRowAssumption == None \notin Lifecycle!Attempt

ImplementsLifecycle == Lifecycle!Spec
=============================================================================
