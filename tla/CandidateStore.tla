--------------------------- MODULE CandidateStore ---------------------------
(***************************************************************************)
(* Company candidates: what a proposer found in an observation, verified   *)
(* against the evidence and stored under the attempt that is processing it *)
(* (src/app/v2/candidates/service.py, candidates/evidence.py,              *)
(* repositories/company_candidates.py).                                    *)
(*                                                                         *)
(* One call of persist_verified_candidates is one transaction: it locks    *)
(* the attempt's row FOR SHARE, refuses an attempt that is not PROCESSING, *)
(* runs the proposer, verifies every proposal and then writes them one by  *)
(* one.  Any client may call it for any attempt, also again after a commit *)
(* whose answer was lost, also while another client does.  The attempts    *)
(* themselves are those of ProcessingAttempts; an UPDATE of a row that is  *)
(* locked FOR SHARE waits.                                                 *)
(***************************************************************************)
EXTENDS ProcessingAttempts

CONSTANTS
    Contents,          \* what a proposal may say (name and identifiers)
    Supported,         \* the contents the payload's bytes support
    ProposalLists      \* what a proposer may return: sequences of contents

ASSUME SupportedAssumption == Supported \subseteq Contents
ASSUME ProposalAssumption == ProposalLists \subseteq Seq(Contents)

VARIABLES
    candidates,        \* the committed rows of v2.company_candidate
    transaction        \* per worker: its open persist transaction, or None

storeVars == <<candidates, transaction>>
allVars == <<attempts, observationLock, request, held, candidates, transaction>>

Candidate == [attempt : Nat \ {0}, ordinal : Nat \ {0}, content : Contents]

\* written: the rows inserted so far; next: the ordinal to write now.
Transaction ==
    [attempt : Nat \ {0}, proposals : ProposalLists, next : Nat \ {0},
     written : SUBSET Candidate]

ShareLocked(id) == \E w \in Workers : transaction[w] # None /\ transaction[w].attempt = id

StoreInit == Init /\ candidates = {} /\ transaction = [w \in Workers |-> None]

-----------------------------------------------------------------------------
(* load_proposal_context, the proposer, and verify_proposal on every       *)
(* proposal.  A refusal (attempt not processing, proposer raised, evidence *)
(* does not check out) rolls back a transaction that has written nothing.  *)

VerifiedFirstOnly(proposals) == Len(proposals) > 0 => proposals[1] \in Supported

Verified(proposals) == \A n \in DOMAIN proposals : proposals[n] \in Supported

OpenStoreFromZero(w, id, proposals) ==
    /\ transaction[w] = None /\ request[w] = None
    /\ Processing(id)
    /\ Verified(proposals)
    /\ transaction' = [transaction EXCEPT ![w] =
         [attempt |-> id, proposals |-> proposals, next |-> 0, written |-> {}]]
    /\ UNCHANGED <<vars, candidates>>

OpenStore(w, id, proposals) ==
    /\ transaction[w] = None /\ request[w] = None
    /\ Processing(id)
    /\ Verified(proposals)
    /\ transaction' = [transaction EXCEPT ![w] =
         [attempt |-> id, proposals |-> proposals, next |-> 1, written |-> {}]]
    /\ UNCHANGED <<vars, candidates>>

(* One INSERT ... ON CONFLICT DO NOTHING of store_company_candidates.      *)
Row(tx) == [attempt |-> tx.attempt, ordinal |-> tx.next, content |-> tx.proposals[tx.next]]

SameKey(row, other) == row.attempt = other.attempt /\ row.ordinal = other.ordinal

\* The unique index makes the INSERT wait while another transaction has
\* inserted the same (attempt, ordinal) and not committed yet.
AwaitsOther(w, row) ==
    \E x \in Workers \ {w} :
        transaction[x] # None /\ \E other \in transaction[x].written : SameKey(row, other)

WriteCandidate(w) ==
    LET tx == transaction[w]
        row == Row(tx) IN
    /\ tx # None /\ tx.next <= Len(tx.proposals)
    /\ ~ AwaitsOther(w, row)
    /\ ~ \E other \in candidates : SameKey(row, other)
    /\ transaction' = [transaction EXCEPT ![w].next = @ + 1, ![w].written = @ \cup {row}]
    /\ UNCHANGED <<vars, candidates>>

\* The row exists: the same content is a replay, other content a conflict.
ReplaysAnything(row) == \E other \in candidates : SameKey(row, other)

Replays(row) == row \in candidates

FindCandidate(w) ==
    LET tx == transaction[w] IN
    /\ tx # None /\ tx.next <= Len(tx.proposals)
    /\ Replays(Row(tx))
    /\ transaction' = [transaction EXCEPT ![w].next = @ + 1]
    /\ UNCHANGED <<vars, candidates>>

\* candidate_ordinal_conflict: the whole call is rolled back.
ConflictingCandidate(w) ==
    LET tx == transaction[w] IN
    /\ tx # None /\ tx.next <= Len(tx.proposals)
    /\ \E other \in candidates : SameKey(Row(tx), other) /\ other # Row(tx)
    /\ transaction' = [transaction EXCEPT ![w] = None]
    /\ UNCHANGED <<vars, candidates>>

CommitPartially(w) ==
    LET tx == transaction[w] IN
    /\ tx # None
    /\ candidates' = candidates \cup tx.written
    /\ transaction' = [transaction EXCEPT ![w] = None]
    /\ UNCHANGED vars

CommitStore(w) ==
    LET tx == transaction[w] IN
    /\ tx # None /\ tx.next > Len(tx.proposals)
    /\ candidates' = candidates \cup tx.written
    /\ transaction' = [transaction EXCEPT ![w] = None]
    /\ UNCHANGED vars

-----------------------------------------------------------------------------
(* The steps of ProcessingAttempts.                                        *)

\* FOR SHARE: nobody updates the row of an attempt candidates are being
\* written for.
UpdatesWaitNot == TRUE

UpdatesWait == \A id \in Ids : ShareLocked(id) => attempts'[id] = attempts[id]

AttemptStep(w) ==
    /\ transaction[w] = None
    /\ WorkerStep(w)
    /\ UpdatesWait
    /\ UNCHANGED storeVars

ExpireStep(id) == FailExpired(id) /\ UpdatesWait /\ UNCHANGED storeVars

TickStep == Tick /\ UNCHANGED storeVars

\* A dying client loses its transaction, written rows included.
CrashStore(w) ==
    /\ transaction[w] # None
    /\ transaction' = [transaction EXCEPT ![w] = None]
    /\ held' = [held EXCEPT ![w] = None]
    /\ UNCHANGED <<attempts, observationLock, request, candidates>>

CrashStep(w) == transaction[w] = None /\ Crash(w) /\ UNCHANGED storeVars

StoreNext ==
    \/ \E w \in Workers :
         \/ \E id \in Ids, proposals \in ProposalLists : OpenStore(w, id, proposals)
         \/ WriteCandidate(w) \/ FindCandidate(w) \/ ConflictingCandidate(w)
         \/ CommitStore(w) \/ CrashStore(w)
         \/ AttemptStep(w) \/ CrashStep(w)
    \/ \E id \in Ids : ExpireStep(id)
    \/ TickStep

StoreSpec == StoreInit /\ [][StoreNext]_allVars

-----------------------------------------------------------------------------
(* Properties.                                                             *)

StoreTypeOK ==
    /\ candidates \subseteq Candidate
    /\ transaction \in [Workers -> Transaction \cup {None}]
    /\ \A row \in candidates : row.attempt \in Ids
    /\ \A w \in Workers : transaction[w] # None => transaction[w].attempt \in Ids

(* An attempt cannot end while candidates are being written for it, so     *)
(* candidates become visible only under an attempt that is PROCESSING at   *)
(* that moment: a finished attempt's candidates are final ("a terminal     *)
(* attempt cannot receive candidates and is never reopened").              *)
FinishedAttemptsAreFinalStep ==
    \A row \in candidates' \ candidates :
        attempts[row.attempt].status = "processing"

FinishedAttemptsAreFinal == [][FinishedAttemptsAreFinalStep]_allVars

(* All or nothing: the ordinals of an attempt's committed candidates are   *)
(* 1..n without a gap, and every one of them is supported by the evidence. *)
CompleteAndSupported ==
    \A row \in candidates :
        /\ row.content \in Supported
        /\ row.ordinal > 1 => \E other \in candidates :
             other.attempt = row.attempt /\ other.ordinal = row.ordinal - 1

(* A call that succeeds may be believed, first time or replay: everything  *)
(* it was asked to store is stored, with exactly the content it asked for; *)
(* and nothing stored before is changed or removed.                        *)
SuccessMeansStoredStep ==
    /\ candidates \subseteq candidates'
    /\ \A w \in Workers :
         LET tx == transaction[w] IN
         tx # None /\ CommitStore(w) =>
            \A n \in DOMAIN tx.proposals :
                [attempt |-> tx.attempt, ordinal |-> n, content |-> tx.proposals[n]]
                    \in candidates'

SuccessMeansStored == [][SuccessMeansStoredStep]_allVars
=============================================================================
