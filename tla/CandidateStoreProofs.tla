------------------------ MODULE CandidateStoreProofs ------------------------
(***************************************************************************)
(* What CandidateStore promises, for every set of attempts, clients,       *)
(* contents and proposal lists.  The attempts keep the invariant of        *)
(* ProcessingAttemptsProofs; beside it, an open transaction has verified   *)
(* its proposals, has stored or found those before the next one, and works *)
(* for an attempt that the shared lock keeps PROCESSING.                   *)
(***************************************************************************)
EXTENDS CandidateStore, ProcessingAttemptsProofs

-----------------------------------------------------------------------------
(* The inductive invariant.                                                *)

StoreOpen(w) == transaction[w] # None

Asked(tx, n) == [attempt |-> tx.attempt, ordinal |-> n, content |-> tx.proposals[n]]

StoreSound(tx) ==
    /\ tx \in Transaction
    /\ Processing(tx.attempt)
    /\ Verified(tx.proposals)
    /\ tx.next <= Len(tx.proposals) + 1
    /\ \A row \in tx.written :
         \E n \in 1 .. tx.next - 1 : row = Asked(tx, n)
    /\ \A n \in 1 .. tx.next - 1 : Asked(tx, n) \in candidates \cup tx.written

StoresSound == \A w \in Workers : StoreOpen(w) => StoreSound(transaction[w])

StoreInv ==
    /\ IInv
    /\ candidates \subseteq Candidate
    /\ transaction \in [Workers -> Transaction \cup {None}]
    /\ \A row \in candidates : row.attempt \in Ids
    /\ CompleteAndSupported
    /\ StoresSound

-----------------------------------------------------------------------------
(* What the steps do to the attempts.                                      *)

\* Rows stay, and the attempt of an open transaction stays PROCESSING.
AttemptsStay ==
    /\ Ids \subseteq Ids'
    /\ \A id \in Ids : ShareLocked(id) => attempts'[id].status = attempts[id].status

LEMMA WorkerKeepsIds ==
    ASSUME IInv, NEW w \in Workers, WorkerStep(w)
    PROVE  Ids \subseteq Ids'
  <1>0. TypeOK
    BY DEF IInv
  <1>1. ASSUME NEW lease \in LeaseSeconds, ClaimAttempt(w, lease)
        PROVE  Ids \subseteq Ids'
    <2>1. PICK row : row = NewAttempt(request[w], lease)
      OBVIOUS
    <2>2. request[w] \in Request /\ attempts' = Append(attempts, row)
      BY <1>0, <1>1, <2>1 DEF ClaimAttempt, TypeOK
    <2>3. row \in Attempt
      BY <2>1, <2>2, LeaseAssumption DEF NewAttempt, Request, Attempt, Status
    <2> QED
      BY <1>0, <2>2, <2>3, RowAppended
  <1>2. ASSUME NEW lease \in LeaseSeconds, RenewLease(w, lease)
        PROVE  Ids \subseteq Ids'
    BY <1>0, <1>2, RenewKeepsRows DEF RowsKept
  <1>3. CASE MarkProcessed(w) \/ MarkFailed(w) \/ MarkQuarantined(w)
    BY <1>3 DEF MarkProcessed, MarkFailed, MarkQuarantined, Finish, Ids
  <1> QED
    BY <1>1, <1>2, <1>3 DEF WorkerStep, BeginStart, LoseAttempt, Ids

LEMMA AttemptsStayLemma ==
    ASSUME StoreInv, StoreNext
    PROVE  AttemptsStay /\ IInv'
  <1>0. IInv /\ TypeOK
    BY DEF StoreInv, IInv
  <1>1. ASSUME UNCHANGED vars
        PROVE  AttemptsStay /\ IInv'
    BY <1>0, <1>1, Inductive DEF AttemptsStay, vars, Ids
  <1>2. ASSUME NEW w \in Workers, CrashStore(w)
        PROVE  AttemptsStay /\ IInv'
    <2>1. held' \in [Workers -> Ids \cup {None}] /\ \A x \in Workers : held'[x] = held[x] \/ held'[x] = None
      BY <1>0, <1>2 DEF CrashStore, TypeOK
    <2>2. UNCHANGED <<attempts, request, observationLock>>
      BY <1>2 DEF CrashStore
    <2>3. IInv'
      BY <1>0, <2>1, <2>2, UnchangedKeepsRows, RowsKeptPreserves DEF TypeOK
    <2> QED
      BY <2>2, <2>3 DEF AttemptsStay, Ids
  <1>3. ASSUME NEW w \in Workers, AttemptStep(w)
        PROVE  AttemptsStay /\ IInv'
    <2>1. IInv'
      BY <1>0, <1>3, Inductive DEF AttemptStep, Next
    <2> QED
      BY <1>0, <1>3, <2>1, WorkerKeepsIds DEF AttemptStep, AttemptsStay, UpdatesWait
  <1>4. ASSUME NEW w \in Workers, CrashStep(w)
        PROVE  AttemptsStay /\ IInv'
    <2>1. IInv'
      BY <1>0, <1>4, Inductive DEF CrashStep, Next
    <2> QED
      BY <1>4, <2>1 DEF CrashStep, Crash, AttemptsStay, Ids
  <1>5. ASSUME NEW id \in Ids, ExpireStep(id)
        PROVE  AttemptsStay /\ IInv'
    <2>1. IInv'
      BY <1>0, <1>5, Inductive DEF ExpireStep, Next
    <2>2. RowsKept
      BY <1>0, <1>5, FailExpiredKeepsRows DEF ExpireStep
    <2> QED
      BY <1>5, <2>1, <2>2 DEF ExpireStep, AttemptsStay, UpdatesWait, RowsKept
  <1>6. ASSUME TickStep
        PROVE  AttemptsStay /\ IInv'
    <2>1. IInv'
      BY <1>0, <1>6, Inductive DEF TickStep, Next
    <2>2. RowsKept /\ \A id \in Ids : attempts'[id].status = attempts[id].status
      BY <1>0, <1>6, TickKeepsRows DEF TickStep
    <2> QED
      BY <2>1, <2>2 DEF AttemptsStay, RowsKept
  <1> QED
    BY <1>1, <1>2, <1>3, <1>4, <1>5, <1>6
       DEF StoreNext, OpenStore, WriteCandidate, FindCandidate, ConflictingCandidate, CommitStore

-----------------------------------------------------------------------------
(* What they do to the transactions and candidates.                        *)

LEMMA StoreSoundStays ==
    ASSUME NEW x \in Workers, NEW tx, StoreSound(tx), transaction'[x] = tx,
           candidates \subseteq candidates',
           tx.attempt \in Ids', attempts'[tx.attempt].status = "processing"
    PROVE  StoreSound(transaction[x])'
  BY DEF StoreSound, Processing, Asked, Ids

\* A transaction nobody touches stays sound, whatever step is taken.
LEMMA OthersStaySound ==
    ASSUME StoreInv, AttemptsStay, candidates \subseteq candidates',
           NEW x \in Workers, StoreOpen(x), transaction'[x] = transaction[x]
    PROVE  StoreSound(transaction[x])'
  <1>1. PICK tx : tx = transaction[x] /\ StoreSound(tx)
    BY DEF StoreInv, StoresSound
  <1>2. ShareLocked(tx.attempt) /\ tx.attempt \in Ids /\ attempts[tx.attempt].status = "processing"
    BY <1>1 DEF StoreOpen, ShareLocked, StoreSound, Processing
  <1> QED
    BY <1>1, <1>2, StoreSoundStays DEF AttemptsStay

\* Steps that write no candidate and replace one transaction, or none.
LEMMA NothingStored ==
    ASSUME StoreInv, AttemptsStay, IInv', UNCHANGED candidates,
           transaction' \in [Workers -> Transaction \cup {None}],
           NEW w \in Workers, \A x \in Workers \ {w} : transaction'[x] = transaction[x],
           transaction'[w] = None \/ transaction'[w] = transaction[w]
    PROVE  StoreInv'
  <1>1. StoresSound'
    <2> SUFFICES ASSUME NEW x \in Workers, StoreOpen(x)'
                 PROVE  StoreSound(transaction[x])'
      BY DEF StoresSound
    <2>1. transaction'[x] = transaction[x] /\ StoreOpen(x)
      BY DEF StoreOpen
    <2> QED
      BY <2>1, OthersStaySound
  <1>2. CompleteAndSupported'
    BY DEF StoreInv, CompleteAndSupported
  <1> QED
    BY <1>1, <1>2 DEF StoreInv, AttemptsStay

LEMMA TransactionReplaced ==
    ASSUME StoreInv, UNCHANGED <<vars, candidates>>, NEW w \in Workers, NEW tx, StoreSound(tx),
           transaction' = [transaction EXCEPT ![w] = tx]
    PROVE  StoreInv'
  <1>0. transaction \in [Workers -> Transaction \cup {None}] /\ IInv
    BY DEF StoreInv
  <1>1. AttemptsStay /\ IInv'
    BY <1>0, Inductive DEF AttemptsStay, vars, Ids
  <1>2. StoresSound'
    <2> SUFFICES ASSUME NEW x \in Workers, StoreOpen(x)'
                 PROVE  StoreSound(transaction[x])'
      BY DEF StoresSound
    <2>1. CASE x = w
      BY <1>0, <2>1, StoreSoundStays DEF StoreSound, Processing, vars, Ids
    <2>2. CASE x # w
      BY <1>0, <1>1, <2>2, OthersStaySound DEF StoreOpen
    <2> QED
      BY <2>1, <2>2
  <1>3. CompleteAndSupported'
    BY DEF StoreInv, CompleteAndSupported
  <1> QED
    BY <1>0, <1>1, <1>2, <1>3 DEF StoreInv, StoreSound, AttemptsStay

LEMMA OpenStorePreserves ==
    ASSUME StoreInv, NEW w \in Workers, NEW id \in Ids, NEW proposals \in ProposalLists,
           OpenStore(w, id, proposals)
    PROVE  StoreInv'
  <1>1. PICK tx : tx = [attempt |-> id, proposals |-> proposals, next |-> 1, written |-> {}]
    OBVIOUS
  <1>2. id \in Nat \ {0}
    BY RowTypes DEF StoreInv, IInv
  <1>3. Len(proposals) \in Nat
    BY ProposalAssumption, LenProperties
  <1>4. StoreSound(tx)
    BY <1>1, <1>2, <1>3 DEF OpenStore, StoreSound, Transaction
  <1> QED
    BY <1>1, <1>4, TransactionReplaced DEF OpenStore

\* The row to write now.
LEMMA RowFacts ==
    ASSUME StoreInv, NEW tx, StoreSound(tx), tx.next <= Len(tx.proposals)
    PROVE  /\ Row(tx) = Asked(tx, tx.next) /\ Row(tx) \in Candidate
           /\ Row(tx).content \in Supported
           /\ tx.next \in Nat \ {0} /\ Len(tx.proposals) \in Nat
  <1>1. tx.proposals \in Seq(Contents) /\ tx.next \in Nat \ {0} /\ tx.attempt \in Nat \ {0}
    BY ProposalAssumption DEF StoreSound, Transaction
  <1>2. Len(tx.proposals) \in Nat /\ DOMAIN tx.proposals = 1 .. Len(tx.proposals)
    BY <1>1, LenProperties
  <1>3. tx.next \in DOMAIN tx.proposals /\ tx.proposals[tx.next] \in Contents
    BY <1>1, <1>2, ElementOfSeq
  <1> QED
    BY <1>1, <1>2, <1>3 DEF Row, Asked, Candidate, StoreSound, Verified

LEMMA WriteCandidatePreserves ==
    ASSUME StoreInv, NEW w \in Workers, WriteCandidate(w)
    PROVE  StoreInv'
  <1>1. PICK tx : tx = transaction[w] /\ StoreSound(tx) /\ tx.next <= Len(tx.proposals)
    BY DEF WriteCandidate, StoreInv, StoresSound, StoreOpen
  <1>2. PICK row : row = Row(tx)
    OBVIOUS
  <1>3. /\ row = Asked(tx, tx.next) /\ row \in Candidate
        /\ tx.next \in Nat \ {0} /\ Len(tx.proposals) \in Nat
    BY <1>1, <1>2, RowFacts
  <1>4. PICK ty : ty = [tx EXCEPT !.next = @ + 1, !.written = @ \cup {row}]
    OBVIOUS
  <1>5. /\ ty.attempt = tx.attempt /\ ty.proposals = tx.proposals
        /\ ty.next = tx.next + 1 /\ ty.written = tx.written \cup {row} /\ ty \in Transaction
    <2>1. tx \in Transaction /\ tx.written \cup {row} \subseteq Candidate
      BY <1>1, <1>3 DEF StoreSound, Transaction
    <2>2. tx.next + 1 \in Nat \ {0}
      BY <1>3
    <2> QED
      BY <1>4, <2>1, <2>2 DEF Transaction
  <1>6. \A n : Asked(ty, n) = Asked(tx, n)
    BY <1>5 DEF Asked
  <1>7. \A r \in ty.written : \E n \in 1 .. ty.next - 1 : r = Asked(ty, n)
    BY <1>1, <1>3, <1>5, <1>6 DEF StoreSound
  <1>8. \A n \in 1 .. ty.next - 1 : Asked(ty, n) \in candidates \cup ty.written
    BY <1>1, <1>3, <1>5, <1>6 DEF StoreSound
  <1>9. StoreSound(ty)
    BY <1>1, <1>3, <1>5, <1>7, <1>8 DEF StoreSound
  <1>10. transaction' = [transaction EXCEPT ![w] = ty] /\ UNCHANGED <<vars, candidates>>
    <2>1. transaction \in [Workers -> Transaction \cup {None}] /\ tx \in Transaction
      BY <1>1 DEF StoreInv, StoreSound
    <2>2. transaction' = [transaction EXCEPT ![w] = ty]
      BY <1>1, <1>2, <1>4, <2>1 DEF WriteCandidate
    <2> QED
      BY <2>2 DEF WriteCandidate
  <1> QED
    BY <1>9, <1>10, TransactionReplaced

LEMMA FindCandidatePreserves ==
    ASSUME StoreInv, NEW w \in Workers, FindCandidate(w)
    PROVE  StoreInv'
  <1>1. PICK tx : tx = transaction[w] /\ StoreSound(tx) /\ tx.next <= Len(tx.proposals)
    BY DEF FindCandidate, StoreInv, StoresSound, StoreOpen
  <1>2. /\ Asked(tx, tx.next) \in candidates
        /\ tx.next \in Nat \ {0} /\ Len(tx.proposals) \in Nat
    BY <1>1, RowFacts DEF FindCandidate, Replays
  <1>3. PICK ty : ty = [tx EXCEPT !.next = @ + 1]
    OBVIOUS
  <1>4. /\ ty.attempt = tx.attempt /\ ty.proposals = tx.proposals
        /\ ty.next = tx.next + 1 /\ ty.written = tx.written /\ ty \in Transaction
    BY <1>1, <1>2, <1>3 DEF StoreSound, Transaction
  <1>5. \A n : Asked(ty, n) = Asked(tx, n)
    BY <1>4 DEF Asked
  <1>6. \A r \in ty.written : \E n \in 1 .. ty.next - 1 : r = Asked(ty, n)
    BY <1>1, <1>2, <1>4, <1>5 DEF StoreSound
  <1>7. \A n \in 1 .. ty.next - 1 : Asked(ty, n) \in candidates \cup ty.written
    BY <1>1, <1>2, <1>4, <1>5 DEF StoreSound
  <1>8. StoreSound(ty)
    BY <1>1, <1>2, <1>4, <1>6, <1>7 DEF StoreSound
  <1>9. transaction' = [transaction EXCEPT ![w] = ty] /\ UNCHANGED <<vars, candidates>>
    <2>1. transaction \in [Workers -> Transaction \cup {None}] /\ tx \in Transaction
      BY <1>1 DEF StoreInv, StoreSound
    <2>2. transaction' = [transaction EXCEPT ![w] = ty]
      BY <1>1, <1>3, <2>1 DEF FindCandidate
    <2> QED
      BY <2>2 DEF FindCandidate
  <1> QED
    BY <1>8, <1>9, TransactionReplaced

\* What a commit makes visible.
LEMMA CommitFacts ==
    ASSUME StoreInv, NEW w \in Workers, CommitStore(w)
    PROVE  /\ StoreSound(transaction[w]) /\ transaction[w] \in Transaction
           /\ transaction[w].proposals \in Seq(Contents)
           /\ Len(transaction[w].proposals) \in Nat
           /\ DOMAIN transaction[w].proposals = 1 .. Len(transaction[w].proposals)
           /\ transaction[w].next = Len(transaction[w].proposals) + 1
           /\ candidates' = candidates \cup transaction[w].written
  <1>1. StoreSound(transaction[w]) /\ transaction[w] \in Transaction
    BY DEF CommitStore, StoreInv, StoresSound, StoreOpen, StoreSound
  <1>2. transaction[w].proposals \in Seq(Contents) /\ transaction[w].next \in Nat
    BY <1>1, ProposalAssumption DEF Transaction
  <1>3. /\ Len(transaction[w].proposals) \in Nat
        /\ DOMAIN transaction[w].proposals = 1 .. Len(transaction[w].proposals)
    BY <1>2, LenProperties
  <1> QED
    BY <1>1, <1>2, <1>3 DEF CommitStore, StoreSound

LEMMA CommitStorePreserves ==
    ASSUME StoreInv, NEW w \in Workers, CommitStore(w)
    PROVE  StoreInv'
  <1>0. AttemptsStay /\ IInv'
    BY AttemptsStayLemma DEF StoreNext
  <1>1. PICK tx \in Transaction : tx = transaction[w]
    BY CommitFacts
  <1>2. /\ StoreSound(tx) /\ Len(tx.proposals) \in Nat /\ tx.next = Len(tx.proposals) + 1
        /\ DOMAIN tx.proposals = 1 .. Len(tx.proposals)
        /\ candidates' = candidates \cup tx.written
    BY <1>1, CommitFacts
  <1>3. \A row \in tx.written : row \in Candidate /\ row.attempt \in Ids
    BY <1>2 DEF StoreSound, Asked, Processing, Transaction
  <1>4. \A row \in tx.written :
          /\ row.content \in Supported
          /\ row.ordinal > 1 => Asked(tx, row.ordinal - 1) \in candidates'
    BY <1>2 DEF StoreSound, Asked, Verified
  <1>5. CompleteAndSupported'
    <2>1. CompleteAndSupported
      BY DEF StoreInv
    <2>2. \A row \in tx.written : Asked(tx, row.ordinal - 1).attempt = row.attempt
                                  /\ Asked(tx, row.ordinal - 1).ordinal = row.ordinal - 1
      BY <1>2 DEF StoreSound, Asked
    <2> QED
      BY <1>2, <1>4, <2>1, <2>2 DEF CompleteAndSupported
  <1>6. transaction' = [transaction EXCEPT ![w] = None]
        /\ transaction \in [Workers -> Transaction \cup {None}]
    BY DEF CommitStore, StoreInv
  <1>7. StoresSound'
    <2> SUFFICES ASSUME NEW x \in Workers, StoreOpen(x)'
                 PROVE  StoreSound(transaction[x])'
      BY DEF StoresSound
    <2>1. transaction'[x] = transaction[x] /\ StoreOpen(x)
      BY <1>6 DEF StoreOpen
    <2> QED
      BY <1>0, <1>2, <2>1, OthersStaySound
  <1> QED
    BY <1>0, <1>2, <1>3, <1>5, <1>6, <1>7 DEF StoreInv, AttemptsStay

LEMMA StorePreserves ==
    ASSUME StoreInv, [StoreNext]_allVars
    PROVE  StoreInv'
  <1>0. transaction \in [Workers -> Transaction \cup {None}]
    BY DEF StoreInv
  <1>1. CASE UNCHANGED allVars
    <2>1. IInv' /\ AttemptsStay
      BY <1>1, Inductive DEF StoreInv, allVars, vars, AttemptsStay, Ids
    <2>2. CASE Workers = {}
      BY <1>1, <2>1, <2>2 DEF StoreInv, allVars, StoresSound, CompleteAndSupported, AttemptsStay
    <2>3. CASE Workers # {}
      BY <1>0, <1>1, <2>1, <2>3, NothingStored DEF allVars
    <2> QED
      BY <2>2, <2>3
  <1>2. CASE StoreNext
    <2>0. AttemptsStay /\ IInv'
      BY <1>2, AttemptsStayLemma
    <2>1. ASSUME NEW w \in Workers, ConflictingCandidate(w) \/ CrashStore(w)
          PROVE  StoreInv'
      BY <1>0, <2>0, <2>1, NothingStored DEF ConflictingCandidate, CrashStore
    <2>2. ASSUME UNCHANGED storeVars
          PROVE  StoreInv'
      <3>1. CASE Workers = {}
        BY <2>0, <2>2, <3>1 DEF StoreInv, storeVars, StoresSound, CompleteAndSupported, AttemptsStay
      <3>2. CASE Workers # {}
        BY <1>0, <2>0, <2>2, <3>2, NothingStored DEF storeVars
      <3> QED
        BY <3>1, <3>2
    <2> QED
      BY <1>2, <2>1, <2>2, OpenStorePreserves, WriteCandidatePreserves, FindCandidatePreserves,
         CommitStorePreserves DEF StoreNext, AttemptStep, CrashStep, ExpireStep, TickStep
  <1> QED
    BY <1>1, <1>2

LEMMA StoreInitEstablishes == StoreInit => StoreInv
  <1> SUFFICES ASSUME StoreInit
               PROVE  StoreInv
    OBVIOUS
  <1>1. IInv
    BY TypeInit DEF StoreInit, Init, IInv, LockHeld, ReadIsCurrent, OlderAreTerminal,
                    LinearNumbers, SuccessionJustified, HeldByOne, Ids
  <1> QED
    BY <1>1 DEF StoreInit, StoreInv, CompleteAndSupported, StoresSound, StoreOpen

LEMMA StoreInductive == StoreSpec => []StoreInv
  BY StoreInitEstablishes, StorePreserves, PTL DEF StoreSpec

-----------------------------------------------------------------------------
(* Refinement: the attempts the candidates are stored under behave as      *)
(* ProcessingAttempts allows, transactions and shared locks or not.        *)

\* A client is in one call of the two repositories at a time.
OneCall == \A w \in Workers : transaction[w] # None => request[w] = None

Composed == StoreInv /\ LockOwned /\ OneCall

\* Letting go of an attempt without a word is what a dying client does.
LEMMA DropIsCrash ==
    ASSUME IInv, LockOwned, NEW w \in Workers, request[w] = None,
           held' = [held EXCEPT ![w] = None], UNCHANGED <<attempts, observationLock, request>>
    PROVE  [Next]_vars
  <1>1. TypeOK
    BY DEF IInv
  <1>2. CASE held[w] = None
    BY <1>1, <1>2 DEF TypeOK, vars
  <1>3. CASE held[w] # None
    <2>1. observationLock' = [o \in Observations |->
             IF observationLock[o] = w THEN None ELSE observationLock[o]]
      BY <1>1 DEF TypeOK, LockOwned
    <2>2. request' = [request EXCEPT ![w] = None]
      BY <1>1 DEF TypeOK
    <2> QED
      BY <1>3, <2>1, <2>2 DEF Crash, Idle, Next
  <1> QED
    BY <1>2, <1>3

LEMMA StoreStepsAreAttemptSteps ==
    ASSUME Composed, [StoreNext]_allVars
    PROVE  [Next]_vars
  <1>1. ASSUME NEW w \in Workers, CrashStore(w)
        PROVE  [Next]_vars
    BY <1>1, DropIsCrash DEF CrashStore, Composed, StoreInv, OneCall
  <1>2. CASE StoreNext
    BY <1>1, <1>2 DEF StoreNext, OpenStore, WriteCandidate, FindCandidate, ConflictingCandidate,
                      CommitStore, AttemptStep, CrashStep, ExpireStep, TickStep, Next
  <1> QED
    BY <1>2 DEF allVars, vars

LEMMA OneCallStays ==
    ASSUME Composed, [StoreNext]_allVars
    PROVE  OneCall'
  <1>1. /\ transaction \in [Workers -> Transaction \cup {None}]
        /\ request \in [Workers -> Request \cup {None}]
    BY DEF Composed, StoreInv, IInv, TypeOK
  <1>2. ASSUME NEW w \in Workers,
               \/ \E id \in Ids, proposals \in ProposalLists : OpenStore(w, id, proposals)
               \/ WriteCandidate(w) \/ FindCandidate(w) \/ ConflictingCandidate(w)
               \/ CommitStore(w) \/ CrashStore(w)
        PROVE  OneCall'
    <2>1. UNCHANGED request
      BY <1>2 DEF OpenStore, WriteCandidate, FindCandidate, ConflictingCandidate, CommitStore,
                  CrashStore, vars
    <2>2. \A x \in Workers \ {w} : transaction'[x] = transaction[x]
      BY <1>1, <1>2 DEF OpenStore, WriteCandidate, FindCandidate, ConflictingCandidate, CommitStore,
                        CrashStore
    <2>3. transaction'[w] # None => request[w] = None
      BY <1>1, <1>2 DEF OpenStore, WriteCandidate, FindCandidate, ConflictingCandidate, CommitStore,
                        CrashStore, Composed, OneCall
    <2> QED
      BY <2>1, <2>2, <2>3 DEF Composed, OneCall
  <1>3. ASSUME NEW w \in Workers, AttemptStep(w) \/ CrashStep(w)
        PROVE  OneCall'
    <2>1. \A x \in Workers \ {w} : request'[x] = request[x]
      BY <1>1, <1>3 DEF AttemptStep, CrashStep, Crash, WorkerStep, BeginStart, ReadLatest,
         ClaimAttempt, RenewLease, MarkProcessed, MarkFailed, MarkQuarantined, Finish, LoseAttempt
    <2> QED
      BY <1>3, <2>1 DEF AttemptStep, CrashStep, storeVars, Composed, OneCall
  <1>4. ASSUME UNCHANGED <<request, transaction>>
        PROVE  OneCall'
    BY <1>4 DEF Composed, OneCall
  <1>5. CASE StoreNext
    BY <1>2, <1>3, <1>4, <1>5
       DEF StoreNext, ExpireStep, TickStep, FailExpired, Tick, storeVars
  <1> QED
    BY <1>4, <1>5 DEF allVars

LEMMA ComposedPreserved ==
    ASSUME Composed, [StoreNext]_allVars
    PROVE  Composed'
  BY StorePreserves, StoreStepsAreAttemptSteps, LocksStayOwned, OneCallStays DEF Composed, StoreInv

LEMMA ComposedInit == StoreInit => Composed
  BY StoreInitEstablishes, LocksOwnedInit DEF StoreInit, Composed, OneCall

LEMMA ComposedAlways == StoreSpec => []Composed
  BY ComposedInit, ComposedPreserved, PTL DEF StoreSpec

-----------------------------------------------------------------------------
(* The theorems.                                                           *)

(* Rows have their types, and candidates and open transactions belong to   *)
(* attempts that exist.                                                    *)
THEOREM StoreIsTyped == StoreSpec => []StoreTypeOK
  <1>1. StoreInv => StoreTypeOK
    BY DEF StoreInv, StoreTypeOK, StoresSound, StoreSound, StoreOpen, Processing
  <1> QED
    BY <1>1, StoreInductive, PTL

(* What is stored of an attempt is complete up to its last ordinal and     *)
(* supported by the evidence, whoever stored it, in however many calls.    *)
THEOREM StoredWholeAndSupported == StoreSpec => []CompleteAndSupported
  <1>1. StoreInv => CompleteAndSupported
    BY DEF StoreInv
  <1> QED
    BY <1>1, StoreInductive, PTL

(* Candidates arrive only under an attempt that is PROCESSING when they    *)
(* are committed, not merely when it was looked at.                        *)
THEOREM FinishedStayFinal == StoreSpec => FinishedAttemptsAreFinal
  <1>1. StoreInv /\ [StoreNext]_allVars => [FinishedAttemptsAreFinalStep]_allVars
    <2> SUFFICES ASSUME StoreInv, StoreNext, NEW row \in candidates' \ candidates
                 PROVE  attempts[row.attempt].status = "processing"
      BY DEF FinishedAttemptsAreFinalStep
    <2>1. PICK w \in Workers : CommitStore(w)
      BY DEF StoreNext, OpenStore, WriteCandidate, FindCandidate, ConflictingCandidate, CrashStore,
         AttemptStep, CrashStep, ExpireStep, TickStep, storeVars
    <2>2. StoreSound(transaction[w]) /\ row \in transaction[w].written
      BY <2>1, CommitFacts
    <2> QED
      BY <2>2 DEF StoreSound, Asked, Processing
  <1> QED
    BY <1>1, StoreInductive, PTL DEF StoreSpec, FinishedAttemptsAreFinal

(* A call that succeeds has stored, or found stored, exactly what it was   *)
(* asked to store; and nothing stored is lost or changed by any step.      *)
THEOREM SuccessIsStorage == StoreSpec => SuccessMeansStored
  <1>1. StoreInv /\ [StoreNext]_allVars => [SuccessMeansStoredStep]_allVars
    <2> SUFFICES ASSUME StoreInv, StoreNext
                 PROVE  SuccessMeansStoredStep
      OBVIOUS
    <2>1. candidates \subseteq candidates'
      BY DEF StoreNext, OpenStore, WriteCandidate, FindCandidate, ConflictingCandidate, CommitStore,
         CrashStore, AttemptStep, CrashStep, ExpireStep, TickStep, storeVars
    <2>2. ASSUME NEW w \in Workers, CommitStore(w), NEW n \in DOMAIN transaction[w].proposals
          PROVE  [attempt |-> transaction[w].attempt, ordinal |-> n,
                  content |-> transaction[w].proposals[n]] \in candidates'
      <3>1. n \in 1 .. transaction[w].next - 1
        BY <2>2, CommitFacts
      <3> QED
        BY <2>2, <3>1, CommitFacts DEF StoreSound, Asked
    <2> QED
      BY <2>1, <2>2 DEF SuccessMeansStoredStep
  <1> QED
    BY <1>1, StoreInductive, PTL DEF StoreSpec, SuccessMeansStored

(* Storing candidates, under its locks and with its crashes, is a history  *)
(* of attempts like any other: every theorem of ProcessingAttemptsProofs   *)
(* holds of it.                                                            *)
THEOREM StoreImplementsAttempts == StoreSpec => Spec
  <1>1. StoreInit => Init
    BY DEF StoreInit
  <1> QED
    BY <1>1, ComposedAlways, StoreStepsAreAttemptSteps, PTL DEF StoreSpec, Spec

-----------------------------------------------------------------------------
(* Stores that wait for one another.                                       *)

\* The INSERT of w waits for the row that x has inserted and not committed.
StoreAwaits(w, x) ==
    /\ w # x /\ StoreOpen(w) /\ StoreOpen(x)
    /\ transaction[w].next <= Len(transaction[w].proposals)
    /\ \E other \in transaction[x].written : SameKey(Row(transaction[w]), other)

(* Proposals are inserted in the order of their ordinals: an INSERT of     *)
(* store_company_candidates only waits for a transaction of the same       *)
(* attempt that has come further, so waits form no cycle of any length.    *)
WaitsPointForward ==
    \A w, x \in Workers :
        StoreAwaits(w, x) =>
            /\ transaction[w].attempt = transaction[x].attempt
            /\ transaction[w].next < transaction[x].next

THEOREM StoresNeverDeadlock == StoreSpec => []WaitsPointForward
  <1>1. ASSUME StoreInv
        PROVE  WaitsPointForward
    <2> SUFFICES ASSUME NEW w \in Workers, NEW x \in Workers, StoreAwaits(w, x)
                 PROVE  /\ transaction[w].attempt = transaction[x].attempt
                        /\ transaction[w].next < transaction[x].next
      BY DEF WaitsPointForward
    <2>1. StoreSound(transaction[w]) /\ StoreSound(transaction[x])
      BY <1>1 DEF StoreInv, StoresSound, StoreAwaits
    <2>2. PICK other \in transaction[x].written : SameKey(Row(transaction[w]), other)
      BY DEF StoreAwaits
    <2>3. PICK n \in 1 .. transaction[x].next - 1 : other = Asked(transaction[x], n)
      BY <2>1, <2>2 DEF StoreSound
    <2>4. transaction[w].attempt = transaction[x].attempt /\ transaction[w].next = n
      BY <2>2, <2>3 DEF SameKey, Row, Asked
    <2> QED
      BY <2>1, <2>3, <2>4 DEF StoreSound, Transaction
  <1> QED
    BY <1>1, StoreInductive, PTL DEF StoreSpec
=============================================================================
