----------------------- MODULE ProcessingAttemptsProofs -----------------------
(***************************************************************************)
(* Theorems about ProcessingAttempts, for every set of observations,       *)
(* processors, versions, workers and lease durations.                      *)
(***************************************************************************)
EXTENDS ProcessingAttempts, SequenceTheorems, TLAPS

(***************************************************************************)
(* The inductive invariant: the properties proved, and why they persist.   *)
(***************************************************************************)

\* A worker between its read and its insert holds the row lock it took.
LockHeld ==
    \A w \in Workers : request[w] # None =>
        observationLock[request[w].observation] = w

\* What such a worker read is still the truth when it inserts.
ReadIsCurrent ==
    \A w \in Workers : request[w] # None =>
        LET r == request[w]
            series == Series(r.observation, r.processor) IN
        /\ \A id \in series :
             /\ attempts[id].status \in Terminal
             /\ attempts[id].number <= r.latest
             /\ attempts[id].number = r.latest =>
                  attempts[id].status = "failed" \/ r.version > attempts[id].version
        /\ r.latest # 0 => \E id \in series : attempts[id].number = r.latest

\* Only the youngest row of a series can be unfinished.
OlderAreTerminal ==
    \A id, later \in Ids :
        /\ attempts[id].observation = attempts[later].observation
        /\ attempts[id].processor = attempts[later].processor
        /\ id < later
        => attempts[id].status \in Terminal

\* An attempt is held by the worker that started it and by nobody else.
HeldByOne ==
    \A w, x \in Workers : held[w] # None /\ held[w] = held[x] => w = x

IInv ==
    /\ TypeOK
    /\ LockHeld
    /\ ReadIsCurrent
    /\ OlderAreTerminal
    /\ LinearNumbers
    /\ SuccessionJustified
    /\ HeldByOne

-----------------------------------------------------------------------------
(* Type correctness.                                                       *)

LEMMA RowTypes ==
    ASSUME TypeOK
    PROVE  /\ Ids = 1..Len(attempts)
           /\ Len(attempts) \in Nat
           /\ \A id \in Ids : attempts[id] \in Attempt
  BY LenProperties, ElementOfSeq DEF TypeOK, Ids

LEMMA TypeInit == Init => TypeOK
  BY DEF Init, TypeOK, Ids

\* Rewriting one row keeps the table a table.
LEMMA RowRewritten ==
    ASSUME TypeOK, NEW id \in Ids, NEW row \in Attempt,
           attempts' = [attempts EXCEPT ![id] = row]
    PROVE  /\ attempts' \in Seq(Attempt)
           /\ Ids' = Ids
           /\ attempts'[id] = row
           /\ \A other \in Ids : other # id => attempts'[other] = attempts[other]
  <1>1. id \in 1..Len(attempts)
    BY RowTypes
  <1>2. attempts' \in Seq(Attempt)
    BY <1>1, ExceptSeq DEF TypeOK
  <1> QED
    BY <1>1, <1>2 DEF Ids, TypeOK
-----------------------------------------------------------------------------
(* Steps that add no row: RenewLease, Finish, FailExpired, Tick, and those *)
(* that leave the table alone.                                             *)

RowsKept ==
    /\ attempts' \in Seq(Attempt)
    /\ Ids' = Ids
    /\ \A id \in Ids :
         /\ SameIdentity(attempts'[id], attempts[id])
         /\ StateShape(attempts'[id])
         /\ attempts[id].status \in Terminal => attempts'[id] = attempts[id]

LEMMA UnchangedKeepsRows ==
    ASSUME TypeOK, UNCHANGED attempts
    PROVE  RowsKept
  BY DEF RowsKept, TypeOK, Ids, SameIdentity

LEMMA RenewKeepsRows ==
    ASSUME TypeOK, NEW w \in Workers, NEW lease \in LeaseSeconds, RenewLease(w, lease)
    PROVE  /\ RowsKept
           /\ attempts'[held[w]].lease >= attempts[held[w]].lease
           /\ \A id \in Ids : id # held[w] => attempts'[id] = attempts[id]
           /\ \A id \in Ids : attempts'[id].status = attempts[id].status
  <1> DEFINE id == held[w]
             row == [attempts[id] EXCEPT !.lease = GreatestLease(@, lease)]
  <1>1. id \in Ids /\ attempts[id].status = "processing" /\ attempts[id] \in Attempt
    BY RowTypes DEF RenewLease, Processing, TypeOK
  <1>2. attempts[id].lease \in Nat /\ lease \in Nat
    BY <1>1, LeaseAssumption DEF Attempt, TypeOK, StateShape, Terminal
  <1>3. GreatestLease(attempts[id].lease, lease) \in Nat
        /\ GreatestLease(attempts[id].lease, lease) >= attempts[id].lease
    BY <1>2 DEF GreatestLease
  <1>4. row \in Attempt
    BY <1>1, <1>3 DEF Attempt
  <1>5. attempts' = [attempts EXCEPT ![id] = row]
    BY DEF RenewLease
  <1>6. /\ attempts' \in Seq(Attempt) /\ Ids' = Ids /\ attempts'[id] = row
        /\ \A other \in Ids : other # id => attempts'[other] = attempts[other]
    BY <1>1, <1>4, <1>5, RowRewritten
  <1>7. /\ SameIdentity(row, attempts[id]) /\ StateShape(row)
        /\ row.lease >= attempts[id].lease /\ row.status = attempts[id].status
    BY <1>1, <1>3, NoneAssumption DEF SameIdentity, StateShape, Attempt, Terminal, TypeOK
  <1> QED
    BY <1>1, <1>6, <1>7 DEF RowsKept, TypeOK, SameIdentity, Terminal

LEMMA FinishKeepsRows ==
    ASSUME TypeOK, NEW w \in Workers, NEW id,
           NEW status \in Terminal, NEW reason \in {None, "reported"},
           reason # None <=> status \in {"failed", "quarantined"},
           Finish(w, id, status, reason)
    PROVE  /\ RowsKept
           /\ id \in Ids /\ attempts'[id].status = status
           /\ \A other \in Ids : other # id => attempts'[other] = attempts[other]
  <1> DEFINE row == [attempts[id] EXCEPT !.status = status, !.lease = None, !.reason = reason]
  <1>1. id \in Ids /\ attempts[id].status = "processing" /\ attempts[id] \in Attempt
    BY RowTypes DEF Finish, Processing
  <1>2. row \in Attempt
    BY <1>1 DEF Attempt, Status
  <1>3. attempts' = [attempts EXCEPT ![id] = row]
    BY DEF Finish
  <1>4. /\ attempts' \in Seq(Attempt) /\ Ids' = Ids /\ attempts'[id] = row
        /\ \A other \in Ids : other # id => attempts'[other] = attempts[other]
    BY <1>1, <1>2, <1>3, RowRewritten
  <1>5. SameIdentity(row, attempts[id]) /\ StateShape(row) /\ row.status = status
    BY <1>1 DEF SameIdentity, StateShape, Attempt
  <1> QED
    BY <1>1, <1>4, <1>5 DEF RowsKept, TypeOK, SameIdentity, Terminal

LEMMA FailExpiredKeepsRows ==
    ASSUME TypeOK, NEW id, FailExpired(id)
    PROVE  /\ RowsKept
           /\ id \in Ids /\ attempts[id].lease = 0 /\ attempts'[id].status = "failed"
           /\ \A other \in Ids : other # id => attempts'[other] = attempts[other]
  <1> DEFINE row == [attempts[id] EXCEPT
                       !.status = "failed", !.lease = None, !.reason = "lease_expired"]
  <1>1. id \in Ids /\ attempts[id].status = "processing" /\ attempts[id] \in Attempt
    BY RowTypes DEF FailExpired, Processing
  <1>2. row \in Attempt
    BY <1>1 DEF Attempt, Status, Terminal
  <1>3. attempts' = [attempts EXCEPT ![id] = row]
    BY DEF FailExpired
  <1>4. /\ attempts' \in Seq(Attempt) /\ Ids' = Ids /\ attempts'[id] = row
        /\ \A other \in Ids : other # id => attempts'[other] = attempts[other]
    BY <1>1, <1>2, <1>3, RowRewritten
  <1>5. SameIdentity(row, attempts[id]) /\ StateShape(row) /\ row.status = "failed"
    BY <1>1, NoneAssumption DEF SameIdentity, StateShape, Attempt, Terminal
  <1> QED
    BY <1>1, <1>4, <1>5 DEF RowsKept, TypeOK, SameIdentity, Terminal, FailExpired
LEMMA TickKeepsRows ==
    ASSUME TypeOK, Tick
    PROVE  RowsKept /\ \A id \in Ids : attempts'[id].status = attempts[id].status
  <1> DEFINE after(id) ==
               IF Running(id) THEN [attempts[id] EXCEPT !.lease = @ - 1] ELSE attempts[id]
  <1>1. \A id \in Ids :
          /\ after(id) \in Attempt
          /\ SameIdentity(after(id), attempts[id])
          /\ StateShape(after(id))
          /\ attempts[id].status \in Terminal => after(id) = attempts[id]
          /\ after(id).status = attempts[id].status
    <2> SUFFICES ASSUME NEW id \in Ids
                 PROVE  /\ after(id) \in Attempt
                        /\ SameIdentity(after(id), attempts[id])
                        /\ StateShape(after(id))
                        /\ attempts[id].status \in Terminal => after(id) = attempts[id]
                        /\ after(id).status = attempts[id].status
      OBVIOUS
    <2>1. attempts[id] \in Attempt /\ StateShape(attempts[id])
      BY RowTypes DEF TypeOK
    <2>2. CASE ~ Running(id)
      BY <2>1, <2>2 DEF SameIdentity
    <2>3. CASE Running(id)
      <3>1. attempts[id].lease \in Nat \ {0} /\ attempts[id].status = "processing"
        BY <2>1, <2>3 DEF Running, Processing, StateShape, Attempt, Terminal
      <3>2. after(id) = [attempts[id] EXCEPT !.lease = attempts[id].lease - 1]
        BY <2>3
      <3>3. attempts[id].lease - 1 \in Nat
        BY <3>1
      <3>4. after(id) \in Attempt
        BY <2>1, <3>2, <3>3 DEF Attempt
      <3>5. StateShape(after(id))
        BY <2>1, <3>1, <3>2, <3>3, NoneAssumption DEF StateShape, Attempt, Terminal
      <3> QED
        BY <2>1, <3>1, <3>2, <3>4, <3>5 DEF SameIdentity, Terminal, Attempt
    <2> QED
      BY <2>2, <2>3
  <1>2. attempts' = [id \in 1..Len(attempts) |-> after(id)]
    BY RowTypes DEF Tick
  <1>3. attempts' \in [1..Len(attempts) -> Attempt]
    BY <1>1, <1>2, RowTypes
  <1>4. attempts' \in Seq(Attempt)
    BY <1>3, RowTypes, SeqDef
  <1>5. Ids' = Ids
    BY <1>2, RowTypes DEF Ids
  <1>6. \A id \in Ids : attempts'[id] = after(id)
    BY <1>2, RowTypes
  <1> QED
    BY <1>1, <1>4, <1>5, <1>6 DEF RowsKept

(***************************************************************************)
(* The history part of the invariant depends on identities and on which    *)
(* rows are terminal, so a step that keeps the rows keeps it.              *)
(***************************************************************************)

LEMMA SameSeries ==
    ASSUME RowsKept, NEW o, NEW p
    PROVE  Series(o, p)' = Series(o, p)
  BY DEF RowsKept, Series, SameIdentity

LEMMA RowsKeptHistory ==
    ASSUME IInv, RowsKept,
           \A w \in Workers : request'[w] = request[w] \/ request'[w] = None
    PROVE  OlderAreTerminal' /\ LinearNumbers' /\ SuccessionJustified' /\ ReadIsCurrent'
  <1>1. /\ Ids' = Ids
        /\ \A id \in Ids :
             /\ SameIdentity(attempts'[id], attempts[id])
             /\ attempts[id].status \in Terminal => attempts'[id] = attempts[id]
    BY DEF RowsKept
  <1>2. OlderAreTerminal'
    BY <1>1 DEF IInv, OlderAreTerminal, SameIdentity
  <1>3. LinearNumbers'
    <2> SUFFICES ASSUME NEW id \in Ids
                 PROVE  LET series == Series(attempts[id].observation, attempts[id].processor) IN
                        /\ \A later \in series : id < later => attempts'[id].number < attempts'[later].number
                        /\ attempts'[id].number > 1 =>
                             \E before \in series : attempts'[before].number = attempts'[id].number - 1
      BY <1>1, SameSeries DEF LinearNumbers, SameIdentity
    <2> QED
      BY <1>1 DEF IInv, LinearNumbers, SameIdentity, Series
  <1>4. SuccessionJustified'
    BY <1>1 DEF IInv, SuccessionJustified, SameIdentity
  <1>5. ReadIsCurrent'
    <2> SUFFICES ASSUME NEW w \in Workers, request'[w] # None
                 PROVE  ReadIsCurrent!(w)'
      BY DEF ReadIsCurrent
    <2>1. request'[w] = request[w]
      BY DEF IInv
    <2>2. Series(request[w].observation, request[w].processor)'
            = Series(request[w].observation, request[w].processor)
      BY SameSeries
    <2> QED
      BY <1>1, <2>1 DEF IInv, ReadIsCurrent, SameIdentity, Series
  <1> QED
    BY <1>2, <1>3, <1>4, <1>5
-----------------------------------------------------------------------------
(* The two halves of start_processing.                                     *)

LEMMA BeginStartPreserves ==
    ASSUME IInv, NEW w \in Workers, NEW o \in Observations, NEW p \in Processors,
           NEW v \in Versions, BeginStart(w, o, p, v)
    PROVE  IInv'
  <1> DEFINE r == request'[w]
  <1>1. TypeOK /\ observationLock[o] = None /\ Idle(w)
    BY DEF IInv, BeginStart
  <1>2. /\ r \in Request /\ r.observation = o /\ r.processor = p /\ r.version = v
        /\ request' = [request EXCEPT ![w] = r]
    BY <1>1, RowTypes DEF BeginStart, ReadLatest, TypeOK, Request, Attempt, IsLatest, Series
  <1>3. \A id \in Series(o, p) :
          /\ attempts[id].status \in Terminal
          /\ attempts[id].number <= r.latest
          /\ attempts[id].number = r.latest =>
               attempts[id].status = "failed" \/ v > attempts[id].version
    <2>1. CASE Series(o, p) = {}
      BY <2>1
    <2>2. CASE Series(o, p) # {}
      <3>1. PICK last \in Ids :
              /\ IsLatest(last, o, p)
              /\ MayStartAttempt(attempts[last].status, attempts[last].version, v)
              /\ request' = [request EXCEPT ![w] =
                   [observation |-> o, processor |-> p, version |-> v,
                    latest |-> attempts[last].number]]
        BY <2>2 DEF BeginStart, ReadLatest
      <3>2. r.latest = attempts[last].number
        BY <1>1, <3>1 DEF TypeOK
      <3>3. attempts[last].status \in Terminal
        BY <1>1, <3>1, RowTypes DEF MayStartAttempt, Attempt, Status
      <3>4. ASSUME NEW id \in Series(o, p)
            PROVE  /\ id <= last
                   /\ id # last => attempts[id].status \in Terminal
                                   /\ attempts[id].number < attempts[last].number
        <4>1. /\ id \in Ids /\ last \in Series(o, p) /\ Ids \subseteq Int
              /\ attempts[id].number <= attempts[last].number
              /\ attempts[id].number \in Int /\ attempts[last].number \in Int
          BY <1>1, <3>1, <3>4, RowTypes DEF IsLatest, Series, Attempt
        <4>2. /\ last < id => attempts[last].number < attempts[id].number
              /\ id < last => attempts[id].number < attempts[last].number
          BY <4>1 DEF IInv, LinearNumbers, Series
        <4>3. id < last => attempts[id].status \in Terminal
          BY <4>1 DEF IInv, OlderAreTerminal, Series
        <4> QED
          BY <4>1, <4>2, <4>3
      <3> QED
        BY <3>1, <3>2, <3>3, <3>4, RowTypes, <1>1
           DEF MayStartAttempt, Series, Attempt
    <2> QED
      BY <2>1, <2>2
  <1>4. r.latest # 0 => \E id \in Series(o, p) : attempts[id].number = r.latest
    BY <1>1 DEF BeginStart, ReadLatest, TypeOK, IsLatest
  <1>5. UNCHANGED <<attempts, held>>
    BY DEF BeginStart
  <1>6. observationLock' = [observationLock EXCEPT ![o] = w]
    BY DEF BeginStart
  <1>7. TypeOK'
    BY <1>1, <1>2, <1>5, <1>6 DEF TypeOK, Ids, Idle
  <1>8. LockHeld'
    <2> SUFFICES ASSUME NEW x \in Workers, request'[x] # None
                 PROVE  observationLock'[request'[x].observation] = x
      BY DEF LockHeld
    <2>1. CASE x = w
      BY <1>1, <1>2, <1>6, <2>1 DEF TypeOK
    <2>2. CASE x # w
      <3>1. request'[x] = request[x] /\ observationLock[request[x].observation] = x
        BY <1>1, <1>2, <2>2 DEF TypeOK, IInv, LockHeld
      <3>2. request[x].observation # o
        BY <1>1, <3>1, NoneAssumption
      <3> QED
        BY <1>1, <1>6, <3>1, <3>2 DEF TypeOK
    <2> QED
      BY <2>1, <2>2
  <1>9. ReadIsCurrent'
    <2> SUFFICES ASSUME NEW x \in Workers, request'[x] # None
                 PROVE  ReadIsCurrent!(x)'
      BY DEF ReadIsCurrent
    <2>1. CASE x = w
      BY <1>2, <1>3, <1>4, <1>5, <2>1 DEF Series, Ids
    <2>2. CASE x # w
      BY <1>1, <1>2, <1>5, <2>2 DEF IInv, ReadIsCurrent, Series, Ids, TypeOK
    <2> QED
      BY <2>1, <2>2
  <1>10. OlderAreTerminal' /\ LinearNumbers' /\ SuccessionJustified' /\ HeldByOne'
    BY <1>5 DEF IInv, OlderAreTerminal, LinearNumbers, SuccessionJustified, HeldByOne, Ids, Series
  <1> QED
    BY <1>7, <1>8, <1>9, <1>10 DEF IInv

LEMMA RowAppended ==
    ASSUME TypeOK, NEW row \in Attempt, attempts' = Append(attempts, row)
    PROVE  LET new == Len(attempts) + 1 IN
           /\ attempts' \in Seq(Attempt)
           /\ new \notin Ids /\ Ids' = Ids \cup {new}
           /\ attempts'[new] = row
           /\ \A id \in Ids : attempts'[id] = attempts[id] /\ id < new
  <1>1. attempts' \in Seq(Attempt) /\ Len(attempts') = Len(attempts) + 1
    BY DEF TypeOK
  <1>2. Ids' = 1..(Len(attempts) + 1)
    BY <1>1 DEF Ids
  <1> QED
    BY <1>1, <1>2, RowTypes DEF TypeOK

LEMMA ClaimAttemptPreserves ==
    ASSUME IInv, NEW w \in Workers, NEW lease \in LeaseSeconds, ClaimAttempt(w, lease)
    PROVE  IInv'
  <1> DEFINE r == request[w]
             o == r.observation
             p == r.processor
             new == Len(attempts) + 1
             row == NewAttempt(r, lease)
  <1>1. TypeOK /\ r \in Request /\ held[w] = None
    BY DEF IInv, TypeOK, ClaimAttempt
  <1>2. row \in Attempt /\ StateShape(row)
    BY <1>1, LeaseAssumption, NoneAssumption
       DEF NewAttempt, Attempt, Request, Status, StateShape, Terminal
  <1>3. /\ attempts' \in Seq(Attempt)
        /\ new \notin Ids /\ Ids' = Ids \cup {new}
        /\ attempts'[new] = row
        /\ \A id \in Ids : attempts'[id] = attempts[id] /\ id < new
    BY <1>1, <1>2, RowAppended DEF ClaimAttempt
  <1>4. /\ row.observation = o /\ row.processor = p /\ row.version = r.version
        /\ row.number = r.latest + 1 /\ row.status = "processing"
    BY DEF NewAttempt
  <1>5. \A id \in Series(o, p) :
          /\ attempts[id].status \in Terminal
          /\ attempts[id].number <= r.latest
          /\ attempts[id].number = r.latest =>
               attempts[id].status = "failed" \/ r.version > attempts[id].version
    BY DEF IInv, ReadIsCurrent, ClaimAttempt
  <1>6. r.latest # 0 => \E id \in Series(o, p) : attempts[id].number = r.latest
    BY DEF IInv, ReadIsCurrent, ClaimAttempt
  <1>7. /\ request' = [request EXCEPT ![w] = None]
        /\ held' = [held EXCEPT ![w] = new]
        /\ observationLock' = [observationLock EXCEPT ![o] = None]
    BY DEF ClaimAttempt
  <1>8. r.latest \in Nat /\ \A id \in Ids : attempts[id].number \in Nat \ {0}
    BY <1>1, RowTypes DEF Request, Attempt
  <1>9. new \in Nat /\ Ids \subseteq Nat
    BY <1>1, RowTypes
  <1>10. TypeOK'
    <2>1. \A id \in Ids' : StateShape(attempts'[id])
      BY <1>1, <1>2, <1>3 DEF TypeOK
    <2>2. held' \in [Workers -> Ids' \cup {None}] /\ request' \in [Workers -> Request \cup {None}]
      BY <1>1, <1>3, <1>7 DEF TypeOK
    <2>3. observationLock' \in [Observations -> Workers \cup {None}]
      BY <1>1, <1>7 DEF TypeOK
    <2> QED
      BY <1>1, <1>3, <1>7, <2>1, <2>2, <2>3 DEF TypeOK
  <1>11. \A x \in Workers : request'[x] # None =>
           x # w /\ request'[x] = request[x] /\ request[x].observation # o
    <2> SUFFICES ASSUME NEW x \in Workers, request'[x] # None
                 PROVE  x # w /\ request'[x] = request[x] /\ request[x].observation # o
      OBVIOUS
    <2>1. x # w /\ request'[x] = request[x]
      BY <1>1, <1>7 DEF TypeOK
    <2>2. observationLock[request[x].observation] = x /\ observationLock[o] = w
      BY <2>1 DEF IInv, LockHeld, ClaimAttempt
    <2> QED
      BY <2>1, <2>2
  <1>12. LockHeld'
    BY <1>1, <1>7, <1>11 DEF IInv, LockHeld, TypeOK, Request
  <1>13. ReadIsCurrent'
    <2> SUFFICES ASSUME NEW x \in Workers, request'[x] # None
                 PROVE  ReadIsCurrent!(x)'
      BY DEF ReadIsCurrent
    <2>1. request'[x] = request[x] /\ request[x].observation # o
      BY <1>11
    <2>2. Series(request[x].observation, request[x].processor)'
            = Series(request[x].observation, request[x].processor)
      BY <1>3, <1>4, <2>1 DEF Series
    <2> QED
      BY <1>3, <2>1, <2>2 DEF IInv, ReadIsCurrent, Series
  <1>14. OlderAreTerminal'
    BY <1>3, <1>4, <1>5, <1>9 DEF IInv, OlderAreTerminal, Series
  <1>15. LinearNumbers'
    <2> SUFFICES ASSUME NEW id \in Ids'
                 PROVE  LinearNumbers!(id)'
      BY DEF LinearNumbers
    <2>1. CASE id = new
      <3>1. \A later \in Ids' : ~ (new < later)
        BY <1>3, <1>9
      <3>2. row.number > 1 => \E before \in Series(o, p) : attempts[before].number = row.number - 1
        BY <1>4, <1>6, <1>8
      <3> QED
        BY <1>3, <1>4, <2>1, <3>1, <3>2 DEF Series
    <2>2. CASE id # new
      <3>1. id \in Ids /\ attempts'[id] = attempts[id] /\ attempts[id].number \in Nat
        BY <1>3, <1>8, <2>2
      <3>2. ASSUME NEW later \in Ids', id < later,
                   attempts'[later].observation = attempts[id].observation,
                   attempts'[later].processor = attempts[id].processor
            PROVE  attempts[id].number < attempts'[later].number
        <4>1. CASE later = new
          BY <1>3, <1>4, <1>5, <1>8, <3>1, <3>2, <4>1 DEF Series
        <4>2. CASE later # new
          BY <1>3, <3>1, <3>2, <4>2 DEF IInv, LinearNumbers, Series
        <4> QED
          BY <4>1, <4>2
      <3>3. attempts[id].number > 1 =>
              \E before \in Series(attempts[id].observation, attempts[id].processor) :
                attempts[before].number = attempts[id].number - 1
        BY <3>1 DEF IInv, LinearNumbers
      <3> QED
        BY <1>3, <3>1, <3>2, <3>3 DEF Series
    <2> QED
      BY <2>1, <2>2
  <1>16. SuccessionJustified'
    <2> SUFFICES ASSUME NEW id \in Ids', NEW next \in Ids',
                        attempts'[id].observation = attempts'[next].observation,
                        attempts'[id].processor = attempts'[next].processor,
                        attempts'[next].number = attempts'[id].number + 1
                 PROVE  /\ attempts'[id].status \in Terminal
                        /\ \/ attempts'[id].status = "failed"
                           \/ attempts'[next].version > attempts'[id].version
      BY DEF SuccessionJustified
    <2>1. CASE next # new /\ id # new
      BY <1>3, <2>1 DEF IInv, SuccessionJustified
    <2>2. CASE next = new /\ id # new
      <3>1. id \in Ids /\ attempts'[id] = attempts[id] /\ attempts'[next] = row
        BY <1>3, <2>2
      <3>2. attempts[id].number + 1 = r.latest + 1
        BY <1>4, <3>1
      <3>3. attempts[id].number = r.latest
        BY <1>8, <3>1, <3>2
      <3>4. id \in Series(o, p)
        BY <1>4, <3>1 DEF Series
      <3> QED
        BY <1>4, <1>5, <3>1, <3>3, <3>4
    <2>3. CASE next # new /\ id = new
      <3>1. next \in Ids /\ attempts'[next] = attempts[next] /\ attempts'[id] = row
        BY <1>3, <2>3
      <3>2. attempts[next].number = r.latest + 1 + 1
        BY <1>4, <3>1
      <3>3. next \in Series(o, p)
        BY <1>4, <3>1 DEF Series
      <3> QED
        BY <1>5, <1>8, <3>2, <3>3
    <2>4. CASE next = new /\ id = new
      BY <1>3, <1>4, <1>8, <2>4
    <2> QED
      BY <2>1, <2>2, <2>3, <2>4
  <1>17. HeldByOne'
    BY <1>1, <1>3, <1>7 DEF IInv, HeldByOne, TypeOK
  <1> QED
    BY <1>10, <1>12, <1>13, <1>14, <1>15, <1>16, <1>17 DEF IInv
-----------------------------------------------------------------------------
(* All other steps.                                                        *)

LEMMA RowsKeptPreserves ==
    ASSUME IInv, RowsKept,
           \A w \in Workers : request'[w] = request[w] \/ request'[w] = None,
           request' \in [Workers -> Request \cup {None}],
           observationLock' \in [Observations -> Workers \cup {None}],
           \A w \in Workers : request'[w] # None =>
               observationLock'[request[w].observation] = observationLock[request[w].observation],
           held' \in [Workers -> Ids \cup {None}],
           \A w \in Workers : held'[w] = held[w] \/ held'[w] = None
    PROVE  IInv'
  <1>1. OlderAreTerminal' /\ LinearNumbers' /\ SuccessionJustified' /\ ReadIsCurrent'
    BY RowsKeptHistory
  <1>2. TypeOK'
    BY DEF IInv, TypeOK, RowsKept
  <1>3. LockHeld'
    BY DEF IInv, LockHeld
  <1>4. HeldByOne'
    BY DEF IInv, HeldByOne
  <1> QED
    BY <1>1, <1>2, <1>3, <1>4 DEF IInv

\* The disjuncts of Next, with the parameters each is taken for.
LEMMA NextCases ==
    ASSUME Next,
           NEW P,
           ASSUME NEW w \in Workers, NEW o \in Observations, NEW p \in Processors,
                  NEW v \in Versions, BeginStart(w, o, p, v) PROVE P,
           ASSUME NEW w \in Workers, NEW lease \in LeaseSeconds, ClaimAttempt(w, lease) PROVE P,
           ASSUME NEW w \in Workers, NEW lease \in LeaseSeconds, RenewLease(w, lease) PROVE P,
           ASSUME NEW w \in Workers, NEW id, NEW status \in Terminal,
                  NEW reason \in {None, "reported"},
                  reason # None <=> status \in {"failed", "quarantined"},
                  id = held[w], Finish(w, id, status, reason) PROVE P,
           ASSUME NEW w \in Workers, LoseAttempt(w) PROVE P,
           ASSUME NEW w \in Workers, Crash(w) PROVE P,
           ASSUME NEW id \in Ids, FailExpired(id) PROVE P,
           ASSUME Tick PROVE P
    PROVE  P
  BY NoneAssumption DEF Next, WorkerStep, MarkProcessed, MarkFailed, MarkQuarantined, Terminal

LEMMA Inductive ==
    ASSUME IInv, [Next]_vars
    PROVE  IInv'
  <1>1. CASE UNCHANGED vars
    BY <1>1, UnchangedKeepsRows, RowsKeptPreserves DEF vars, IInv, TypeOK
  <1>2. CASE Next
    <2>0. TypeOK
      BY DEF IInv
    <2>1. ASSUME NEW w \in Workers, NEW lease \in LeaseSeconds, RenewLease(w, lease)
          PROVE  IInv'
      BY <2>0, <2>1, RenewKeepsRows, RowsKeptPreserves DEF RenewLease, TypeOK
    <2>2. ASSUME NEW w \in Workers, NEW id, NEW status \in Terminal,
                 NEW reason \in {None, "reported"},
                 reason # None <=> status \in {"failed", "quarantined"},
                 Finish(w, id, status, reason)
          PROVE  IInv'
      BY <2>0, <2>2, FinishKeepsRows, RowsKeptPreserves DEF Finish, TypeOK
    <2>3. ASSUME NEW w \in Workers, LoseAttempt(w)
          PROVE  IInv'
      BY <2>0, <2>3, UnchangedKeepsRows, RowsKeptPreserves DEF LoseAttempt, TypeOK
    <2>4. ASSUME NEW w \in Workers, Crash(w)
          PROVE  IInv'
      <3>1. RowsKept
        BY <2>0, <2>4, UnchangedKeepsRows DEF Crash
      <3>2. \A x \in Workers : request'[x] # None =>
              observationLock'[request[x].observation] = observationLock[request[x].observation]
        BY <2>0, <2>4 DEF Crash, TypeOK, IInv, LockHeld, Request
      <3>3. observationLock' \in [Observations -> Workers \cup {None}]
        BY <2>0, <2>4 DEF Crash, TypeOK
      <3> QED
        BY <2>0, <2>4, <3>1, <3>2, <3>3, RowsKeptPreserves DEF Crash, TypeOK
    <2>5. ASSUME NEW id \in Ids, FailExpired(id)
          PROVE  IInv'
      BY <2>0, <2>5, FailExpiredKeepsRows, RowsKeptPreserves DEF FailExpired, TypeOK
    <2>6. ASSUME Tick
          PROVE  IInv'
      BY <2>0, <2>6, TickKeepsRows, RowsKeptPreserves DEF Tick, TypeOK
    <2> QED
      BY <1>2, <2>1, <2>2, <2>3, <2>4, <2>5, <2>6, NextCases,
         BeginStartPreserves, ClaimAttemptPreserves
  <1> QED
    BY <1>1, <1>2

\* The strengthening holds in every reachable state of the processing history.
THEOREM Invariance == Spec => []IInv
  <1>1. Init => IInv
    BY TypeInit DEF Init, IInv, LockHeld, ReadIsCurrent, OlderAreTerminal,
                    LinearNumbers, SuccessionJustified, HeldByOne, Ids
  <1>2. IInv /\ [Next]_vars => IInv'
    BY Inductive
  <1> QED
    BY <1>1, <1>2, PTL DEF Spec
-----------------------------------------------------------------------------
(* The properties.                                                         *)

\* Every row satisfies the CHECK constraints of v2.processing_attempt, and a
\* worker is in at most one call of the repository.
THEOREM TypeCorrect == Spec => []TypeOK
  BY Invariance, PTL DEF IInv

\* start_processing's row lock alone keeps its INSERT clear of both unique
\* constraints: the IntegrityError branches are unreachable.
THEOREM LockIsSufficient == Spec => []LockSuffices
  <1>1. IInv => LockSuffices
    <2> SUFFICES ASSUME IInv, NEW w \in Workers, request[w] # None,
                        NEW id \in Series(request[w].observation, request[w].processor)
                 PROVE  /\ attempts[id].status # "processing"
                        /\ attempts[id].number # request[w].latest + 1
      BY DEF LockSuffices
    <2>1. attempts[id].status \in Terminal /\ attempts[id].number <= request[w].latest
      BY DEF IInv, ReadIsCurrent
    <2>2. request[w].latest \in Nat /\ attempts[id].number \in Nat
      BY RowTypes DEF IInv, TypeOK, Request, Attempt, Series
    <2> QED
      BY <2>1, <2>2 DEF Terminal
  <1> QED
    BY <1>1, Invariance, PTL

LEMMA OneActiveHolds == IInv => OneActive
  <1> SUFFICES ASSUME IInv, NEW id \in Ids, NEW other \in Ids,
                      attempts[id].observation = attempts[other].observation,
                      attempts[id].processor = attempts[other].processor,
                      Processing(id), Processing(other)
               PROVE  id = other
    BY DEF OneActive
  <1>1. id \in Int /\ other \in Int
    BY RowTypes DEF IInv
  <1>2. ~ (id < other) /\ ~ (other < id)
    BY DEF IInv, OlderAreTerminal, Processing, Terminal
  <1> QED
    BY <1>1, <1>2

\* At most one PROCESSING attempt per observation and processor.
THEOREM OneActiveAlways == Spec => []OneActive
  BY OneActiveHolds, Invariance, PTL

\* Attempt numbers are linear per series, whatever the processor version.
THEOREM NumbersAreLinear == Spec => []LinearNumbers
  BY Invariance, PTL DEF IInv

\* Every attempt had the right to follow the one before it.
THEOREM SuccessionIsJustified == Spec => []SuccessionJustified
  BY Invariance, PTL DEF IInv

\* So the history of every series is linear.
THEOREM HistoryIsLinear == Spec => []LinearHistory
  BY OneActiveAlways, NumbersAreLinear, SuccessionIsJustified, PTL DEF LinearHistory

\* Of all workers that believe they work on a series, at most one still can.
THEOREM OneHolderIsEffective == Spec => []OneEffectiveHolder
  <1>1. IInv => OneEffectiveHolder
    <2> SUFFICES ASSUME IInv, NEW w \in Workers, NEW x \in Workers,
                        held[w] # None, held[x] # None,
                        Processing(held[w]), Processing(held[x]),
                        attempts[held[w]].observation = attempts[held[x]].observation,
                        attempts[held[w]].processor = attempts[held[x]].processor
                 PROVE  w = x
      BY DEF OneEffectiveHolder
    <2>1. held[w] = held[x]
      BY OneActiveHolds DEF OneActive, Processing
    <2> QED
      BY <2>1 DEF IInv, HeldByOne
  <1> QED
    BY <1>1, Invariance, PTL

\* History is append-only and finished rows are frozen.
THEOREM HistoryIsPreserved == Spec => HistoryPreserved
  <1>1. IInv /\ [Next]_vars => [HistoryPreservedStep]_vars
    <2> SUFFICES ASSUME IInv, Next
                 PROVE  HistoryPreservedStep
      OBVIOUS
    <2>0. TypeOK
      BY DEF IInv
    <2>1. RowsKept /\ Ids' = Ids
            /\ (\A id \in Ids : attempts'[id].status = "processing" =>
                  attempts'[id].lease >= attempts[id].lease \/ Tick)
            => HistoryPreservedStep
      BY DEF RowsKept, HistoryPreservedStep, Ids
    <2>2. \A id \in Ids : attempts[id].status = "processing" => attempts[id].lease >= attempts[id].lease
      BY <2>0, RowTypes DEF TypeOK, StateShape, Attempt, Terminal
    <2>3. ASSUME UNCHANGED attempts PROVE HistoryPreservedStep
      BY <2>0, <2>1, <2>2, <2>3, UnchangedKeepsRows DEF RowsKept, Ids
    <2>4. ASSUME NEW w \in Workers, NEW lease \in LeaseSeconds, ClaimAttempt(w, lease)
          PROVE  HistoryPreservedStep
      <3>1. NewAttempt(request[w], lease) \in Attempt
        BY <2>0, <2>4, LeaseAssumption
           DEF ClaimAttempt, NewAttempt, Attempt, Request, Status, TypeOK
      <3>2. /\ Ids \subseteq Ids'
            /\ \A id \in Ids : attempts'[id] = attempts[id]
        BY <2>0, <2>4, <3>1, RowAppended DEF ClaimAttempt
      <3> QED
        BY <2>2, <3>2 DEF HistoryPreservedStep, SameIdentity, Ids
    <2>5. ASSUME NEW w \in Workers, NEW lease \in LeaseSeconds, RenewLease(w, lease)
          PROVE  HistoryPreservedStep
      BY <2>0, <2>1, <2>2, <2>5, RenewKeepsRows DEF RowsKept
    <2>6. ASSUME NEW w \in Workers, NEW id, NEW status \in Terminal,
                 NEW reason \in {None, "reported"},
                 reason # None <=> status \in {"failed", "quarantined"},
                 Finish(w, id, status, reason)
          PROVE  HistoryPreservedStep
      BY <2>0, <2>1, <2>2, <2>6, FinishKeepsRows DEF RowsKept, Terminal
    <2>7. ASSUME NEW id \in Ids, FailExpired(id)
          PROVE  HistoryPreservedStep
      BY <2>0, <2>1, <2>2, <2>7, FailExpiredKeepsRows DEF RowsKept
    <2>8. ASSUME Tick PROVE HistoryPreservedStep
      BY <2>0, <2>1, <2>8, TickKeepsRows DEF RowsKept
    <2> QED
      BY <2>3, <2>4, <2>5, <2>6, <2>7, <2>8, NextCases
         DEF BeginStart, LoseAttempt, Crash
  <1> QED
    BY <1>1, Invariance, PTL DEF Spec, HistoryPreserved

\* While its lease runs, an attempt is ended only by the worker that holds it.
THEOREM LiveLeaseIsRespected == Spec => LiveLeaseRespected
  <1>1. IInv /\ [Next]_vars => [LiveLeaseRespectedStep]_vars
    <2> SUFFICES ASSUME IInv, Next, NEW id \in Ids, Running(id),
                        attempts'[id].status # "processing"
                 PROVE  \E w \in Workers : held[w] = id /\ held'[w] = None
      BY DEF LiveLeaseRespectedStep
    <2>0. /\ TypeOK /\ id \in Ids
          /\ attempts[id].status = "processing" /\ attempts[id].lease \in Nat \ {0}
      BY RowTypes DEF IInv, TypeOK, Running, Processing, StateShape, Attempt, Terminal
    <2>1. ASSUME attempts'[id] = attempts[id] PROVE FALSE
      BY <2>0, <2>1
    <2>2. ASSUME NEW w \in Workers, NEW lease \in LeaseSeconds, ClaimAttempt(w, lease)
          PROVE  FALSE
      <3>1. NewAttempt(request[w], lease) \in Attempt
        BY <2>0, <2>2, LeaseAssumption
           DEF ClaimAttempt, NewAttempt, Attempt, Request, Status, TypeOK
      <3>2. attempts'[id] = attempts[id]
        BY <2>0, <2>2, <3>1, RowAppended DEF ClaimAttempt
      <3> QED
        BY <2>1, <3>2
    <2>3. ASSUME NEW w \in Workers, NEW lease \in LeaseSeconds, RenewLease(w, lease)
          PROVE  FALSE
      BY <2>0, <2>3, RenewKeepsRows
    <2>4. ASSUME NEW w \in Workers, NEW ended, NEW status \in Terminal,
                 NEW reason \in {None, "reported"},
                 reason # None <=> status \in {"failed", "quarantined"},
                 ended = held[w], Finish(w, ended, status, reason)
          PROVE  held[w] = id /\ held'[w] = None
      <3>1. ended = id
        BY <2>0, <2>1, <2>4, FinishKeepsRows
      <3> QED
        BY <2>0, <2>4, <3>1 DEF Finish, TypeOK
    <2>5. ASSUME NEW expired \in Ids, FailExpired(expired)
          PROVE  FALSE
      BY <2>0, <2>1, <2>5, FailExpiredKeepsRows
    <2>6. ASSUME Tick PROVE FALSE
      BY <2>0, <2>6, TickKeepsRows
    <2> QED
      BY <2>1, <2>2, <2>3, <2>4, <2>5, <2>6, NextCases
         DEF BeginStart, LoseAttempt, Crash
  <1> QED
    BY <1>1, Invariance, PTL DEF Spec, LiveLeaseRespected
-----------------------------------------------------------------------------
(* Locks.                                                                  *)

\* Every row lock belongs to a start_processing call on that row: no step
\* leaves one behind.
LockOwned ==
    \A o \in Observations, w \in Workers :
        observationLock[o] = w => request[w] # None /\ request[w].observation = o

LEMMA LocksStayOwned ==
    ASSUME IInv, LockOwned, [Next]_vars
    PROVE  LockOwned'
  <1>0. TypeOK /\ LockHeld
    BY DEF IInv
  <1>1. ASSUME UNCHANGED <<observationLock, request>>
        PROVE  LockOwned'
    BY <1>1 DEF LockOwned
  <1>2. ASSUME NEW w \in Workers, NEW o \in Observations, NEW p \in Processors, NEW v \in Versions,
               BeginStart(w, o, p, v)
        PROVE  LockOwned'
    <2>1. /\ request'[w] # None /\ request'[w].observation = o
          /\ \A x \in Workers \ {w} : request'[x] = request[x]
      BY <1>0, <1>2, RowTypes, NoRequestAssumption
         DEF BeginStart, ReadLatest, TypeOK, Request, Attempt, IsLatest, Series
    <2>2. observationLock'[o] = w /\ \A q \in Observations \ {o} : observationLock'[q] = observationLock[q]
      BY <1>0, <1>2 DEF BeginStart, TypeOK
    <2>3. request[w] = None
      BY <1>2 DEF BeginStart, Idle
    <2> QED
      BY <2>1, <2>2, <2>3 DEF LockOwned
  <1>3. ASSUME NEW w \in Workers, NEW lease \in LeaseSeconds, ClaimAttempt(w, lease)
        PROVE  LockOwned'
    <2>1. /\ request[w] # None /\ observationLock[request[w].observation] = w
          /\ request[w].observation \in Observations
      BY <1>0, <1>3 DEF ClaimAttempt, LockHeld, TypeOK, Request
    <2>2. /\ observationLock'[request[w].observation] = None
          /\ \A q \in Observations :
               q # request[w].observation => observationLock'[q] = observationLock[q]
          /\ \A x \in Workers \ {w} : request'[x] = request[x]
      BY <1>0, <1>3, <2>1 DEF ClaimAttempt, TypeOK
    <2> QED
      BY <2>1, <2>2, NoneAssumption DEF LockOwned
  <1>4. ASSUME NEW w \in Workers, Crash(w)
        PROVE  LockOwned'
    BY <1>0, <1>4, NoneAssumption DEF Crash, LockOwned, TypeOK
  <1>5. ASSUME NEW w \in Workers, NEW id, NEW status, NEW reason, Finish(w, id, status, reason)
        PROVE  LockOwned'
    BY <1>1, <1>5 DEF Finish
  <1>6. CASE UNCHANGED vars
    BY <1>1, <1>6 DEF vars
  <1>7. CASE Next
    BY <1>1, <1>2, <1>3, <1>4, <1>5, <1>7, NextCases DEF RenewLease, LoseAttempt, FailExpired, Tick
  <1> QED
    BY <1>6, <1>7

LEMMA LocksOwnedInit == Init => LockOwned
  BY NoneAssumption DEF Init, LockOwned

(* An observation's row lock is never left behind: whoever holds it is in  *)
(* a start_processing call on that very row, whichever calls were refused, *)
(* committed or abandoned before.                                          *)
THEOREM LocksHaveOwners == Spec => []LockOwned
  BY LocksOwnedInit, LocksStayOwned, Invariance, PTL DEF Spec

-----------------------------------------------------------------------------
(* How far a quarantine reaches.                                           *)

(* What is left of "never retried automatically": a series in which an     *)
(* attempt was processed or quarantined goes back to its version, or to an *)
(* older one, only after a later version was tried and that attempt failed.*)
OnlyAFailureReopens ==
    \A id, later \in Ids :
        /\ attempts[id].observation = attempts[later].observation
        /\ attempts[id].processor = attempts[later].processor
        /\ attempts[id].status \in {"processed", "quarantined"}
        /\ id < later /\ attempts[later].version <= attempts[id].version
        => \E between \in Ids :
             /\ attempts[between].observation = attempts[id].observation
             /\ attempts[between].processor = attempts[id].processor
             /\ id < between /\ between < later
             /\ attempts[between].status = "failed"
             /\ attempts[between].version > attempts[id].version

LEMMA RowsKeptReopen ==
    ASSUME IInv, RowsKept, OnlyAFailureReopens
    PROVE  OnlyAFailureReopens'
  <1>1. \A id, later \in Ids :
          /\ attempts[id].observation = attempts[later].observation
          /\ attempts[id].processor = attempts[later].processor
          /\ id < later
          => attempts'[id] = attempts[id]
    BY DEF RowsKept, IInv, OlderAreTerminal
  <1>2. \A id \in Ids : attempts[id].status = "failed" => attempts'[id] = attempts[id]
    BY DEF RowsKept, Terminal
  <1>3. \A id \in Ids :
          /\ attempts'[id].observation = attempts[id].observation
          /\ attempts'[id].processor = attempts[id].processor
          /\ attempts'[id].version = attempts[id].version
    BY DEF RowsKept, SameIdentity
  <1> QED
    BY <1>1, <1>2, <1>3 DEF RowsKept, OnlyAFailureReopens

\* The new row follows the latest one: that is the detour, or has one behind it.
LEMMA ClaimReopens ==
    ASSUME IInv, OnlyAFailureReopens, NEW w \in Workers, NEW lease \in LeaseSeconds,
           ClaimAttempt(w, lease)
    PROVE  OnlyAFailureReopens'
  <1> DEFINE r == request[w]
             new == Len(attempts) + 1
             row == NewAttempt(r, lease)
             Between(id, later) ==
               \E between \in Ids :
                 /\ attempts[between].observation = attempts[id].observation
                 /\ attempts[between].processor = attempts[id].processor
                 /\ id < between /\ between < later
                 /\ attempts[between].status = "failed"
                 /\ attempts[between].version > attempts[id].version
  <1>1. TypeOK /\ r \in Request
    BY DEF IInv, TypeOK, ClaimAttempt
  <1>2. row \in Attempt
    BY <1>1, LeaseAssumption DEF NewAttempt, Attempt, Request, Status
  <1>3. /\ new \notin Ids /\ Ids' = Ids \cup {new} /\ attempts'[new] = row
        /\ \A id \in Ids : attempts'[id] = attempts[id] /\ id < new
    BY <1>1, <1>2, RowAppended DEF ClaimAttempt
  <1>4. ASSUME NEW id \in Ids, attempts[id].observation = r.observation,
               attempts[id].processor = r.processor,
               attempts[id].status \in {"processed", "quarantined"},
               r.version <= attempts[id].version
        PROVE  Between(id, new)
    <2>1. id \in Series(r.observation, r.processor)
      BY <1>4 DEF Series
    <2>2. /\ attempts[id].number <= r.latest /\ attempts[id].number \in Nat \ {0}
          /\ r.latest \in Nat
      BY <1>1, <2>1, RowTypes DEF IInv, ReadIsCurrent, ClaimAttempt, Request, Attempt
    <2>3. PICK last \in Series(r.observation, r.processor) : attempts[last].number = r.latest
      BY <2>2 DEF IInv, ReadIsCurrent, ClaimAttempt
    <2>4. attempts[last].status = "failed" \/ r.version > attempts[last].version
      BY <2>3 DEF IInv, ReadIsCurrent, ClaimAttempt
    <2>5. /\ last \in Ids /\ attempts[last].observation = r.observation
          /\ attempts[last].processor = r.processor
          /\ id \in Int /\ last \in Int /\ new \in Int /\ last < new
      BY <1>1, <1>3, <2>3, RowTypes DEF Series
    <2>6. /\ attempts[id].version \in Int /\ attempts[last].version \in Int /\ r.version \in Int
          /\ attempts[last].number \in Int
      <3>1. /\ attempts[id].version \in Versions /\ attempts[last].version \in Versions
            /\ r.version \in Versions /\ attempts[last].number \in Int
        BY <1>1, <2>5, RowTypes DEF Attempt, Request
      <3>2. \A v \in Versions : v \in Int
        BY VersionsAssumption
      <3> QED
        BY <3>1, <3>2, Zenon
    <2>7. ~ (last < id)
      <3>1. last < id => attempts[last].number < attempts[id].number
        BY <1>4, <2>1, <2>5 DEF IInv, LinearNumbers
      <3> QED
        BY <2>2, <2>3, <3>1
    <2>8. CASE last = id
      BY <1>4, <2>4, <2>6, <2>8
    <2>9. CASE id < last /\ attempts[last].version > attempts[id].version
      <3>1. attempts[last].status = "failed"
        BY <1>4, <2>4, <2>6, <2>9
      <3> QED
        BY <1>4, <2>5, <2>9, <3>1
    <2>10. CASE id < last /\ attempts[last].version <= attempts[id].version
      <3>1. PICK between \in Ids :
              /\ attempts[between].observation = attempts[id].observation
              /\ attempts[between].processor = attempts[id].processor
              /\ id < between /\ between < last
              /\ attempts[between].status = "failed"
              /\ attempts[between].version > attempts[id].version
        BY <1>4, <2>5, <2>10 DEF OnlyAFailureReopens
      <3>2. between < new
        BY <1>3
      <3> QED
        BY <3>1, <3>2
    <2> QED
      BY <2>5, <2>6, <2>7, <2>8, <2>9, <2>10
  <1>5. \A id, later \in Ids :
          /\ attempts[id].observation = attempts[later].observation
          /\ attempts[id].processor = attempts[later].processor
          /\ attempts[id].status \in {"processed", "quarantined"}
          /\ id < later /\ attempts[later].version <= attempts[id].version
          => Between(id, later)
    BY DEF OnlyAFailureReopens
  <1>6. /\ row.observation = r.observation /\ row.processor = r.processor
        /\ row.version = r.version /\ row.status = "processing"
    BY DEF NewAttempt
  <1>7. ASSUME NEW id \in Ids', NEW later \in Ids',
               attempts'[id].observation = attempts'[later].observation,
               attempts'[id].processor = attempts'[later].processor,
               attempts'[id].status \in {"processed", "quarantined"},
               id < later, attempts'[later].version <= attempts'[id].version
        PROVE  Between(id, later) /\ id \in Ids
    <2>1. id \in Ids
      BY <1>3, <1>6, <1>7
    <2>2. CASE later = new
      BY <1>3, <1>4, <1>6, <1>7, <2>1, <2>2
    <2>3. CASE later \in Ids
      BY <1>3, <1>5, <1>7, <2>1, <2>3
    <2> QED
      BY <1>3, <2>1, <2>2, <2>3
  <1> QED
    BY <1>3, <1>7 DEF OnlyAFailureReopens

LEMMA ReopenInductive ==
    ASSUME IInv, OnlyAFailureReopens, [Next]_vars
    PROVE  OnlyAFailureReopens'
  <1>0. TypeOK
    BY DEF IInv
  <1>1. CASE UNCHANGED vars
    BY <1>0, <1>1, UnchangedKeepsRows, RowsKeptReopen DEF vars
  <1>2. ASSUME NEW w \in Workers, NEW lease \in LeaseSeconds, RenewLease(w, lease)
        PROVE  OnlyAFailureReopens'
    BY <1>0, <1>2, RenewKeepsRows, RowsKeptReopen
  <1>3. ASSUME NEW w \in Workers, NEW id, NEW status \in Terminal,
               NEW reason \in {None, "reported"},
               reason # None <=> status \in {"failed", "quarantined"},
               Finish(w, id, status, reason)
        PROVE  OnlyAFailureReopens'
    BY <1>0, <1>3, FinishKeepsRows, RowsKeptReopen
  <1>4. ASSUME NEW w \in Workers, LoseAttempt(w)
        PROVE  OnlyAFailureReopens'
    BY <1>0, <1>4, UnchangedKeepsRows, RowsKeptReopen DEF LoseAttempt
  <1>5. ASSUME NEW w \in Workers, Crash(w)
        PROVE  OnlyAFailureReopens'
    BY <1>0, <1>5, UnchangedKeepsRows, RowsKeptReopen DEF Crash
  <1>6. ASSUME NEW id \in Ids, FailExpired(id)
        PROVE  OnlyAFailureReopens'
    BY <1>0, <1>6, FailExpiredKeepsRows, RowsKeptReopen
  <1>7. ASSUME Tick
        PROVE  OnlyAFailureReopens'
    BY <1>0, <1>7, TickKeepsRows, RowsKeptReopen
  <1>8. ASSUME NEW w \in Workers, NEW o \in Observations, NEW p \in Processors,
               NEW v \in Versions, BeginStart(w, o, p, v)
        PROVE  OnlyAFailureReopens'
    BY <1>0, <1>8, UnchangedKeepsRows, RowsKeptReopen DEF BeginStart
  <1>9. CASE Next
    BY <1>2, <1>3, <1>4, <1>5, <1>6, <1>7, <1>8, <1>9, ClaimReopens, NextCases
  <1> QED
    BY <1>1, <1>9

(* A finished or quarantined version comes back only by way of a failure   *)
(* of a later one: that is how far check_may_start_attempt, which looks at *)
(* one row, keeps the promise of mark_quarantined over a whole history.    *)
THEOREM ReopenedByFailureOnly == Spec => []OnlyAFailureReopens
  <1>1. Init => OnlyAFailureReopens
    BY DEF Init, OnlyAFailureReopens, Ids
  <1>2. IInv /\ OnlyAFailureReopens /\ [Next]_vars => OnlyAFailureReopens'
    BY ReopenInductive
  <1> QED
    BY <1>1, <1>2, Invariance, PTL DEF Spec

(* As long as a processor has one version, as every one of the repository  *)
(* has today, a quarantine is for good.                                    *)
THEOREM QuarantineHoldsInOneVersion ==
    ASSUME \A u, v \in Versions : u = v
    PROVE  Spec => []QuarantineRespected
  <1>1. IInv /\ OnlyAFailureReopens => QuarantineRespected
    <2> SUFFICES ASSUME IInv, OnlyAFailureReopens, NEW id \in Ids, NEW later \in Ids,
                        attempts[id].observation = attempts[later].observation,
                        attempts[id].processor = attempts[later].processor,
                        attempts[id].status = "quarantined",
                        attempts[later].number > attempts[id].number
                 PROVE  FALSE
      BY DEF QuarantineRespected
    <2>1. /\ \A one \in Ids : attempts[one].version \in Versions /\ attempts[one].number \in Int
          /\ id \in Int /\ later \in Int
      BY RowTypes DEF IInv, Attempt
    <2>2. \A one, other \in Ids :
            /\ attempts[one].version \in Int
            /\ attempts[one].version = attempts[other].version
      BY <2>1, VersionsAssumption
    <2>3. id < later
      <3>1. later < id => attempts[later].number < attempts[id].number
        BY DEF IInv, LinearNumbers, Series
      <3> QED
        BY <2>1, <3>1
    <2>4. attempts[later].version <= attempts[id].version
      BY <2>2
    <2>5. PICK between \in Ids : attempts[between].version > attempts[id].version
      BY <2>3, <2>4 DEF OnlyAFailureReopens
    <2> QED
      BY <2>2, <2>5
  <1> QED
    BY <1>1, Invariance, ReopenedByFailureOnly, PTL

-----------------------------------------------------------------------------
(* Refinement: the table implements AttemptSeries.                         *)

Shown == [s \in AllSeries |-> LatestOf(s[1], s[2])]

Summary(row) == [number |-> row.number, version |-> row.version, status |-> row.status]

LEMMA LatestIsUnique ==
    ASSUME IInv, NEW o, NEW p, NEW id, NEW other, IsLatest(id, o, p), IsLatest(other, o, p)
    PROVE  id = other
  <1>1. /\ id \in Series(o, p) /\ other \in Series(o, p)
        /\ id \in Ids /\ other \in Ids
        /\ attempts[id].number <= attempts[other].number
        /\ attempts[other].number <= attempts[id].number
    BY DEF IsLatest, Series
  <1>2. id \in Int /\ other \in Int /\ attempts[id].number \in Int /\ attempts[other].number \in Int
    BY <1>1, RowTypes DEF IInv, Attempt
  <1>3. /\ id < other => attempts[id].number < attempts[other].number
        /\ other < id => attempts[other].number < attempts[id].number
    BY <1>1 DEF IInv, LinearNumbers, Series
  <1> QED
    BY <1>1, <1>2, <1>3

LatestOfIsSummary ==
    \A o \in Observations, p \in Processors : \A id \in Ids :
        IsLatest(id, o, p) => LatestOf(o, p) = Summary(attempts[id])

LEMMA LatestOfIs == IInv => LatestOfIsSummary
  <1> SUFFICES ASSUME IInv, NEW o \in Observations, NEW p \in Processors,
                      NEW id \in Ids, IsLatest(id, o, p)
               PROVE  LatestOf(o, p) = Summary(attempts[id])
    BY DEF LatestOfIsSummary
  <1> DEFINE chosen == CHOOSE i \in Ids : IsLatest(i, o, p)
  <1>1. IsLatest(chosen, o, p)
    OBVIOUS
  <1>2. chosen = id
    BY <1>1, LatestIsUnique
  <1> QED
    BY <1>2 DEF LatestOf, Summary

LEMMA LatestOfIsNext == IInv' => LatestOfIsSummary'
  BY LatestOfIs, PTL
\* The latest row of a series whose rows a step keeps, or changes in place.
LEMMA LatestKept ==
    ASSUME NEW o \in Observations, NEW p \in Processors,
           Series(o, p)' = Series(o, p),
           \A id \in Series(o, p) : attempts'[id].number = attempts[id].number
    PROVE  \A id : IsLatest(id, o, p)' <=> IsLatest(id, o, p)
  BY DEF IsLatest

LEMMA LatestOfNone ==
    ASSUME NEW o \in Observations, NEW p \in Processors,
           \A id \in Ids : ~ IsLatest(id, o, p)
    PROVE  LatestOf(o, p) = None
  BY DEF LatestOf

LatestOfIsNone ==
    \A o \in Observations, p \in Processors :
        (\A id \in Ids : ~ IsLatest(id, o, p)) => LatestOf(o, p) = None

LEMMA LatestOfNoneNext == LatestOfIsNone'
  <1>1. LatestOfIsNone
    BY LatestOfNone DEF LatestOfIsNone
  <1> QED
    BY <1>1, PTL

LEMMA SummaryKept ==
    ASSUME IInv, IInv', NEW o \in Observations, NEW p \in Processors,
           Series(o, p)' = Series(o, p),
           \A id \in Series(o, p) :
               /\ attempts'[id].number = attempts[id].number
               /\ attempts'[id].version = attempts[id].version
               /\ attempts'[id].status = attempts[id].status
    PROVE  LatestOf(o, p)' = LatestOf(o, p)
  <1>1. \A id : IsLatest(id, o, p)' <=> IsLatest(id, o, p)
    BY LatestKept
  <1>2. CASE \E id \in Ids : IsLatest(id, o, p)
    <2>1. PICK id \in Ids : IsLatest(id, o, p)
      BY <1>2
    <2>2. LatestOf(o, p) = Summary(attempts[id])
      BY <2>1, LatestOfIs DEF LatestOfIsSummary
    <2>3. IsLatest(id, o, p)' /\ id \in Ids'
      BY <1>1, <2>1 DEF IsLatest, Series
    <2>4. LatestOf(o, p)' = Summary(attempts[id])'
      BY <2>3, LatestOfIsNext DEF LatestOfIsSummary
    <2> QED
      BY <2>1, <2>2, <2>4 DEF IsLatest, Summary
  <1>3. CASE \A id \in Ids : ~ IsLatest(id, o, p)
    <2>1. \A id \in Ids' : ~ IsLatest(id, o, p)'
      BY <1>1, <1>3 DEF IsLatest, Series
    <2>2. LatestOf(o, p)' = None
      BY <2>1, LatestOfNoneNext DEF LatestOfIsNone
    <2> QED
      BY <1>3, <2>2, LatestOfNone
  <1> QED
    BY <1>2, <1>3
LEMMA KeptIsStutter ==
    ASSUME IInv, IInv', RowsKept,
           \A id \in Ids : attempts'[id].status = attempts[id].status
    PROVE  UNCHANGED Shown
  <1>1. ASSUME NEW o \in Observations, NEW p \in Processors
        PROVE  LatestOf(o, p)' = LatestOf(o, p)
    <2>1. Series(o, p)' = Series(o, p)
      BY SameSeries
    <2> QED
      BY <2>1, SummaryKept DEF RowsKept, SameIdentity, Series
  <1> QED
    BY <1>1 DEF Shown, AllSeries

\* What is shown changes for one series only.
LEMMA OneSeriesChanges ==
    ASSUME NEW o \in Observations, NEW p \in Processors, NEW value,
           LatestOf(o, p)' = value,
           \A q \in Observations, r \in Processors :
               <<q, r>> # <<o, p>> => LatestOf(q, r)' = LatestOf(q, r)
    PROVE  Shown' = [Shown EXCEPT ![<<o, p>>] = value]
  <1>1. ASSUME NEW s \in AllSeries
        PROVE  Shown'[s] = IF s = <<o, p>> THEN value ELSE Shown[s]
    <2>1. PICK q \in Observations, r \in Processors : s = <<q, r>>
      BY DEF AllSeries
    <2>2. Shown'[s] = LatestOf(q, r)' /\ Shown[s] = LatestOf(q, r)
      BY <2>1 DEF Shown
    <2> QED
      BY <2>1, <2>2
  <1> QED
    BY <1>1 DEF Shown

\* Ending the active attempt of a series is the step End of that series.
LEMMA EndedIsEnd ==
    ASSUME IInv, IInv', RowsKept, NEW id \in Ids, Processing(id),
           NEW status \in Terminal, attempts'[id].status = status,
           \A other \in Ids : other # id => attempts'[other] = attempts[other]
    PROVE  Lifecycle!Next
  <1>0. PICK o \in Observations, p \in Processors :
          attempts[id].observation = o /\ attempts[id].processor = p
    BY RowTypes DEF IInv, Attempt
  <1> DEFINE s == <<o, p>>
  <1>1. s \in AllSeries
    BY DEF AllSeries
  <1>2. IsLatest(id, o, p)
    <2> SUFFICES ASSUME NEW other \in Series(o, p)
                 PROVE  attempts[other].number <= attempts[id].number
      BY <1>0 DEF IsLatest, Series
    <2>1. /\ other \in Ids /\ other \in Int /\ id \in Int
          /\ attempts[other].number \in Int /\ attempts[id].number \in Int
      BY RowTypes DEF IInv, Series, Attempt
    <2>2. ~ (id < other)
      BY <1>0, <2>1 DEF IInv, OlderAreTerminal, Series, Processing, Terminal
    <2>3. other < id => attempts[other].number < attempts[id].number
      BY <1>0, <2>1 DEF IInv, LinearNumbers, Series
    <2> QED
      BY <2>1, <2>2, <2>3
  <1>3. \A q \in Observations, r \in Processors : Series(q, r)' = Series(q, r)
    BY SameSeries
  <1>4. IsLatest(id, o, p)' /\ id \in Ids'
    BY <1>1, <1>2, <1>3, LatestKept DEF RowsKept, SameIdentity, Series
  <1>5. LatestOf(o, p) = Summary(attempts[id]) /\ LatestOf(o, p)' = Summary(attempts'[id])
    BY <1>1, <1>2, <1>4, LatestOfIs, LatestOfIsNext DEF LatestOfIsSummary, Summary
  <1>6. \A q \in Observations, r \in Processors :
          <<q, r>> # s => LatestOf(q, r)' = LatestOf(q, r)
    <2> SUFFICES ASSUME NEW q \in Observations, NEW r \in Processors, <<q, r>> # s
                 PROVE  LatestOf(q, r)' = LatestOf(q, r)
      OBVIOUS
    <2>1. id \notin Series(q, r)
      BY <1>0 DEF Series
    <2>2. \A other \in Series(q, r) : attempts'[other] = attempts[other]
      BY <2>1 DEF Series
    <2> QED
      BY <1>3, <2>2, SummaryKept
  <1>7. LatestOf(o, p)' = [LatestOf(o, p) EXCEPT !.status = status]
    BY <1>5 DEF Summary, RowsKept, SameIdentity
  <1>8. Shown' = [Shown EXCEPT ![s] = [LatestOf(o, p) EXCEPT !.status = status]]
    BY <1>6, <1>7, OneSeriesChanges
  <1>9. Shown[s] # None /\ Shown[s].status = "processing"
    <2>1. Shown[s] = Summary(attempts[id])
      BY <1>1, <1>5 DEF Shown
    <2>2. Summary(attempts[id]) \in Lifecycle!Attempt
      BY RowTypes DEF IInv, Summary, Attempt, Lifecycle!Attempt, Lifecycle!Terminal, Status, Terminal
    <2> QED
      BY <2>1, <2>2, NoRowAssumption DEF Summary, Processing
  <1>10. Lifecycle!End(s, status)
    <2>1. Shown[s] = LatestOf(o, p)
      BY <1>1 DEF Shown
    <2> QED
      BY <1>8, <1>9, <2>1 DEF Lifecycle!End, Shown
  <1> QED
    BY <1>1, <1>10 DEF Lifecycle!Next, Lifecycle!Terminal, Terminal
\* Inserting latest + 1 is the step First or Another of that series.
LEMMA ClaimIsStart ==
    ASSUME IInv, IInv', NEW w \in Workers, NEW lease \in LeaseSeconds, ClaimAttempt(w, lease)
    PROVE  Lifecycle!Next
  <1>0. PICK new : new = Len(attempts) + 1
    OBVIOUS
  <1>1. PICK o \in Observations, p \in Processors, v \in Versions, n \in Nat :
          request[w] = [observation |-> o, processor |-> p, version |-> v, latest |-> n]
    BY DEF IInv, TypeOK, ClaimAttempt, Request
  <1> DEFINE s == <<o, p>>
             row == [observation |-> o, processor |-> p, version |-> v, number |-> n + 1,
                     status |-> "processing", lease |-> lease, reason |-> None]
  <1>2. row = NewAttempt(request[w], lease)
    BY <1>1 DEF NewAttempt
  <1>3. row \in Attempt
    BY LeaseAssumption DEF Attempt, Status
  <1>4. /\ new \notin Ids /\ Ids' = Ids \cup {new}
        /\ attempts'[new] = row
        /\ \A id \in Ids : attempts'[id] = attempts[id]
    BY <1>0, <1>2, <1>3, RowAppended DEF IInv, ClaimAttempt
  <1>5. \A id \in Series(o, p) :
          /\ attempts[id].status \in Terminal
          /\ attempts[id].number <= n
          /\ attempts[id].number = n => attempts[id].status = "failed" \/ v > attempts[id].version
    BY <1>1 DEF IInv, ReadIsCurrent, ClaimAttempt
  <1>6. n # 0 => \E id \in Series(o, p) : attempts[id].number = n
    BY <1>1 DEF IInv, ReadIsCurrent, ClaimAttempt
  <1>7. \A id \in Ids : attempts[id].number \in Nat \ {0} /\ attempts[id].version \in Versions
    BY RowTypes DEF IInv, Attempt
  <1>8. IsLatest(new, o, p)' /\ new \in Ids'
    <2>1. new \in Series(o, p)'
      BY <1>4 DEF Series
    <2>2. \A other \in Series(o, p)' : attempts'[other].number <= n + 1
      BY <1>4, <1>5, <1>7 DEF Series
    <2> QED
      BY <1>4, <2>1, <2>2 DEF IsLatest
  <1>9. LatestOf(o, p)' = [number |-> n + 1, version |-> v, status |-> "processing"]
    <2>1. LatestOf(o, p)' = Summary(attempts'[new])
      BY <1>8, LatestOfIsNext DEF LatestOfIsSummary, Summary
    <2> QED
      BY <1>4, <2>1 DEF Summary
  <1>10. \A q \in Observations, r \in Processors :
           <<q, r>> # s => LatestOf(q, r)' = LatestOf(q, r)
    <2> SUFFICES ASSUME NEW q \in Observations, NEW r \in Processors, <<q, r>> # s
                 PROVE  LatestOf(q, r)' = LatestOf(q, r)
      OBVIOUS
    <2>1. Series(q, r)' = Series(q, r)
      BY <1>4 DEF Series
    <2> QED
      BY <1>4, <2>1, SummaryKept DEF Series
  <1>11. /\ s \in AllSeries /\ Shown[s] = LatestOf(o, p)
         /\ Shown' = [Shown EXCEPT ![s] =
              [number |-> n + 1, version |-> v, status |-> "processing"]]
    <2>1. s \in AllSeries /\ Shown[s] = LatestOf(o, p)
      BY DEF Shown, AllSeries
    <2>2. Shown' = [Shown EXCEPT ![<<o, p>>] =
            [number |-> n + 1, version |-> v, status |-> "processing"]]
      BY <1>9, <1>10, OneSeriesChanges
    <2> QED
      BY <2>1, <2>2
  <1>12. CASE n = 0
    <2>1. \A id \in Ids : ~ IsLatest(id, o, p)
      BY <1>5, <1>7, <1>12 DEF IsLatest, Series
    <2>2. LatestOf(o, p) = None
      BY <2>1, LatestOfNone
    <2>3. Lifecycle!First(s, v)
      BY <1>11, <1>12, <2>2 DEF Lifecycle!First, Shown
    <2> QED
      BY <1>11, <2>3 DEF Lifecycle!Next
  <1>13. CASE n # 0
    <2>1. PICK id \in Ids : id \in Series(o, p) /\ attempts[id].number = n
      BY <1>6, <1>13 DEF Series
    <2>2. IsLatest(id, o, p)
      BY <1>5, <2>1 DEF IsLatest
    <2>3. LatestOf(o, p) = Summary(attempts[id])
      BY <2>2, LatestOfIs DEF LatestOfIsSummary
    <2>4. Summary(attempts[id]) \in Lifecycle!Attempt
      BY RowTypes DEF IInv, Summary, Attempt, Lifecycle!Attempt, Lifecycle!Terminal, Status, Terminal
    <2>5. Shown[s] # None /\ Shown[s].number = n
      BY <1>11, <2>1, <2>3, <2>4, NoRowAssumption DEF Summary
    <2>6. \/ Shown[s].status = "failed"
          \/ Shown[s].status \in Lifecycle!Terminal /\ v > Shown[s].version
      BY <1>5, <1>11, <2>1, <2>3 DEF Summary, Lifecycle!Terminal, Terminal
    <2>7. Lifecycle!Another(s, v)
      BY <1>11, <2>5, <2>6 DEF Lifecycle!Another, Shown
    <2> QED
      BY <1>11, <2>7 DEF Lifecycle!Next
  <1> QED
    BY <1>12, <1>13

\* The history, seen through get_latest_attempt, implements AttemptSeries:
\* one First/Another step per committed start, one End step per attempt.
THEOREM ImplementsAttemptSeries == Spec => ImplementsLifecycle
  <1>1. Init => Lifecycle!Init
    <2> SUFFICES ASSUME Init PROVE Lifecycle!Init
      OBVIOUS
    <2>1. Ids = {}
      BY DEF Init, Ids
    <2>2. \A o \in Observations, p \in Processors : LatestOf(o, p) = None
      BY <2>1, LatestOfNone
    <2> QED
      BY <2>2 DEF Lifecycle!Init, AllSeries
  <1>2. IInv /\ IInv' /\ [Next]_vars => [Lifecycle!Next]_Shown
    <2> SUFFICES ASSUME IInv, IInv', [Next]_vars
                 PROVE  Lifecycle!Next \/ UNCHANGED Shown
      OBVIOUS
    <2>0. TypeOK
      BY DEF IInv
    <2>1. ASSUME UNCHANGED attempts PROVE UNCHANGED Shown
      BY <2>0, <2>1, UnchangedKeepsRows, KeptIsStutter
    <2>2. CASE UNCHANGED vars
      BY <2>1, <2>2 DEF vars
    <2>3. CASE Next
      <3>1. ASSUME NEW w \in Workers, NEW lease \in LeaseSeconds, RenewLease(w, lease)
            PROVE  UNCHANGED Shown
        BY <2>0, <3>1, RenewKeepsRows, KeptIsStutter
      <3>2. ASSUME NEW w \in Workers, NEW id, NEW status \in Terminal,
                   NEW reason \in {None, "reported"},
                   reason # None <=> status \in {"failed", "quarantined"},
                   Finish(w, id, status, reason)
            PROVE  Lifecycle!Next
        <4>1. /\ RowsKept
              /\ id \in Ids /\ attempts'[id].status = status
              /\ \A other \in Ids : other # id => attempts'[other] = attempts[other]
          BY <2>0, <3>2, FinishKeepsRows
        <4>2. Processing(id)
          BY <3>2 DEF Finish
        <4> QED
          BY <4>1, <4>2, EndedIsEnd
      <3>3. ASSUME NEW id \in Ids, FailExpired(id)
            PROVE  Lifecycle!Next
        BY <2>0, <3>3, FailExpiredKeepsRows, EndedIsEnd DEF FailExpired, Terminal
      <3>4. ASSUME Tick PROVE UNCHANGED Shown
        BY <2>0, <3>4, TickKeepsRows, KeptIsStutter
      <3> QED
        BY <2>1, <2>3, <3>1, <3>2, <3>3, <3>4, NextCases, ClaimIsStart
           DEF BeginStart, LoseAttempt, Crash
    <2> QED
      BY <2>2, <2>3
  <1>3. [Lifecycle!Next]_Shown => [Lifecycle!Next]_([s \in AllSeries |-> LatestOf(s[1], s[2])])
    BY DEF Shown
  <1> QED
    BY <1>1, <1>2, <1>3, Invariance, PTL DEF Spec, ImplementsLifecycle, Lifecycle!Spec

=============================================================================
