-------------------------- MODULE ResolutionProofs --------------------------
(***************************************************************************)
(* What Resolution promises, for every set of candidates, their names,     *)
(* identifiers and spellings, and any number of workers.                   *)
(*                                                                         *)
(* None of the properties is inductive: what a transaction looked up may   *)
(* be out of date when it commits.  The strengthening IInv says what       *)
(* survives: the candidate stays locked and unresolved (LockHeld, Sound),  *)
(* an identifier once owned keeps its owner, and a key that a transaction  *)
(* has inserted meets no other row, committed or not (Clear, Apart).       *)
(***************************************************************************)
EXTENDS Resolution, SequenceTheorems, TLAPS

-----------------------------------------------------------------------------
(* The inductive invariant.                                                *)

In(i, identifiers) == \E n \in DOMAIN identifiers : identifiers[n] = i

Values(c) == {Normal[ProposedBy[c][n]] : n \in DOMAIN ProposedBy[c]}

\* What the operation of a transaction makes of its fields.
Shape(tx) ==
    /\ tx.kind = "create_company" => tx.by = "human" /\ tx.company = tx.candidate
    /\ tx.kind = "attach_to_company" /\ tx.by = "human" => tx.company \in Companies \cap Candidates
    /\ tx.kind \notin {"create_company", "attach_to_company"} =>
         tx.by = "human" /\ tx.company = None /\ tx.fresh = <<>> /\ tx.step \in {"decide", "identifiers"}
    /\ tx.by = "rule" =>
         /\ tx.kind = "attach_to_company" /\ tx.fresh = <<>>
         /\ tx.step \in {"look", "decide", "identifiers"}
         /\ tx.matched \subseteq Companies
         /\ tx.step # "look" => tx.company \in Companies
    /\ tx.step # "look" => tx.unseen = <<>>
    /\ tx.step # "identifiers" => tx.named = {} /\ tx.owned = {}
    /\ tx.named # {} \/ tx.owned # {} => tx.by = "human" /\ tx.company \in Candidates

\* What it is going to insert, and has inserted, is what its candidate
\* proposes.
FromProposal(tx) ==
    /\ \A n \in DOMAIN tx.unseen : In(tx.unseen[n], ProposedBy[tx.candidate])
    /\ \A n \in DOMAIN tx.fresh : In(tx.fresh[n], ProposedBy[tx.candidate])
    /\ \A row \in tx.owned :
         row.company = tx.company /\ row.candidate = tx.candidate /\ row.value \in Values(tx.candidate)
    /\ tx.named \subseteq {NewName(tx)}

\* Nothing a person accepts is forgotten: an identifier is still to be looked
\* up or inserted, or it is the company's, or this transaction has made it so.
Accounted(tx) ==
    tx.by = "human" /\ tx.company # None =>
        /\ tx.step = "identifiers" =>
             \E row \in names \cup tx.named : row.company = tx.company /\ row.name = NameOf[tx.candidate]
        /\ \A i \in Identifiers : In(i, ProposedBy[tx.candidate]) =>
             \/ In(i, tx.unseen) \/ In(i, tx.fresh)
             \/ OwnersOf(i) = {tx.company}
             \/ \E row \in tx.owned : row.value = Normal[i]

\* The keys a transaction has inserted are its own.
Clear(tx) ==
    /\ \A row \in tx.owned, other \in owners : row.value # other.value
    /\ \A row, other \in tx.owned : row.value = other.value => row = other
    /\ \A row \in tx.named, other \in names : ~ SameName(row, other)

Sound(tx) ==
    /\ tx \in Transaction
    /\ ~ Resolved(tx.candidate)
    /\ Shape(tx) /\ FromProposal(tx) /\ Accounted(tx) /\ Clear(tx)

ApartFrom(tx, ty) ==
    /\ tx.candidate # ty.candidate
    /\ \A row \in tx.owned, other \in ty.owned : row.value # other.value
    /\ \A row \in tx.named, other \in ty.named : ~ SameName(row, other)

TablesOK ==
    /\ decisions \in Seq(Decision)
    /\ names \subseteq NameRow
    /\ owners \subseteq OwnerRow
    /\ transaction \in [Workers -> Transaction \cup {None}]

TransactionsSound == \A w \in Workers : Open(w) => Sound(transaction[w])

Apart ==
    \A w, x \in Workers : w # x /\ Open(w) /\ Open(x) => ApartFrom(transaction[w], transaction[x])

Truths == OneFinalDecision /\ OneOwner /\ EveryFactHasAuthority /\ ResolvedInFull

IInv == TablesOK /\ TransactionsSound /\ Apart /\ Truths

-----------------------------------------------------------------------------
(* Steps that only move one transaction.                                   *)

LEMMA SameTables ==
    ASSUME UNCHANGED <<decisions, names, owners>>
    PROVE  /\ Truths => Truths'
           /\ \A c : Resolved(c)' <=> Resolved(c)
           /\ Companies' = Companies
           /\ \A i : OwnersOf(i)' = OwnersOf(i)
  <1>1. \A c : DecisionsOn(c)' = DecisionsOn(c)
    BY DEF DecisionsOn
  <1>2. \A c : Resolved(c)' <=> Resolved(c)
    BY <1>1 DEF Resolved
  <1>3. Companies' = Companies
    BY DEF Companies
  <1>4. \A i : OwnersOf(i)' = OwnersOf(i)
    BY DEF OwnersOf
  <1>5. OneFinalDecision => OneFinalDecision'
    BY DEF OneFinalDecision
  <1>6. OneOwner => OneOwner'
    BY DEF OneOwner, SameName
  <1>7. EveryFactHasAuthority => EveryFactHasAuthority'
    BY <1>3, SMTT(30) DEF EveryFactHasAuthority, Accepts, DecisionsOn
  <1>8. ResolvedInFull => ResolvedInFull'
    BY SMTT(30) DEF ResolvedInFull, OwnersOf
  <1> QED
    BY <1>2, <1>3, <1>4, <1>5, <1>6, <1>7, <1>8 DEF Truths

\* A transaction stays sound while its candidate is unresolved, companies and
\* names only grow, owners keep what they own, and no new row has its keys.
LEMMA SoundStays ==
    ASSUME NEW x \in Workers, NEW tx, Sound(tx), transaction'[x] = tx,
           \A n \in DOMAIN decisions' :
               decisions'[n].candidate = tx.candidate => decisions'[n].kind \notin FinalKinds,
           Companies \subseteq Companies', names \subseteq names',
           \A i \in Identifiers : \A company : OwnersOf(i) = {company} => OwnersOf(i)' = {company},
           \A row \in tx.owned, other \in owners' : row.value # other.value,
           \A row \in tx.named, other \in names' : ~ SameName(row, other)
    PROVE  Sound(transaction[x])'
  <1>1. Resolved(transaction[x].candidate)' = FALSE
    BY DEF Resolved, DecisionsOn
  <1>2. Shape(transaction[x])'
    BY DEF Sound, Shape
  <1>3. FromProposal(transaction[x])'
    BY DEF Sound, FromProposal, NewName
  <1>4. Accounted(transaction[x])'
    <2>1. Accounted(tx)
      BY DEF Sound
    <2> QED
      BY <2>1 DEF Accounted, In
  <1>5. Clear(transaction[x])'
    BY DEF Sound, Clear, SameName
  <1> QED
    BY <1>1, <1>2, <1>3, <1>4, <1>5 DEF Sound

LEMMA SoundUntouched ==
    ASSUME UNCHANGED <<decisions, names, owners>>,
           NEW x \in Workers, NEW tx, Sound(tx), transaction'[x] = tx
    PROVE  Sound(transaction[x])'
  <1>1. \A n \in DOMAIN decisions' :
           decisions'[n].candidate = tx.candidate => decisions'[n].kind \notin FinalKinds
    BY DEF Sound, Resolved, DecisionsOn
  <1>2. /\ \A row \in tx.owned, other \in owners' : row.value # other.value
        /\ \A row \in tx.named, other \in names' : ~ SameName(row, other)
    BY DEF Sound, Clear
  <1>3. \A i \in Identifiers : \A company : OwnersOf(i) = {company} => OwnersOf(i)' = {company}
    BY SameTables
  <1> QED
    BY <1>1, <1>2, <1>3, SameTables, SoundStays

\* A transaction that moves to a sound state apart from the others.
LEMMA AdvancePreserves ==
    ASSUME IInv, NEW w \in Workers, NEW tx, Advance(w, tx), Sound(tx),
           \A x \in Workers \ {w} : Open(x) => ApartFrom(tx, transaction[x])
    PROVE  IInv'
  <1> USE DEF Advance
  <1>0. transaction \in [Workers -> Transaction \cup {None}]
    BY DEF IInv, TablesOK
  <1>1. TablesOK'
    BY DEF IInv, TablesOK, Sound
  <1>2. TransactionsSound'
    <2> SUFFICES ASSUME NEW x \in Workers, Open(x)'
                 PROVE  Sound(transaction[x])'
      BY DEF TransactionsSound
    <2>1. CASE x = w
      BY <1>0, <2>1, SoundUntouched
    <2>2. CASE x # w
      <3>1. transaction'[x] = transaction[x]
        BY <1>0, <2>2
      <3>2. Sound(transaction[x])
        BY <3>1 DEF IInv, TransactionsSound, Open
      <3> QED
        BY <3>1, <3>2, SoundUntouched
    <2> QED
      BY <2>1, <2>2
  <1>3. Apart'
    <2>1. \A x \in Workers \ {w} : transaction'[x] = transaction[x]
      BY <1>0
    <2>2. transaction'[w] = tx
      BY <1>0
    <2>3. \A x, y \in Workers \ {w} : x # y /\ Open(x)' /\ Open(y)' => ApartFrom(transaction[x], transaction[y])
      BY <2>1 DEF IInv, Apart, Open
    <2>4. \A x \in Workers \ {w} : Open(x)' => ApartFrom(tx, transaction[x]) /\ ApartFrom(transaction[x], tx)
      BY <2>1 DEF Open, ApartFrom, SameName
    <2> QED
      BY <2>1, <2>2, <2>3, <2>4 DEF Apart, ApartFrom, SameName
  <1>4. Truths'
    BY SameTables DEF IInv
  <1> QED
    BY <1>1, <1>2, <1>3, <1>4 DEF IInv

LEMMA AbortPreserves ==
    ASSUME IInv, NEW w \in Workers, Abort(w)
    PROVE  IInv'
  <1> USE DEF Abort
  <1>0. transaction \in [Workers -> Transaction \cup {None}]
    BY DEF IInv, TablesOK
  <1>1. TablesOK'
    BY DEF IInv, TablesOK
  <1>2. \A x \in Workers : Open(x)' => Open(x) /\ transaction'[x] = transaction[x] /\ x # w
    BY <1>0 DEF Open
  <1>3. TransactionsSound'
    <2> SUFFICES ASSUME NEW x \in Workers, Open(x)'
                 PROVE  Sound(transaction[x])'
      BY DEF TransactionsSound
    <2> QED
      BY <1>2, SoundUntouched DEF IInv, TransactionsSound
  <1>4. Apart'
    BY <1>2 DEF IInv, Apart, ApartFrom, SameName
  <1>5. Truths'
    BY SameTables DEF IInv
  <1> QED
    BY <1>1, <1>3, <1>4, <1>5 DEF IInv

-----------------------------------------------------------------------------
(* Beginning an operation.                                                 *)

LEMMA BeginPreserves ==
    ASSUME IInv, NEW w \in Workers, NEW c \in Candidates, NEW tx,
           ~ Locked(c), Advance(w, tx), tx.candidate = c, Sound(tx),
           tx.named = {}, tx.owned = {}
    PROVE  IInv'
  <1>1. \A x \in Workers \ {w} : Open(x) => ApartFrom(tx, transaction[x])
    BY DEF Locked, ApartFrom
  <1> QED
    BY <1>1, AdvancePreserves

\* What Begin writes, when the fields of the operation are as Sound wants them.
LEMMA BegunSound ==
    ASSUME IInv, NEW c \in Candidates, ~ Resolved(c),
           NEW kind \in Kinds, NEW company \in Candidates \cup {None},
           NEW by \in {"human", "rule"}, NEW step \in {"look", "decide"},
           NEW unseen \in {<<>>, ProposedBy[c]}, NEW fresh \in {<<>>, ProposedBy[c]},
           kind = "create_company" => by = "human" /\ company = c,
           kind = "attach_to_company" /\ by = "human" => company \in Companies \cap Candidates,
           kind \notin {"create_company", "attach_to_company"} =>
               by = "human" /\ company = None /\ fresh = <<>> /\ step = "decide",
           by = "rule" => kind = "attach_to_company" /\ fresh = <<>> /\ step = "look",
           step = "decide" => unseen = <<>>,
           by = "human" /\ company # None => unseen = ProposedBy[c] \/ fresh = ProposedBy[c]
    PROVE  Sound([candidate |-> c, kind |-> kind, company |-> company, by |-> by,
                  step |-> step, unseen |-> unseen, fresh |-> fresh, matched |-> {},
                  named |-> {}, owned |-> {}])
  <1> DEFINE tx == [candidate |-> c, kind |-> kind, company |-> company, by |-> by,
                    step |-> step, unseen |-> unseen, fresh |-> fresh, matched |-> {},
                    named |-> {}, owned |-> {}]
  <1>1. tx \in Transaction
    <2>1. ProposedBy[c] \in Seq(Identifiers) /\ <<>> \in Seq(Identifiers)
      BY ProposedAssumption
    <2> QED
      BY <2>1 DEF Transaction
  <1>2. Shape(tx)
    BY DEF Shape
  <1>3. FromProposal(tx)
    <2>1. \A n \in DOMAIN unseen : In(unseen[n], ProposedBy[c])
      BY DEF In
    <2>2. \A n \in DOMAIN fresh : In(fresh[n], ProposedBy[c])
      BY DEF In
    <2> QED
      BY <2>1, <2>2 DEF FromProposal
  <1>4. Accounted(tx)
    BY DEF Accounted
  <1>5. Clear(tx)
    BY DEF Clear
  <1> QED
    BY <1>1, <1>2, <1>3, <1>4, <1>5 DEF Sound

LEMMA BeginResolutionPreserves ==
    ASSUME IInv, NEW w \in Workers, NEW c \in Candidates, BeginResolution(w, c)
    PROVE  IInv'
  <1> USE DEF Begin, MayOpen, Kinds, FinalKinds
  <1>1. CASE BeginCreate(w, c)
    <2> DEFINE tx == [candidate |-> c, kind |-> "create_company", company |-> c, by |-> "human",
                      step |-> "decide", unseen |-> <<>>, fresh |-> ProposedBy[c], matched |-> {},
                      named |-> {}, owned |-> {}]
    <2>1. Sound(tx)
      BY <1>1, BegunSound DEF BeginCreate
    <2>2. Advance(w, tx) /\ ~ Locked(c)
      BY <1>1 DEF BeginCreate
    <2> QED
      BY <2>1, <2>2, BeginPreserves
  <1>2. ASSUME NEW company \in Candidates, BeginAttach(w, c, company)
        PROVE  IInv'
    <2> DEFINE tx == [candidate |-> c, kind |-> "attach_to_company", company |-> company, by |-> "human",
                      step |-> "look", unseen |-> ProposedBy[c], fresh |-> <<>>, matched |-> {},
                      named |-> {}, owned |-> {}]
    <2>1. Sound(tx)
      BY <1>2, BegunSound DEF BeginAttach
    <2>2. Advance(w, tx) /\ ~ Locked(c)
      BY <1>2 DEF BeginAttach
    <2> QED
      BY <2>1, <2>2, BeginPreserves
  <1>3. CASE BeginRule(w, c)
    <2> DEFINE tx == [candidate |-> c, kind |-> "attach_to_company", company |-> None, by |-> "rule",
                      step |-> "look", unseen |-> ProposedBy[c], fresh |-> <<>>, matched |-> {},
                      named |-> {}, owned |-> {}]
    <2>1. Sound(tx)
      BY <1>3, BegunSound DEF BeginRule
    <2>2. Advance(w, tx) /\ ~ Locked(c)
      BY <1>3 DEF BeginRule
    <2> QED
      BY <2>1, <2>2, BeginPreserves
  <1>4. ASSUME NEW kind \in Kinds, BeginRecord(w, c, kind)
        PROVE  IInv'
    <2> DEFINE tx == [candidate |-> c, kind |-> kind, company |-> None, by |-> "human",
                      step |-> "decide", unseen |-> <<>>, fresh |-> <<>>, matched |-> {},
                      named |-> {}, owned |-> {}]
    <2>1. Sound(tx)
      BY <1>4, BegunSound DEF BeginRecord
    <2>2. Advance(w, tx) /\ ~ Locked(c)
      BY <1>4 DEF BeginRecord
    <2> QED
      BY <2>1, <2>2, BeginPreserves
  <1> QED
    BY <1>1, <1>2, <1>3, <1>4 DEF BeginResolution

-----------------------------------------------------------------------------
(* Sequences of identifiers.                                               *)

LEMMA HeadAndTail ==
    ASSUME NEW S, NEW s \in Seq(S), s # <<>>
    PROVE  /\ Head(s) \in S /\ Tail(s) \in Seq(S) /\ In(Head(s), s)
           /\ \A x : In(x, s) => x = Head(s) \/ In(x, Tail(s))
           /\ \A x : In(x, Tail(s)) => In(x, s)
  <1>1. Head(s) \in S /\ Tail(s) \in Seq(S) /\ Len(Tail(s)) = Len(s) - 1 /\ Head(s) = s[1]
    BY HeadTailProperties
  <1>2. \A n \in 1 .. Len(s) - 1 : Tail(s)[n] = s[n + 1]
    BY HeadTailProperties
  <1>3. DOMAIN s = 1 .. Len(s) /\ DOMAIN Tail(s) = 1 .. Len(s) - 1 /\ Len(s) \in Nat \ {0}
    BY <1>1, LenProperties, EmptySeq
  <1>4. ASSUME NEW x, In(x, s), x # Head(s)
        PROVE  In(x, Tail(s))
    <2>1. PICK n \in 1 .. Len(s) : s[n] = x
      BY <1>3, <1>4 DEF In
    <2>2. n - 1 \in 1 .. Len(s) - 1 /\ Tail(s)[n - 1] = s[n]
      BY <1>1, <1>2, <1>3, <1>4, <2>1
    <2> QED
      BY <1>3, <2>1, <2>2 DEF In
  <1>5. ASSUME NEW x, In(x, Tail(s))
        PROVE  In(x, s)
    <2>1. PICK n \in 1 .. Len(s) - 1 : Tail(s)[n] = x
      BY <1>3, <1>5 DEF In
    <2>2. n + 1 \in 1 .. Len(s) /\ s[n + 1] = x
      BY <1>2, <1>3, <2>1
    <2> QED
      BY <1>3, <2>2 DEF In
  <1> QED
    BY <1>1, <1>3, <1>4, <1>5 DEF In

LEMMA Appended ==
    ASSUME NEW S, NEW s \in Seq(S), NEW e \in S
    PROVE  /\ Append(s, e) \in Seq(S)
           /\ \A x : In(x, Append(s, e)) <=> In(x, s) \/ x = e
  <1>1. /\ Append(s, e) \in Seq(S) /\ Len(Append(s, e)) = Len(s) + 1
        /\ \A n \in 1 .. Len(s) : Append(s, e)[n] = s[n]
        /\ Append(s, e)[Len(s) + 1] = e
    BY AppendProperties
  <1>2. DOMAIN s = 1 .. Len(s) /\ DOMAIN Append(s, e) = 1 .. Len(s) + 1 /\ Len(s) \in Nat
    BY <1>1, LenProperties
  <1>3. \A x : In(x, s) => In(x, Append(s, e))
    BY <1>1, <1>2 DEF In
  <1>4. In(e, Append(s, e))
    BY <1>1, <1>2 DEF In
  <1>5. ASSUME NEW x, In(x, Append(s, e)), x # e
        PROVE  In(x, s)
    <2>1. PICK n \in 1 .. Len(s) + 1 : Append(s, e)[n] = x
      BY <1>2, <1>5 DEF In
    <2>2. n \in 1 .. Len(s)
      BY <1>1, <1>2, <1>5, <2>1
    <2> QED
      BY <1>1, <1>2, <2>1, <2>2 DEF In
  <1> QED
    BY <1>1, <1>3, <1>4, <1>5

-----------------------------------------------------------------------------
(* The statements that write nothing visible.                              *)

LEMMA MovePreserves ==
    ASSUME IInv, NEW w \in Workers, Open(w), NEW tx, Advance(w, tx), Sound(tx),
           tx.candidate = transaction[w].candidate,
           tx.named = transaction[w].named, tx.owned = transaction[w].owned
    PROVE  IInv'
  <1>1. \A x \in Workers \ {w} : Open(x) => ApartFrom(tx, transaction[x])
    BY DEF IInv, Apart, ApartFrom
  <1> QED
    BY <1>1, AdvancePreserves

LEMMA SoundAt ==
    ASSUME IInv, NEW w \in Workers, Open(w)
    PROVE  Sound(transaction[w]) /\ transaction[w] \in Transaction
  BY DEF IInv, TransactionsSound, Sound

\* An owner is a company.
LEMMA OwnersAreCompanies ==
    ASSUME IInv, NEW i \in Identifiers
    PROVE  OwnersOf(i) \subseteq Companies /\ OwnersOf(i) \subseteq Candidates
  <1>1. ASSUME NEW row \in owners
        PROVE  row.company \in Companies /\ row.company \in Candidates
    <2>1. row \in OwnerRow /\ Accepts(row.candidate, row.company)
      BY DEF IInv, TablesOK, Truths, EveryFactHasAuthority
    <2>2. row.company \in Candidates /\ row.company # None
      BY <2>1, NothingAssumption DEF OwnerRow
    <2> QED
      BY <2>1, <2>2 DEF Accepts, DecisionsOn, IInv, Truths, EveryFactHasAuthority
  <1> QED
    BY <1>1 DEF OwnersOf

LEMMA LookUpPreserves ==
    ASSUME IInv, NEW w \in Workers, LookUp(w)
    PROVE  IInv'
  <1> DEFINE tx == transaction[w]
             i == Head(tx.unseen)
             rest == Tail(tx.unseen)
  <1>1. Open(w) /\ tx.step = "look" /\ tx.unseen # <<>>
    BY DEF LookUp, At
  <1>2. Sound(tx) /\ tx \in Transaction
    BY <1>1, SoundAt
  <1>3. tx.unseen \in Seq(Identifiers) /\ tx.fresh \in Seq(Identifiers)
    BY <1>2 DEF Transaction
  <1>4. /\ i \in Identifiers /\ rest \in Seq(Identifiers) /\ In(i, tx.unseen)
        /\ \A x : In(x, tx.unseen) => x = i \/ In(x, rest)
        /\ \A x : In(x, rest) => In(x, tx.unseen)
    BY <1>1, <1>3, HeadAndTail
  <1>5. /\ \A x : In(x, tx.unseen) => In(x, ProposedBy[tx.candidate])
        /\ \A x : In(x, tx.fresh) => In(x, ProposedBy[tx.candidate])
    BY <1>2 DEF Sound, FromProposal, In
  <1>6. tx.named = {} /\ tx.owned = {}
    BY <1>1, <1>2 DEF Sound, Shape
  <1> HIDE DEF tx, i, rest
  <1>7. CASE tx.by = "human" /\ OwnersOf(i) = {} /\ Advance(w, [tx EXCEPT !.unseen = rest, !.fresh = Append(@, i)])
    <2>0. PICK ty : ty = [tx EXCEPT !.unseen = rest, !.fresh = Append(@, i)]
      OBVIOUS
    <2>1. /\ Append(tx.fresh, i) \in Seq(Identifiers)
          /\ \A x : In(x, Append(tx.fresh, i)) <=> In(x, tx.fresh) \/ x = i
      BY <1>3, <1>4, Appended
    <2>2. ty \in Transaction
      BY <1>2, <2>0, <1>4, <2>1 DEF Transaction
    <2>3. /\ ty.candidate = tx.candidate /\ ty.kind = tx.kind /\ ty.company = tx.company /\ ty.by = tx.by
          /\ ty.step = tx.step /\ ty.unseen = rest /\ ty.fresh = Append(tx.fresh, i)
          /\ ty.matched = tx.matched /\ ty.named = tx.named /\ ty.owned = tx.owned
      BY <1>2, <2>0 DEF Transaction
    <2>4. Shape(ty)
      BY <1>1, <1>2, <1>6, <1>7, <2>3 DEF Sound, Shape
    <2>5. FromProposal(ty)
      <3>0. \A n \in DOMAIN ty.unseen : In(ty.unseen[n], ty.unseen)
        BY DEF In
      <3>1. \A n \in DOMAIN ty.unseen : In(ty.unseen[n], ProposedBy[ty.candidate])
        BY <1>4, <1>5, <2>3, <3>0
      <3>2. \A n \in DOMAIN ty.fresh : In(ty.fresh[n], ty.fresh)
        BY DEF In
      <3>3. \A n \in DOMAIN ty.fresh : In(ty.fresh[n], ProposedBy[ty.candidate])
        BY <1>4, <1>5, <2>1, <2>3, <3>2
      <3> QED
        BY <1>6, <2>3, <3>1, <3>3 DEF FromProposal
    <2>6. Accounted(ty)
      BY <1>1, <1>2, <1>4, <1>6, <2>1, <2>3 DEF Sound, Accounted
    <2>7. Sound(ty)
      BY <1>2, <1>6, <2>2, <2>3, <2>4, <2>5, <2>6 DEF Sound, Clear
    <2> QED
      <3>1. Advance(w, ty)
        BY <1>7, <2>0
      <3>2. /\ ty.candidate = transaction[w].candidate
            /\ ty.named = transaction[w].named /\ ty.owned = transaction[w].owned
        BY <2>3 DEF tx
      <3> QED
        BY <1>1, <2>7, <3>1, <3>2, MovePreserves
  <1>8. CASE tx.by = "human" /\ OwnersOf(i) = {tx.company} /\ Advance(w, [tx EXCEPT !.unseen = rest])
    <2>0. PICK ty : ty = [tx EXCEPT !.unseen = rest]
      OBVIOUS
    <2>1. ty \in Transaction
      BY <1>2, <2>0, <1>4 DEF Transaction
    <2>2. /\ ty.candidate = tx.candidate /\ ty.kind = tx.kind /\ ty.company = tx.company /\ ty.by = tx.by
          /\ ty.step = tx.step /\ ty.unseen = rest /\ ty.fresh = tx.fresh
          /\ ty.matched = tx.matched /\ ty.named = tx.named /\ ty.owned = tx.owned
      BY <1>2, <2>0 DEF Transaction
    <2>3. Shape(ty)
      BY <1>1, <1>2, <1>6, <1>8, <2>2 DEF Sound, Shape
    <2>4. FromProposal(ty)
      <3>0. \A n \in DOMAIN ty.unseen : In(ty.unseen[n], ty.unseen)
        BY DEF In
      <3>1. \A n \in DOMAIN ty.unseen : In(ty.unseen[n], ProposedBy[ty.candidate])
        BY <1>4, <1>5, <2>2, <3>0
      <3> QED
        BY <1>2, <1>6, <2>2, <3>1 DEF Sound, FromProposal
    <2>5. Accounted(ty)
      BY <1>1, <1>2, <1>4, <1>6, <1>8, <2>2 DEF Sound, Accounted
    <2>6. Sound(ty)
      BY <1>2, <1>6, <2>1, <2>2, <2>3, <2>4, <2>5 DEF Sound, Clear
    <2> QED
      <3>1. Advance(w, ty)
        BY <1>8, <2>0
      <3>2. /\ ty.candidate = transaction[w].candidate
            /\ ty.named = transaction[w].named /\ ty.owned = transaction[w].owned
        BY <2>2 DEF tx
      <3> QED
        BY <1>1, <2>6, <3>1, <3>2, MovePreserves
  <1>9. CASE tx.by = "rule" /\ Advance(w, [tx EXCEPT !.unseen = rest, !.matched = @ \cup OwnersOf(i)])
    <2>0. PICK ty : ty = [tx EXCEPT !.unseen = rest, !.matched = @ \cup OwnersOf(i)]
      OBVIOUS
    <2>1. OwnersOf(i) \subseteq Companies /\ OwnersOf(i) \subseteq Candidates
      BY <1>4, OwnersAreCompanies
    <2>2. ty \in Transaction
      BY <1>2, <2>0, <1>4, <2>1 DEF Transaction
    <2>3. /\ ty.candidate = tx.candidate /\ ty.kind = tx.kind /\ ty.company = tx.company /\ ty.by = tx.by
          /\ ty.step = tx.step /\ ty.unseen = rest /\ ty.fresh = tx.fresh
          /\ ty.matched = tx.matched \cup OwnersOf(i) /\ ty.named = tx.named /\ ty.owned = tx.owned
      BY <1>2, <2>0 DEF Transaction
    <2>4. Shape(ty)
      BY <1>1, <1>2, <1>6, <1>9, <2>1, <2>3 DEF Sound, Shape
    <2>5. FromProposal(ty)
      <3>0. \A n \in DOMAIN ty.unseen : In(ty.unseen[n], ty.unseen)
        BY DEF In
      <3>1. \A n \in DOMAIN ty.unseen : In(ty.unseen[n], ProposedBy[ty.candidate])
        BY <1>4, <1>5, <2>3, <3>0
      <3> QED
        BY <1>2, <1>6, <2>3, <3>1 DEF Sound, FromProposal
    <2>6. Accounted(ty)
      BY <1>9, <2>3 DEF Accounted
    <2>7. Sound(ty)
      BY <1>2, <1>6, <2>2, <2>3, <2>4, <2>5, <2>6 DEF Sound, Clear
    <2> QED
      <3>1. Advance(w, ty)
        BY <1>9, <2>0
      <3>2. /\ ty.candidate = transaction[w].candidate
            /\ ty.named = transaction[w].named /\ ty.owned = transaction[w].owned
        BY <2>3 DEF tx
      <3> QED
        BY <1>1, <2>7, <3>1, <3>2, MovePreserves
  <1> QED
    BY <1>7, <1>8, <1>9 DEF LookUp, tx, i, rest

\* A transaction that has written nothing but its decision moves on.
LEMMA StepPreserves ==
    ASSUME IInv, NEW w \in Workers, Open(w), transaction[w].step \in {"look", "decide", "check_name"},
           NEW step \in {"decide", "check_name", "name", "identifiers"}, NEW company \in Candidates \cup {None},
           Advance(w, [transaction[w] EXCEPT !.step = step, !.company = company]),
           transaction[w].unseen = <<>>,
           transaction[w].by = "human" => company = transaction[w].company,
           transaction[w].by = "rule" => step \in {"decide", "identifiers"} /\ company \in Companies,
           transaction[w].kind \notin {"create_company", "attach_to_company"} => step = "identifiers",
           step = "identifiers" /\ transaction[w].by = "human" /\ company # None =>
               \E row \in names : row.company = company /\ row.name = NameOf[transaction[w].candidate]
    PROVE  IInv'
  <1> DEFINE tx == transaction[w]
  <1>1. Sound(tx) /\ tx \in Transaction
    BY SoundAt
  <1>2. tx.named = {} /\ tx.owned = {}
    BY <1>1 DEF Sound, Shape
  <1>3. PICK ty : ty = [tx EXCEPT !.step = step, !.company = company]
    OBVIOUS
  <1> HIDE DEF tx
  <1>4. ty \in Transaction
    BY <1>1, <1>3 DEF Transaction
  <1>5. /\ ty.candidate = tx.candidate /\ ty.kind = tx.kind /\ ty.company = company /\ ty.by = tx.by
        /\ ty.step = step /\ ty.unseen = tx.unseen /\ ty.fresh = tx.fresh
        /\ ty.matched = tx.matched /\ ty.named = tx.named /\ ty.owned = tx.owned
    BY <1>1, <1>3 DEF Transaction
  <1>6. tx.by \in {"human", "rule"}
    BY <1>1 DEF Transaction
  <1>7. Shape(ty)
    BY <1>1, <1>2, <1>5, <1>6 DEF Sound, Shape, tx
  <1>8. FromProposal(ty)
    BY <1>1, <1>2, <1>5 DEF Sound, FromProposal
  <1>9. Accounted(ty)
    BY <1>1, <1>2, <1>5 DEF Sound, Accounted, tx
  <1>10. Sound(ty)
    BY <1>1, <1>2, <1>4, <1>5, <1>7, <1>8, <1>9 DEF Sound, Clear
  <1>11. Advance(w, ty)
    BY <1>3 DEF tx
  <1>12. /\ ty.candidate = transaction[w].candidate
         /\ ty.named = transaction[w].named /\ ty.owned = transaction[w].owned
    BY <1>5 DEF tx
  <1> QED
    BY <1>10, <1>11, <1>12, MovePreserves

LEMMA StepOnly ==
    ASSUME IInv, NEW w \in Workers, Open(w), NEW step
    PROVE  [transaction[w] EXCEPT !.step = step] =
               [transaction[w] EXCEPT !.step = step, !.company = transaction[w].company]
  BY SoundAt DEF Transaction

LEMMA HumanDecidesPreserves ==
    ASSUME IInv, NEW w \in Workers, HumanDecides(w)
    PROVE  IInv'
  <1>1. /\ Open(w) /\ transaction[w].step = "look" /\ transaction[w].unseen = <<>>
        /\ transaction[w].by = "human"
        /\ Advance(w, [transaction[w] EXCEPT !.step = "decide"])
    BY DEF HumanDecides, LookedUp, At
  <1>2. transaction[w] \in Transaction /\ Shape(transaction[w])
    BY <1>1, SoundAt DEF Sound
  <1>3. transaction[w].company \in Candidates \cup {None}
    BY <1>2 DEF Transaction
  <1>4. PICK company \in Candidates \cup {None} : company = transaction[w].company
    BY <1>3
  <1>5. Advance(w, [transaction[w] EXCEPT !.step = "decide", !.company = company])
    BY <1>1, <1>4, StepOnly
  <1>6. transaction[w].kind \in {"create_company", "attach_to_company"}
    BY <1>1, <1>2 DEF Shape
  <1> QED
    BY <1>1, <1>4, <1>5, <1>6, StepPreserves

LEMMA RuleDecidesPreserves ==
    ASSUME IInv, NEW w \in Workers, RuleDecides(w)
    PROVE  IInv'
  <1>1. /\ Open(w) /\ transaction[w].step = "look" /\ transaction[w].unseen = <<>>
        /\ transaction[w].by = "rule"
    BY DEF RuleDecides, LookedUp, At
  <1>2. Shape(transaction[w]) /\ transaction[w] \in Transaction
    BY <1>1, SoundAt DEF Sound
  <1>3. transaction[w].matched \subseteq Candidates
    BY <1>2 DEF Transaction
  <1>4. PICK company \in Candidates :
          /\ company \in transaction[w].matched
          /\ Advance(w, [transaction[w] EXCEPT !.step = "decide", !.company = company])
    BY <1>3 DEF RuleDecides
  <1>5. company \in Companies /\ transaction[w].kind = "attach_to_company"
    BY <1>1, <1>2, <1>4 DEF Shape
  <1> QED
    BY <1>1, <1>4, <1>5, StepPreserves

LEMMA InsertDecisionPreserves ==
    ASSUME IInv, NEW w \in Workers, InsertDecision(w)
    PROVE  IInv'
  <1>1. /\ Open(w) /\ transaction[w].step = "decide"
        /\ Advance(w, [transaction[w] EXCEPT !.step = AfterDecision(transaction[w])])
    BY DEF InsertDecision, At
  <1>2. transaction[w] \in Transaction /\ Shape(transaction[w])
    BY <1>1, SoundAt DEF Sound
  <1>3. /\ transaction[w].company \in Candidates \cup {None} /\ transaction[w].by \in {"human", "rule"}
        /\ transaction[w].kind \in Kinds
    BY <1>2 DEF Transaction
  <1>4. PICK company \in Candidates \cup {None},
             step \in {"decide", "check_name", "name", "identifiers"} :
          company = transaction[w].company /\ step = AfterDecision(transaction[w])
    BY <1>3 DEF AfterDecision
  <1>5. Advance(w, [transaction[w] EXCEPT !.step = step, !.company = company])
    BY <1>1, <1>4, StepOnly
  <1>6. /\ transaction[w].unseen = <<>>
        /\ transaction[w].by = "rule" => step \in {"decide", "identifiers"} /\ company \in Companies
        /\ transaction[w].kind \notin {"create_company", "attach_to_company"} => step = "identifiers"
        /\ step = "identifiers" /\ transaction[w].by = "human" => company = None
    BY <1>1, <1>2, <1>3, <1>4 DEF Shape, AfterDecision, Kinds, FinalKinds
  <1> QED
    BY <1>1, <1>4, <1>5, <1>6, StepPreserves

LEMMA CheckNamePreserves ==
    ASSUME IInv, NEW w \in Workers, CheckName(w)
    PROVE  IInv'
  <1>1. /\ Open(w) /\ transaction[w].step = "check_name"
    BY DEF CheckName, At
  <1>2. transaction[w] \in Transaction /\ Shape(transaction[w])
    BY <1>1, SoundAt DEF Sound
  <1>3. transaction[w].company \in Candidates \cup {None} /\ transaction[w].by \in {"human", "rule"}
    BY <1>2 DEF Transaction
  <1>4. PICK company \in Candidates \cup {None},
             step \in {"decide", "check_name", "name", "identifiers"} :
          /\ company = transaction[w].company
          /\ step = IF NameTaken(transaction[w]) THEN "identifiers" ELSE "name"
    BY <1>3
  <1>5. Advance(w, [transaction[w] EXCEPT !.step = step, !.company = company])
    BY <1>1, <1>4, StepOnly DEF CheckName
  <1>6. /\ transaction[w].unseen = <<>> /\ transaction[w].by = "human"
        /\ transaction[w].kind \in {"create_company", "attach_to_company"}
    BY <1>1, <1>2, <1>3 DEF Shape
  <1>7. step = "identifiers" =>
          \E row \in names : row.company = company /\ row.name = NameOf[transaction[w].candidate]
    BY <1>4 DEF NameTaken, SameName, NewName
  <1> QED
    BY <1>1, <1>4, <1>5, <1>6, <1>7, StepPreserves

-----------------------------------------------------------------------------
(* The statements that insert a row.                                       *)

LEMMA InsertNamePreserves ==
    ASSUME IInv, NEW w \in Workers, InsertName(w)
    PROVE  IInv'
  <1>1. Open(w) /\ transaction[w].step = "name" /\ ~ Blocked(w) /\ ~ NameTaken(transaction[w])
    BY DEF InsertName, At
  <1>2. PICK tx \in Transaction : tx = transaction[w] /\ Sound(tx)
    BY <1>1, SoundAt
  <1>3. PICK ty : ty = [tx EXCEPT !.step = "identifiers", !.named = {NewName(tx)}]
    OBVIOUS
  <1>4. /\ ty.candidate = tx.candidate /\ ty.kind = tx.kind /\ ty.company = tx.company /\ ty.by = tx.by
        /\ ty.step = "identifiers" /\ ty.unseen = tx.unseen /\ ty.fresh = tx.fresh
        /\ ty.matched = tx.matched /\ ty.named = {NewName(tx)} /\ ty.owned = tx.owned
    BY <1>3 DEF Transaction
  <1>5. tx.owned = {} /\ tx.by = "human" /\ tx.company \in Candidates /\ tx.unseen = <<>>
        /\ tx.kind \in {"create_company", "attach_to_company"}
    BY <1>1, <1>2 DEF Sound, Shape, Transaction
  <1>6. NewName(tx) \in NameRow
    BY <1>5 DEF NewName, NameRow, Transaction
  <1>7. ty \in Transaction
    BY <1>3, <1>6 DEF Transaction
  <1>8. Shape(ty)
    BY <1>2, <1>4, <1>5 DEF Sound, Shape
  <1>9. FromProposal(ty)
    BY <1>2, <1>4, <1>5 DEF Sound, FromProposal, NewName
  <1>10. Accounted(ty)
    <2>1. \E row \in names \cup ty.named : row.company = ty.company /\ row.name = NameOf[ty.candidate]
      <3>1. NewName(tx).company = ty.company /\ NewName(tx).name = NameOf[ty.candidate]
        BY <1>4 DEF NewName
      <3> QED
        BY <1>4, <3>1
    <2>2. ty.company # None =>
            \A i \in Identifiers : In(i, ProposedBy[ty.candidate]) =>
              \/ In(i, ty.unseen) \/ In(i, ty.fresh)
              \/ OwnersOf(i) = {ty.company}
              \/ \E row \in ty.owned : row.value = Normal[i]
      BY <1>2, <1>4, <1>5 DEF Sound, Accounted
    <2> QED
      BY <2>1, <2>2 DEF Accounted
  <1>11. Clear(ty)
    BY <1>1, <1>2, <1>4, <1>5 DEF Clear, NameTaken, SameName
  <1>12. Sound(ty)
    BY <1>2, <1>4, <1>7, <1>8, <1>9, <1>10, <1>11 DEF Sound
  <1>13. Advance(w, ty)
    BY <1>2, <1>3 DEF InsertName
  <1>14. ASSUME NEW x \in Workers \ {w}, Open(x)
         PROVE  ApartFrom(ty, transaction[x])
    <2>1. \A row \in transaction[x].named : ~ SameName(row, NewName(tx))
      BY <1>1, <1>2, <1>14 DEF Blocked, WaitsFor, At
    <2>2. ty.candidate # transaction[x].candidate
      BY <1>1, <1>2, <1>4, <1>14 DEF IInv, Apart, ApartFrom
    <2> QED
      BY <1>4, <1>5, <2>1, <2>2 DEF ApartFrom, SameName
  <1> QED
    BY <1>12, <1>13, <1>14, AdvancePreserves

LEMMA InsertIdentifierPreserves ==
    ASSUME IInv, NEW w \in Workers, InsertIdentifier(w)
    PROVE  IInv'
  <1>1. /\ Open(w) /\ transaction[w].step = "identifiers" /\ transaction[w].fresh # <<>>
        /\ InsertingIdentifier(w) /\ ~ Blocked(w) /\ ~ ValueTaken(transaction[w])
    BY DEF InsertIdentifier, InsertingIdentifier, At
  <1>2. PICK tx \in Transaction : tx = transaction[w] /\ Sound(tx)
    BY <1>1, SoundAt
  <1>3. PICK new : new = NewOwner(tx)
    OBVIOUS
  <1>4. PICK ty : ty = [tx EXCEPT !.fresh = Tail(@), !.owned = @ \cup {new}]
    OBVIOUS
  <1>5. /\ ty.candidate = tx.candidate /\ ty.kind = tx.kind /\ ty.company = tx.company /\ ty.by = tx.by
        /\ ty.step = tx.step /\ ty.unseen = tx.unseen /\ ty.fresh = Tail(tx.fresh)
        /\ ty.matched = tx.matched /\ ty.named = tx.named /\ ty.owned = tx.owned \cup {new}
    BY <1>4 DEF Transaction
  <1>6. tx.by = "human" /\ tx.company \in Candidates
        /\ tx.kind \in {"create_company", "attach_to_company"}
    BY <1>1, <1>2 DEF Sound, Shape, Transaction
  <1>7. tx.fresh \in Seq(Identifiers) /\ tx.fresh # <<>>
    BY <1>1, <1>2 DEF Transaction
  <1>8. /\ Head(tx.fresh) \in Identifiers /\ Tail(tx.fresh) \in Seq(Identifiers)
        /\ In(Head(tx.fresh), tx.fresh)
        /\ \A x : In(x, tx.fresh) => x = Head(tx.fresh) \/ In(x, Tail(tx.fresh))
        /\ \A x : In(x, Tail(tx.fresh)) => In(x, tx.fresh)
    BY <1>7, HeadAndTail
  <1>9. /\ new.company = tx.company /\ new.candidate = tx.candidate
        /\ new.value = Normal[Head(tx.fresh)] /\ new \in OwnerRow
    BY <1>3, <1>6, <1>8 DEF NewOwner, OwnerRow, Transaction
  <1>10. \A x : In(x, tx.fresh) => In(x, ProposedBy[tx.candidate])
    BY <1>2 DEF Sound, FromProposal, In
  <1>11. ty \in Transaction
    BY <1>4, <1>8, <1>9 DEF Transaction
  <1>12. Shape(ty)
    BY <1>1, <1>2, <1>5, <1>6 DEF Sound, Shape
  <1>13. FromProposal(ty)
    <2>1. \A n \in DOMAIN ty.fresh : In(ty.fresh[n], ty.fresh)
      BY DEF In
    <2>2. \A n \in DOMAIN ty.fresh : In(ty.fresh[n], ProposedBy[ty.candidate])
      BY <1>5, <1>8, <1>10, <2>1
    <2>3. new.value \in Values(tx.candidate)
      BY <1>8, <1>9, <1>10 DEF In, Values
    <2>4. \A row \in ty.owned : /\ row.company = ty.company /\ row.candidate = ty.candidate
                                /\ row.value \in Values(ty.candidate)
      BY <1>2, <1>5, <1>9, <2>3 DEF Sound, FromProposal
    <2>5. /\ \A n \in DOMAIN ty.unseen : In(ty.unseen[n], ProposedBy[ty.candidate])
          /\ ty.named \subseteq {NewName(ty)}
      BY <1>2, <1>5 DEF Sound, FromProposal, NewName
    <2> QED
      BY <2>2, <2>4, <2>5 DEF FromProposal
  <1>14. Accounted(ty)
    <2>1. \A i : In(i, tx.fresh) => In(i, ty.fresh) \/ new.value = Normal[i]
      BY <1>5, <1>8, <1>9
    <2> QED
      BY <1>2, <1>5, <2>1 DEF Sound, Accounted
  <1>15. Clear(ty)
    <2>1. \A row \in owners \cup tx.owned : row.value # new.value
      BY <1>1, <1>2, <1>3 DEF ValueTaken
    <2> QED
      BY <1>2, <1>5, <2>1 DEF Sound, Clear
  <1>16. Sound(ty)
    BY <1>2, <1>5, <1>11, <1>12, <1>13, <1>14, <1>15 DEF Sound
  <1>17. Advance(w, ty)
    BY <1>2, <1>3, <1>4 DEF InsertIdentifier
  <1>18. ASSUME NEW x \in Workers \ {w}, Open(x)
         PROVE  ApartFrom(ty, transaction[x])
    <2>1. \A row \in transaction[x].owned : row.value # new.value
      BY <1>1, <1>2, <1>3, <1>18 DEF Blocked, WaitsFor
    <2>2. ApartFrom(tx, transaction[x])
      BY <1>1, <1>2, <1>18 DEF IInv, Apart
    <2> QED
      BY <1>5, <2>1, <2>2 DEF ApartFrom, SameName
  <1> QED
    BY <1>16, <1>17, <1>18, AdvancePreserves

-----------------------------------------------------------------------------
(* The commit.                                                             *)

LEMMA CommitPreserves ==
    ASSUME IInv, NEW w \in Workers, CommitResolution(w)
    PROVE  IInv'
  <1>1. Open(w) /\ transaction[w].step = "identifiers" /\ transaction[w].fresh = <<>>
    BY DEF CommitResolution, At
  <1>2. PICK tx \in Transaction : tx = transaction[w] /\ Sound(tx)
    BY <1>1, SoundAt
  <1>3. PICK d : d = NewDecision(tx)
    OBVIOUS
  <1>4. /\ d.candidate = tx.candidate /\ d.kind = tx.kind /\ d.company = tx.company /\ d.by = tx.by
        /\ d \in Decision
    BY <1>3 DEF NewDecision, Decision, Transaction
  <1>5. /\ decisions' = Append(decisions, d)
        /\ names' = names \cup tx.named /\ owners' = owners \cup tx.owned
        /\ transaction' = [transaction EXCEPT ![w] = None]
    BY <1>2, <1>3 DEF CommitResolution
  <1>6. /\ decisions \in Seq(Decision) /\ names \subseteq NameRow /\ owners \subseteq OwnerRow
        /\ transaction \in [Workers -> Transaction \cup {None}]
    BY DEF IInv, TablesOK
  <1>7. /\ decisions' \in Seq(Decision) /\ Len(decisions) \in Nat
        /\ DOMAIN decisions = 1 .. Len(decisions) /\ DOMAIN decisions' = 1 .. Len(decisions) + 1
        /\ \A n \in 1 .. Len(decisions) : decisions'[n] = decisions[n]
        /\ decisions'[Len(decisions) + 1] = d
    BY <1>4, <1>5, <1>6, AppendProperties, LenProperties
  <1>8. tx.unseen = <<>>
    BY <1>1, <1>2 DEF Sound, Shape
  <1>9. \A n \in DOMAIN decisions : decisions[n].candidate = tx.candidate => decisions[n].kind \notin FinalKinds
    BY <1>2 DEF Sound, Resolved, DecisionsOn
  <1>10. Companies \subseteq Companies' /\ (d.kind = "create_company" => d.company \in Companies')
    BY <1>7 DEF Companies
  <1>11. /\ \A c, company : Accepts(c, company) => Accepts(c, company)'
         /\ d.by = "human" => Accepts(tx.candidate, tx.company)'
    <2>1. \A c : DecisionsOn(c) \subseteq DecisionsOn(c)' /\ DecisionsOn(c) \subseteq 1 .. Len(decisions)
      BY <1>7 DEF DecisionsOn
    <2>2. Len(decisions) + 1 \in DecisionsOn(tx.candidate)'
      BY <1>4, <1>7 DEF DecisionsOn
    <2> QED
      BY <1>4, <1>7, <2>1, <2>2 DEF Accepts
  <1>12. /\ \A row \in tx.owned, other \in owners : row.value # other.value
         /\ \A row, other \in tx.owned : row.value = other.value => row = other
         /\ \A row \in tx.named, other \in names : ~ SameName(row, other)
    BY <1>2 DEF Sound, Clear
  <1>13. /\ \A row \in tx.owned : row.company = tx.company /\ row.candidate = tx.candidate
                                  /\ row.value \in Values(tx.candidate)
         /\ tx.named \subseteq {NewName(tx)}
         /\ tx.named # {} \/ tx.owned # {} => tx.by = "human" /\ tx.company \in Candidates
    BY <1>2 DEF Sound, FromProposal, Shape
  <1>14. \A i \in Identifiers : \A company : OwnersOf(i) = {company} => OwnersOf(i)' = {company}
    <2> SUFFICES ASSUME NEW i \in Identifiers, NEW company, OwnersOf(i) = {company}
                 PROVE  OwnersOf(i)' = {company}
      OBVIOUS
    <2>1. PICK row \in owners : row.value = Normal[i]
      BY DEF OwnersOf
    <2>2. \A other \in tx.owned : other.value # Normal[i]
      BY <1>12, <2>1
    <2>3. {other \in owners' : other.value = Normal[i]} = {other \in owners : other.value = Normal[i]}
      BY <1>5, <2>2
    <2> QED
      BY <2>3 DEF OwnersOf
  <1>15. TablesOK'
    BY <1>2, <1>5, <1>6, <1>7 DEF TablesOK, Transaction
  <1>16. \A x \in Workers : Open(x)' => Open(x) /\ x # w /\ transaction'[x] = transaction[x]
    BY <1>5, <1>6 DEF Open
  <1>17. TransactionsSound'
    <2> SUFFICES ASSUME NEW x \in Workers, Open(x)'
                 PROVE  Sound(transaction[x])'
      BY DEF TransactionsSound
    <2>1. PICK ty : ty = transaction[x] /\ transaction'[x] = ty /\ Sound(ty)
      BY <1>16 DEF IInv, TransactionsSound
    <2>2. ApartFrom(tx, ty)
      BY <1>1, <1>2, <1>16, <2>1 DEF IInv, Apart
    <2>3. \A n \in DOMAIN decisions' :
            decisions'[n].candidate = ty.candidate => decisions'[n].kind \notin FinalKinds
      <3>1. \A n \in DOMAIN decisions : decisions[n].candidate = ty.candidate => decisions[n].kind \notin FinalKinds
        BY <2>1 DEF Sound, Resolved, DecisionsOn
      <3> QED
        BY <1>4, <1>7, <2>2, <3>1 DEF ApartFrom
    <2>4. /\ \A row \in ty.owned, other \in owners' : row.value # other.value
          /\ \A row \in ty.named, other \in names' : ~ SameName(row, other)
      BY <1>5, <2>1, <2>2 DEF Sound, Clear, ApartFrom, SameName
    <2> QED
      BY <1>5, <1>10, <1>14, <2>1, <2>3, <2>4, SoundStays
  <1>18. Apart'
    BY <1>16 DEF IInv, Apart, ApartFrom, SameName
  <1>19. OneFinalDecision'
    <2> SUFFICES ASSUME NEW n \in DOMAIN decisions', NEW m \in DOMAIN decisions',
                        n < m, decisions'[n].candidate = decisions'[m].candidate
                 PROVE  decisions'[n].kind = "defer_candidate"
      BY DEF OneFinalDecision
    <2>1. n \in 1 .. Len(decisions) /\ decisions'[n] = decisions[n]
      BY <1>7
    <2>2. CASE m \in 1 .. Len(decisions)
      BY <1>7, <2>1, <2>2 DEF IInv, Truths, OneFinalDecision
    <2>3. CASE m = Len(decisions) + 1
      <3>1. decisions[n] \in Decision
        BY <1>6, <1>7, <2>1, ElementOfSeq
      <3> QED
        BY <1>4, <1>7, <1>9, <2>1, <2>3, <3>1 DEF Decision, Kinds
    <2> QED
      BY <1>7, <2>2, <2>3
  <1>20. OneOwner'
    <2>1. OneOwner
      BY DEF IInv, Truths
    <2>2. \A row, other \in owners' : row.value = other.value => row = other
      BY <1>5, <1>12, <2>1 DEF OneOwner
    <2>3. \A row, other \in names' : SameName(row, other) => row = other
      BY <1>5, <1>12, <1>13, <2>1 DEF OneOwner, SameName
    <2> QED
      BY <2>2, <2>3 DEF OneOwner, SameName
  <1>21. EveryFactHasAuthority'
    <2>1. EveryFactHasAuthority
      BY DEF IInv, Truths
    <2>2. \A row \in owners' : /\ Accepts(row.candidate, row.company)'
                               /\ \E n \in DOMAIN ProposedBy[row.candidate] :
                                    Normal[ProposedBy[row.candidate][n]] = row.value
      BY <1>4, <1>5, <1>11, <1>13, <2>1 DEF EveryFactHasAuthority, Values
    <2>3. \A row \in names' : Accepts(row.candidate, row.company)' /\ row.name = NameOf[row.candidate]
      BY <1>4, <1>5, <1>11, <1>13, <2>1 DEF EveryFactHasAuthority, NewName
    <2>4. d.company # None => d.company \in Companies'
      BY <1>2, <1>4, <1>10, <1>1 DEF Sound, Shape, Transaction
    <2>5. \A n \in DOMAIN decisions' : decisions'[n].company # None => decisions'[n].company \in Companies'
      BY <1>7, <1>10, <2>1, <2>4 DEF EveryFactHasAuthority
    <2> QED
      BY <2>2, <2>3, <2>5 DEF EveryFactHasAuthority, Accepts, DecisionsOn
  <1>22. ResolvedInFull'
    <2>1. \A c \in Candidates : \A k \in DOMAIN ProposedBy[c] :
            ProposedBy[c][k] \in Identifiers /\ In(ProposedBy[c][k], ProposedBy[c])
      BY ProposedAssumption, ElementOfSeq, LenProperties DEF In
    <2>2. \A n \in DOMAIN decisions' : decisions'[n].candidate \in Candidates
      <3>1. \A n \in DOMAIN decisions' : decisions'[n] \in Decision
        BY <1>7, ElementOfSeq, LenProperties
      <3> QED
        BY <3>1 DEF Decision
    <2> SUFFICES ASSUME NEW n \in DOMAIN decisions', NEW e, e = decisions'[n],
                        e.by = "human", e.company # None
                 PROVE  /\ \E row \in names' : row.company = e.company /\ row.name = NameOf[e.candidate]
                        /\ \A i \in Identifiers : In(i, ProposedBy[e.candidate]) => OwnersOf(i)' = {e.company}
      BY <2>1, <2>2 DEF ResolvedInFull, OwnersOf
    <2>3. CASE n \in 1 .. Len(decisions)
      <3>1. /\ \E row \in names : row.company = e.company /\ row.name = NameOf[e.candidate]
            /\ \A k \in DOMAIN ProposedBy[e.candidate] : OwnersOf(ProposedBy[e.candidate][k]) = {e.company}
        BY <1>7, <2>3 DEF IInv, Truths, ResolvedInFull
      <3>2. \A i \in Identifiers : In(i, ProposedBy[e.candidate]) => OwnersOf(i) = {e.company}
        BY <3>1 DEF In
      <3> QED
        BY <1>5, <1>14, <3>1, <3>2
    <2>4. CASE n = Len(decisions) + 1
      <3>1. e = d /\ tx.by = "human" /\ tx.company # None
        BY <1>4, <1>7, <2>4
      <3>2. /\ \E row \in names' : row.company = tx.company /\ row.name = NameOf[tx.candidate]
            /\ \A i \in Identifiers : In(i, ProposedBy[tx.candidate]) =>
                 OwnersOf(i) = {tx.company} \/ \E row \in tx.owned : row.value = Normal[i]
        BY <1>1, <1>2, <1>5, <1>8, <3>1 DEF Sound, Accounted, In
      <3>3. ASSUME NEW i \in Identifiers, NEW row \in tx.owned, row.value = Normal[i]
            PROVE  OwnersOf(i)' = {tx.company}
        <4>1. row \in owners' /\ row.company = tx.company
          BY <1>5, <1>13
        <4>2. \A other \in owners' : other.value = Normal[i] => other.company = tx.company
          BY <1>5, <1>12, <1>13, <3>3
        <4> QED
          BY <3>3, <4>1, <4>2 DEF OwnersOf
      <3> QED
        BY <1>4, <1>14, <3>1, <3>2, <3>3
    <2> QED
      BY <1>7, <2>3, <2>4
  <1> QED
    BY <1>15, <1>17, <1>18, <1>19, <1>20, <1>21, <1>22 DEF IInv, Truths

-----------------------------------------------------------------------------
(* Every reachable state.                                                  *)

LEMMA InitEstablishes == ResolutionInit => IInv
  <1> SUFFICES ASSUME ResolutionInit
               PROVE  IInv
    OBVIOUS
  <1> USE DEF ResolutionInit
  <1>1. TablesOK
    BY DEF TablesOK
  <1>2. TransactionsSound /\ Apart
    BY DEF TransactionsSound, Apart, Open
  <1>3. Truths
    BY DEF Truths, OneFinalDecision, OneOwner, EveryFactHasAuthority, ResolvedInFull
  <1> QED
    BY <1>1, <1>2, <1>3 DEF IInv

LEMMA NextPreserves == IInv /\ [ResolutionNext]_canonVars => IInv'
  <1> SUFFICES ASSUME IInv, [ResolutionNext]_canonVars
               PROVE  IInv'
    OBVIOUS
  <1>1. ASSUME NEW w \in Workers, NEW c \in Candidates, BeginResolution(w, c)
        PROVE  IInv'
    BY <1>1, BeginResolutionPreserves
  <1>2. ASSUME NEW w \in Workers, Statement(w)
        PROVE  IInv'
    <2>1. CASE LookUp(w)
      BY <2>1, LookUpPreserves
    <2>2. CASE LookUpConflict(w) \/ RuleDeclines(w) \/ DecisionRefused(w) \/ InsertConflict(w) \/ DeadlockVictim(w)
      BY <2>2, AbortPreserves DEF LookUpConflict, RuleDeclines, DecisionRefused, InsertConflict, DeadlockVictim
    <2>3. CASE HumanDecides(w)
      BY <2>3, HumanDecidesPreserves
    <2>4. CASE RuleDecides(w)
      BY <2>4, RuleDecidesPreserves
    <2>5. CASE InsertDecision(w)
      BY <2>5, InsertDecisionPreserves
    <2>6. CASE CheckName(w)
      BY <2>6, CheckNamePreserves
    <2>7. CASE InsertName(w)
      BY <2>7, InsertNamePreserves
    <2>8. CASE InsertIdentifier(w)
      BY <2>8, InsertIdentifierPreserves
    <2>9. CASE CommitResolution(w)
      BY <2>9, CommitPreserves
    <2> QED
      BY <1>2, <2>1, <2>2, <2>3, <2>4, <2>5, <2>6, <2>7, <2>8, <2>9 DEF Statement
  <1>3. ASSUME NEW w \in Workers, CrashResolution(w)
        PROVE  IInv'
    BY <1>3, AbortPreserves DEF CrashResolution
  <1>4. CASE UNCHANGED canonVars
    <2>1. UNCHANGED <<decisions, names, owners, transaction>>
      BY <1>4 DEF canonVars
    <2>2. TablesOK' /\ Truths' /\ Apart'
      BY <2>1, SameTables DEF IInv, TablesOK, Apart, Open, ApartFrom, SameName
    <2>3. TransactionsSound'
      <3> SUFFICES ASSUME NEW x \in Workers, Open(x)'
                   PROVE  Sound(transaction[x])'
        BY DEF TransactionsSound
      <3>1. Sound(transaction[x])
        BY <2>1 DEF IInv, TransactionsSound, Open
      <3> QED
        BY <2>1, <3>1, SoundUntouched
    <2> QED
      BY <2>2, <2>3 DEF IInv
  <1> QED
    BY <1>1, <1>2, <1>3, <1>4 DEF ResolutionNext

LEMMA Inductive == ResolutionSpec => []IInv
  BY InitEstablishes, NextPreserves, PTL DEF ResolutionSpec

-----------------------------------------------------------------------------
(* Refinement: the commits, one after the other, are steps of Canon, and   *)
(* everything else is stuttering.                                          *)

LEMMA OnlyCommitsWrite ==
    ASSUME [ResolutionNext]_canonVars, \A w \in Workers : ~ CommitResolution(w)
    PROVE  UNCHANGED <<decisions, names, owners>>
  <1>1. ASSUME NEW w \in Workers, NEW c \in Candidates, BeginResolution(w, c)
        PROVE  UNCHANGED <<decisions, names, owners>>
    BY <1>1 DEF BeginResolution, BeginCreate, BeginRule, BeginAttach, BeginRecord, Begin, Advance
  <1>2. ASSUME NEW w \in Workers, Statement(w) \/ CrashResolution(w)
        PROVE  UNCHANGED <<decisions, names, owners>>
    BY <1>2 DEF Statement, CrashResolution, LookUp, LookUpConflict, HumanDecides, RuleDecides, RuleDeclines,
       InsertDecision, DecisionRefused, CheckName, InsertName, InsertIdentifier, InsertConflict,
       DeadlockVictim, Advance, Abort
  <1> QED
    BY <1>1, <1>2 DEF ResolutionNext, canonVars

\* A company is identified by the candidate it was created from.
CreatedFromItself ==
    \A n \in DOMAIN decisions :
        decisions[n].kind = "create_company" => decisions[n].company = decisions[n].candidate

\* The company owns an identifier of the candidate.
Owns(company, c) == \E row \in owners : row.company = company /\ row.value \in Values(c)

\* Between the rule's decision and its commit its company may cease to be the
\* only owner of an identifier of the candidate, but not to be one.
RuleMatched ==
    \A w \in Workers :
        Open(w) /\ transaction[w].by = "rule" /\ transaction[w].step = "identifiers"
        => Owns(transaction[w].company, transaction[w].candidate)

LEMMA OwnersOnlyGrow == ASSUME [ResolutionNext]_canonVars PROVE owners \subseteq owners'
  BY OnlyCommitsWrite DEF CommitResolution

LEMMA CommittedDecision ==
    ASSUME IInv, NEW w \in Workers, CommitResolution(w)
    PROVE  /\ Sound(transaction[w]) /\ transaction[w] \in Transaction
           /\ DOMAIN decisions' = DOMAIN decisions \cup {Len(decisions) + 1}
           /\ \A n \in DOMAIN decisions : decisions'[n] = decisions[n]
           /\ decisions'[Len(decisions) + 1] = NewDecision(transaction[w])
  <1>1. Sound(transaction[w]) /\ transaction[w] \in Transaction
    BY SoundAt DEF CommitResolution, At
  <1>2. PICK d : d = NewDecision(transaction[w])
    OBVIOUS
  <1>3. d \in Decision
    BY <1>1, <1>2 DEF NewDecision, Decision, Transaction
  <1>4. decisions \in Seq(Decision) /\ decisions' = Append(decisions, d)
    BY <1>2 DEF IInv, TablesOK, CommitResolution
  <1>5. /\ DOMAIN decisions = 1 .. Len(decisions) /\ DOMAIN decisions' = 1 .. Len(decisions) + 1
        /\ Len(decisions) \in Nat
        /\ \A n \in 1 .. Len(decisions) : decisions'[n] = decisions[n]
        /\ decisions'[Len(decisions) + 1] = d
    BY <1>3, <1>4, AppendProperties, LenProperties
  <1> QED
    BY <1>1, <1>2, <1>5

LEMMA CreatedFromItselfStays ==
    ASSUME IInv, CreatedFromItself, [ResolutionNext]_canonVars
    PROVE  CreatedFromItself'
  <1>1. ASSUME NEW w \in Workers, CommitResolution(w)
        PROVE  CreatedFromItself'
    <2>1. NewDecision(transaction[w]).kind = "create_company" =>
            NewDecision(transaction[w]).company = NewDecision(transaction[w]).candidate
      BY <1>1, CommittedDecision DEF NewDecision, Sound, Shape
    <2> QED
      BY <1>1, <2>1, CommittedDecision DEF CreatedFromItself
  <1>2. CASE UNCHANGED decisions
    BY <1>2 DEF CreatedFromItself
  <1> QED
    BY <1>1, <1>2, OnlyCommitsWrite

\* The rule gets to its commit only through the guard.
LEMMA GuardedDecision ==
    ASSUME IInv, NEW w \in Workers, Statement(w), transaction'[w] # None,
           transaction'[w].by = "rule", transaction'[w].step = "identifiers"
    PROVE  Owns(transaction'[w].company, transaction'[w].candidate)
  <1>0. transaction \in [Workers -> Transaction \cup {None}]
    BY DEF IInv, TablesOK
  <1>1. ~ Abort(w) /\ ~ CommitResolution(w)
    BY <1>0 DEF Abort, CommitResolution
  <1>2. Open(w)
    BY DEF Statement, LookUp, LookUpConflict, HumanDecides, RuleDecides, RuleDeclines, LookedUp,
       InsertDecision, DecisionRefused, CheckName, InsertName, InsertIdentifier, InsertingIdentifier,
       InsertConflict, CommitResolution, DeadlockVictim, WaitsFor, At
  <1>3. PICK tx \in Transaction : tx = transaction[w] /\ Sound(tx)
    BY <1>2, SoundAt
  <1>4. tx.by = "rule" => tx.fresh = <<>> /\ tx.step \in {"look", "decide", "identifiers"}
    BY <1>3 DEF Sound, Shape
  <1>5. ASSUME NEW ty, Advance(w, ty)
        PROVE  transaction'[w] = ty
    BY <1>0, <1>5 DEF Advance
  <1>6. CASE LookUp(w)
    <2>1. PICK rest : rest = Tail(tx.unseen)
      OBVIOUS
    <2>2. PICK more : more = Append(tx.fresh, Head(tx.unseen))
      OBVIOUS
    <2>3. PICK seen : seen = tx.matched \cup OwnersOf(Head(tx.unseen))
      OBVIOUS
    <2>4. \/ transaction'[w] = [tx EXCEPT !.unseen = rest, !.fresh = more]
          \/ transaction'[w] = [tx EXCEPT !.unseen = rest]
          \/ transaction'[w] = [tx EXCEPT !.unseen = rest, !.matched = seen]
      BY <1>3, <1>5, <1>6, <2>1, <2>2, <2>3 DEF LookUp
    <2> QED
      BY <1>3, <1>6, <2>4 DEF LookUp, At, Transaction
  <1>7. CASE HumanDecides(w) \/ RuleDecides(w)
    <2>1. PICK company : transaction'[w] = [tx EXCEPT !.step = "decide"]
                         \/ transaction'[w] = [tx EXCEPT !.step = "decide", !.company = company]
      BY <1>3, <1>5, <1>7 DEF HumanDecides, RuleDecides
    <2> QED
      BY <1>3, <2>1 DEF Transaction
  <1>8. CASE InsertDecision(w)
    <2>1. PICK next : next = AfterDecision(tx)
      OBVIOUS
    <2>2. transaction'[w] = [tx EXCEPT !.step = next] /\ GuardAccepts(tx)
      BY <1>3, <1>5, <1>8, <2>1 DEF InsertDecision
    <2>3. transaction'[w].by = tx.by /\ transaction'[w].company = tx.company
          /\ transaction'[w].candidate = tx.candidate
      BY <2>2 DEF Transaction
    <2> QED
      BY <2>2, <2>3 DEF GuardAccepts, MatchedBy, OwnersOf, Owns, Values
  <1>9. CASE CheckName(w)
    <2>1. PICK next : transaction'[w] = [tx EXCEPT !.step = next]
      BY <1>3, <1>5, <1>9 DEF CheckName
    <2>2. transaction'[w].by = tx.by /\ tx.step = "check_name"
      BY <1>3, <1>9, <2>1 DEF CheckName, At, Transaction
    <2> QED
      BY <1>4, <2>2
  <1>10. CASE InsertName(w)
    <2>1. PICK row : row = NewName(tx)
      OBVIOUS
    <2>2. transaction'[w] = [tx EXCEPT !.step = "identifiers", !.named = {row}] /\ tx.step = "name"
      BY <1>3, <1>5, <1>10, <2>1 DEF InsertName, At
    <2>3. transaction'[w].by = tx.by
      BY <2>2 DEF Transaction
    <2> QED
      BY <1>4, <2>2, <2>3
  <1>11. CASE InsertIdentifier(w)
    <2>1. PICK rest : rest = Tail(tx.fresh)
      OBVIOUS
    <2>2. PICK mine : mine = tx.owned \cup {NewOwner(tx)}
      OBVIOUS
    <2>3. transaction'[w] = [tx EXCEPT !.fresh = rest, !.owned = mine] /\ tx.fresh # <<>>
      BY <1>3, <1>5, <1>11, <2>1, <2>2 DEF InsertIdentifier, InsertingIdentifier
    <2>4. transaction'[w].by = tx.by
      BY <2>3 DEF Transaction
    <2> QED
      BY <1>4, <2>3, <2>4
  <1> QED
    BY <1>1, <1>6, <1>7, <1>8, <1>9, <1>10, <1>11
       DEF Statement, LookUpConflict, RuleDeclines, DecisionRefused, InsertConflict, DeadlockVictim

LEMMA RuleMatchedStays ==
    ASSUME IInv, RuleMatched, [ResolutionNext]_canonVars
    PROVE  RuleMatched'
  <1>0. transaction \in [Workers -> Transaction \cup {None}]
    BY DEF IInv, TablesOK
  <1>1. owners \subseteq owners'
    BY OwnersOnlyGrow
  <1> SUFFICES ASSUME NEW w \in Workers, transaction'[w] # None,
                      transaction'[w].by = "rule", transaction'[w].step = "identifiers"
               PROVE  \E row \in owners' : /\ row.company = transaction'[w].company
                                           /\ row.value \in Values(transaction'[w].candidate)
    BY DEF RuleMatched, Open, Owns
  <1>2. CASE transaction'[w] = transaction[w]
    BY <1>1, <1>2 DEF RuleMatched, Open, Owns
  <1>3. CASE transaction'[w] # transaction[w]
    <2>1. ASSUME NEW x \in Workers \ {w}
          PROVE  /\ \A c \in Candidates : ~ BeginResolution(x, c)
                 /\ ~ Statement(x) /\ ~ CrashResolution(x)
      BY <1>0, <1>3 DEF BeginResolution, BeginCreate, BeginRule, BeginAttach, BeginRecord, Begin, Advance,
         Statement, CrashResolution, LookUp, LookUpConflict, HumanDecides, RuleDecides, RuleDeclines,
         InsertDecision, DecisionRefused, CheckName, InsertName, InsertIdentifier, InsertConflict,
         CommitResolution, DeadlockVictim, Abort
    <2>2. \A c \in Candidates : ~ BeginResolution(w, c)
      BY <1>0 DEF BeginResolution, BeginCreate, BeginRule, BeginAttach, BeginRecord, Begin, Advance
    <2>3. Statement(w)
      BY <1>0, <1>3, <2>1, <2>2 DEF ResolutionNext, CrashResolution, Abort, canonVars
    <2>4. Owns(transaction'[w].company, transaction'[w].candidate)
      BY <2>3, GuardedDecision
    <2> QED
      BY <1>1, <2>4 DEF Owns
  <1> QED
    BY <1>2, <1>3

\* Nobody has a name or an identifier before it is a company.
LEMMA NothingBeforeCreation ==
    ASSUME IInv, CreatedFromItself, NEW c \in Candidates, ~ Resolved(c)
    PROVE  /\ c \notin Companies
           /\ \A row \in owners : row.company # c
           /\ \A row \in names : row.company # c
  <1>1. c \notin Companies
    BY DEF CreatedFromItself, Companies, Resolved, DecisionsOn, FinalKinds
  <1>2. c # None
    BY NothingAssumption
  <1>3. \A row \in owners \cup names : row.company # None => row.company \in Companies
    BY DEF IInv, Truths, EveryFactHasAuthority, Accepts, DecisionsOn
  <1> QED
    BY <1>1, <1>2, <1>3

LEMMA ValuesAre == \A c \in Candidates : ValuesOf[c] = Values(c)
  BY DEF ValuesOf, Values

\* What a person's commit makes true of the candidate's identifiers.
LEMMA AcceptedValues ==
    ASSUME IInv, NEW tx \in Transaction, Sound(tx), tx.by = "human", tx.company # None,
           tx.step = "identifiers", tx.fresh = <<>>,
           NEW v \in Values(tx.candidate)
    PROVE  \/ /\ \A row \in owners : row.value = v => row.company = tx.company
              /\ \E row \in owners : row.value = v
              /\ \A row \in tx.owned : row.value # v
           \/ /\ \A row \in owners : row.value # v
              /\ [company |-> tx.company, value |-> v, candidate |-> tx.candidate] \in tx.owned
  <1>1. tx.candidate \in Candidates /\ ProposedBy[tx.candidate] \in Seq(Identifiers)
    BY ProposedAssumption DEF Transaction
  <1>2. PICK n \in DOMAIN ProposedBy[tx.candidate] : v = Normal[ProposedBy[tx.candidate][n]]
    BY DEF Values
  <1>3. PICK i \in Identifiers : i = ProposedBy[tx.candidate][n] /\ In(i, ProposedBy[tx.candidate])
    BY <1>1, <1>2, ElementOfSeq, LenProperties DEF In
  <1>4. tx.unseen = <<>> /\ ~ In(i, tx.unseen) /\ ~ In(i, tx.fresh)
    BY DEF Sound, Shape, In
  <1>5. OwnersOf(i) = {tx.company} \/ \E row \in tx.owned : row.value = v
    BY <1>2, <1>3, <1>4 DEF Sound, Accounted
  <1>6. \A row \in tx.owned, other \in owners : row.value # other.value
    BY DEF Sound, Clear
  <1>7. CASE \E row \in tx.owned : row.value = v
    <2>1. PICK row \in tx.owned : row.value = v
      BY <1>7
    <2>2. row \in OwnerRow /\ row.company = tx.company /\ row.candidate = tx.candidate
      BY DEF Sound, FromProposal, Transaction
    <2>3. row = [company |-> tx.company, value |-> v, candidate |-> tx.candidate]
      BY <2>1, <2>2 DEF OwnerRow
    <2> QED
      BY <1>6, <2>1, <2>3
  <1>8. CASE OwnersOf(i) = {tx.company} /\ \A row \in tx.owned : row.value # v
    BY <1>2, <1>3, <1>8 DEF OwnersOf
  <1> QED
    BY <1>5, <1>7, <1>8

LEMMA CommitIsAtomic ==
    ASSUME IInv, CreatedFromItself, RuleMatched, NEW w \in Workers, CommitResolution(w)
    PROVE  Committed!Next
  <1>1. PICK tx \in Transaction : tx = transaction[w] /\ Sound(tx)
    BY CommittedDecision
  <1>2. tx.step = "identifiers" /\ tx.fresh = <<>> /\ Open(w)
    BY <1>1 DEF CommitResolution, At
  <1>3. PICK c \in Candidates : c = tx.candidate /\ ValuesOf[c] = Values(c)
    BY ValuesAre DEF Transaction
  <1>4. /\ decisions' = Append(decisions, [candidate |-> c, kind |-> tx.kind, company |-> tx.company, by |-> tx.by])
        /\ names' = names \cup tx.named /\ owners' = owners \cup tx.owned
    BY <1>1, <1>3 DEF CommitResolution, NewDecision
  <1>5. ~ Committed!Final(c)
    <2>1. \A n \in DOMAIN decisions : decisions[n] \in Decision
      BY ElementOfSeq, LenProperties DEF IInv, TablesOK
    <2> QED
      BY <1>1, <1>3, <2>1 DEF Committed!Final, Sound, Resolved, DecisionsOn, Decision, Kinds
  <1>6. Committed!Decide(c, tx.kind, tx.company, tx.by)
    BY <1>4, <1>5 DEF Committed!Decide
  <1>7. CASE tx.by = "rule"
    <2>1. tx.kind = "attach_to_company" /\ tx.named = {} /\ tx.owned = {}
      BY <1>1, <1>7 DEF Sound, Shape
    <2>2. PICK row \in owners : row.company = tx.company /\ row.value \in Values(c)
      BY <1>1, <1>2, <1>3, <1>7 DEF RuleMatched, Owns
    <2>3. tx.company \in Candidates
      BY <2>2 DEF IInv, TablesOK, OwnerRow
    <2>4. tx.company \in Committed!Matches(c)
      BY <1>3, <2>2 DEF Committed!Matches
    <2>5. Committed!AttachByRule(c, tx.company)
      BY <1>4, <1>6, <1>7, <2>1, <2>4 DEF Committed!AttachByRule
    <2> QED
      BY <2>3, <2>5 DEF Committed!Next
  <1>8. CASE tx.by = "human" /\ tx.kind \notin {"create_company", "attach_to_company"}
    <2>1. tx.company = None /\ tx.named = {} /\ tx.owned = {}
      BY <1>1, <1>8, NothingAssumption DEF Sound, Shape
    <2>2. tx.kind \in {"reject_candidate", "defer_candidate"}
      BY <1>8 DEF Transaction, Kinds, FinalKinds
    <2>3. Committed!Record(c, tx.kind)
      BY <1>4, <1>6, <1>8, <2>1 DEF Committed!Record
    <2> QED
      BY <2>2, <2>3 DEF Committed!Next
  <1>9. CASE tx.by = "human" /\ tx.kind \in {"create_company", "attach_to_company"}
    <2>1. PICK role \in {"canonical", "alias"} :
            role = IF tx.kind = "create_company" THEN "canonical" ELSE "alias"
      OBVIOUS
    <2>2. PICK company \in Candidates : company = tx.company /\ company # None
      BY <1>1, <1>3, <1>9, NothingAssumption DEF Sound, Shape
    <2>3. \A v \in Values(c) :
            \/ /\ \A row \in owners : row.value = v => row.company = company
               /\ \E row \in owners : row.value = v
               /\ \A row \in tx.owned : row.value # v
            \/ /\ \A row \in owners : row.value # v
               /\ [company |-> company, value |-> v, candidate |-> c] \in tx.owned
      BY <1>1, <1>2, <1>3, <1>9, <2>2, AcceptedValues
    <2>4. Committed!Matches(c) \subseteq {company}
      BY <1>3, <2>3 DEF Committed!Matches
    <2>5. tx.owned = [company : {company}, value : Values(c) \ {row.value : row \in owners}, candidate : {c}]
      <3>1. \A row \in tx.owned :
              /\ row = [company |-> row.company, value |-> row.value, candidate |-> row.candidate]
              /\ row.company = company /\ row.candidate = c /\ row.value \in Values(c)
        BY <1>1, <1>3, <2>2 DEF Sound, FromProposal, Transaction, OwnerRow
      <3>2. \A row \in tx.owned : row.value \notin {other.value : other \in owners}
        BY <1>1 DEF Sound, Clear
      <3>3. tx.owned \subseteq [company : {company}, value : Values(c) \ {row.value : row \in owners}, candidate : {c}]
        BY <3>1, <3>2
      <3>4. ASSUME NEW v \in Values(c) \ {row.value : row \in owners}
            PROVE  [company |-> company, value |-> v, candidate |-> c] \in tx.owned
        BY <2>3, <3>4
      <3>5. PICK free : free = Values(c) \ {row.value : row \in owners}
        OBVIOUS
      <3>6. \A row \in [company : {company}, value : free, candidate : {c}] :
              row = [company |-> company, value |-> row.value, candidate |-> c] /\ row.value \in free
        OBVIOUS
      <3>7. [company : {company}, value : free, candidate : {c}] \subseteq tx.owned
        BY <3>4, <3>5, <3>6
      <3> QED
        BY <3>3, <3>5, <3>7
    <2>6. PICK new : new = [company |-> company, name |-> NameOf[c], role |-> role, candidate |-> c]
      OBVIOUS
    <2>7. tx.named \subseteq {new}
      BY <1>1, <1>3, <2>1, <2>2, <2>6 DEF Sound, FromProposal, NewName
    <2>8. \E row \in names \cup tx.named : row.company = company /\ row.name = NameOf[c]
      BY <1>1, <1>2, <1>3, <1>9, <2>2 DEF Sound, Accounted
    <2>9. new \in tx.named => ~ Committed!HasName(company, NameOf[c])
      BY <1>1, <2>6 DEF Sound, Clear, SameName, Committed!HasName
    <2>10. new \notin tx.named => Committed!HasName(company, NameOf[c])
      BY <2>7, <2>8 DEF Committed!HasName
    <2>11. tx.named = {row \in {new} : ~ Committed!HasName(company, row.name)}
      BY <2>6, <2>7, <2>9, <2>10
    <2>12. Committed!Accept(c, tx.kind, company, role)
      BY <1>3, <1>4, <1>6, <1>9, <2>2, <2>4, <2>5, <2>6, <2>11 DEF Committed!Accept
    <2>13. CASE tx.kind = "create_company"
      <3>1. company = c /\ role = "canonical"
        BY <1>1, <1>3, <2>1, <2>2, <2>13 DEF Sound, Shape
      <3>2. ~ Resolved(c)
        BY <1>1, <1>3 DEF Sound
      <3>3. /\ c \notin Companies
            /\ \A row \in owners : row.company # c
            /\ \A row \in names : row.company # c
        BY <3>2, NothingBeforeCreation
      <3>4. Committed!Matches(c) = {}
        BY <2>4, <3>1, <3>3 DEF Committed!Matches
      <3>5. Committed!Create(c)
        BY <2>12, <2>13, <3>1, <3>3, <3>4 DEF Committed!Create, Committed!Companies, Companies
      <3> QED
        BY <3>5 DEF Committed!Next
    <2>14. CASE tx.kind = "attach_to_company"
      <3>1. company \in Companies /\ role = "alias"
        BY <1>1, <1>9, <2>1, <2>2, <2>14 DEF Sound, Shape
      <3>2. Committed!Attach(c, company)
        BY <2>12, <2>14, <3>1 DEF Committed!Attach, Committed!Companies, Companies
      <3> QED
        BY <3>2 DEF Committed!Next
    <2> QED
      BY <1>9, <2>13, <2>14
  <1>10. tx.by \in {"human", "rule"}
    BY DEF Transaction
  <1> QED
    BY <1>7, <1>8, <1>9, <1>10

LEMMA CommitsAlways == ResolutionSpec => [](CreatedFromItself /\ RuleMatched)
  <1>1. ResolutionInit => CreatedFromItself /\ RuleMatched
    BY DEF ResolutionInit, CreatedFromItself, RuleMatched, Open
  <1> QED
    BY <1>1, CreatedFromItselfStays, RuleMatchedStays, Inductive, PTL DEF ResolutionSpec

-----------------------------------------------------------------------------
(* Lineage.  An identifier that its candidate spells twice stays in the    *)
(* way of the transaction until somebody else owns it.                     *)

Has(s, value) == \E n \in DOMAIN s : Normal[s[n]] = value

Twice(s, value) == \E n, m \in DOMAIN s : n # m /\ Normal[s[n]] = value /\ Normal[s[m]] = value

Unowned(value) == \A row \in owners : row.value # value

\* Both spellings are still to come, or one has been inserted and the other
\* is still to come.
Pends(tx, value) ==
    \/ Twice(tx.unseen, value) \/ Twice(tx.fresh, value)
    \/ Has(tx.unseen, value) /\ Has(tx.fresh, value)
    \/ Has(tx.fresh, value) /\ \E row \in tx.owned : row.value = value

Accepting(tx) == tx.by = "human" /\ tx.kind \in {"create_company", "attach_to_company"}

DoublePends(tx) ==
    Accepting(tx) =>
        \A value : Twice(ProposedBy[tx.candidate], value) /\ Unowned(value) => Pends(tx, value)

DoublesPend == \A w \in Workers : Open(w) => DoublePends(transaction[w])

LEMMA SpelledInTail ==
    ASSUME NEW s \in Seq(Identifiers), s # <<>>, NEW value
    PROVE  /\ Has(s, value) => Has(Tail(s), value) \/ value = Normal[Head(s)]
           /\ Twice(s, value) => Twice(Tail(s), value) \/ (value = Normal[Head(s)] /\ Has(Tail(s), value))
  <1>1. Tail(s) \in Seq(Identifiers) /\ Len(Tail(s)) = Len(s) - 1 /\ Head(s) = s[1]
    BY HeadTailProperties
  <1>2. \A n \in 1 .. Len(s) - 1 : Tail(s)[n] = s[n + 1]
    BY HeadTailProperties
  <1>3. DOMAIN s = 1 .. Len(s) /\ DOMAIN Tail(s) = 1 .. Len(s) - 1 /\ Len(s) \in Nat \ {0}
    BY <1>1, LenProperties, EmptySeq
  <1>4. \A n \in DOMAIN s \ {1} : n - 1 \in DOMAIN Tail(s) /\ Tail(s)[n - 1] = s[n]
    BY <1>2, <1>3
  <1>5. ASSUME Has(s, value), value # Normal[Head(s)]
        PROVE  Has(Tail(s), value)
    <2>1. PICK n \in DOMAIN s \ {1} : Normal[s[n]] = value
      BY <1>1, <1>5 DEF Has
    <2> QED
      BY <1>4, <2>1 DEF Has
  <1>6. ASSUME Twice(s, value)
        PROVE  Twice(Tail(s), value) \/ (value = Normal[Head(s)] /\ Has(Tail(s), value))
    <2>1. PICK n \in DOMAIN s, m \in DOMAIN s : n # m /\ Normal[s[n]] = value /\ Normal[s[m]] = value
      BY <1>6 DEF Twice
    <2>2. CASE n = 1 \/ m = 1
      BY <1>1, <1>4, <2>1, <2>2 DEF Has
    <2>3. CASE n # 1 /\ m # 1
      <3>1. n - 1 # m - 1
        BY <1>3, <2>1
      <3> QED
        BY <1>4, <2>1, <2>3, <3>1 DEF Twice
    <2> QED
      BY <2>2, <2>3
  <1> QED
    BY <1>5, <1>6

LEMMA SpelledInAppended ==
    ASSUME NEW s \in Seq(Identifiers), NEW i \in Identifiers, NEW value
    PROVE  /\ Has(Append(s, i), Normal[i])
           /\ Has(s, value) => Has(Append(s, i), value)
           /\ Twice(s, value) => Twice(Append(s, i), value)
           /\ Has(s, Normal[i]) => Twice(Append(s, i), Normal[i])
  <1>1. /\ Append(s, i) \in Seq(Identifiers) /\ Len(Append(s, i)) = Len(s) + 1
        /\ \A n \in 1 .. Len(s) : Append(s, i)[n] = s[n]
        /\ Append(s, i)[Len(s) + 1] = i
    BY AppendProperties
  <1>2. DOMAIN s = 1 .. Len(s) /\ DOMAIN Append(s, i) = 1 .. Len(s) + 1 /\ Len(s) \in Nat
    BY <1>1, LenProperties
  <1>3. /\ DOMAIN s \subseteq DOMAIN Append(s, i) /\ Len(s) + 1 \in DOMAIN Append(s, i) \ DOMAIN s
        /\ \A n \in DOMAIN s : Append(s, i)[n] = s[n]
    BY <1>1, <1>2
  <1>4. Has(Append(s, i), Normal[i]) /\ (Has(s, value) => Has(Append(s, i), value))
    BY <1>1, <1>3 DEF Has
  <1>5. Twice(s, value) => Twice(Append(s, i), value)
    BY <1>3 DEF Twice
  <1>6. Has(s, Normal[i]) => Twice(Append(s, i), Normal[i])
    BY <1>1, <1>3 DEF Has, Twice
  <1> QED
    BY <1>4, <1>5, <1>6

LEMMA EmptyPendsNot ==
    ASSUME NEW tx, tx.unseen = <<>>, tx.fresh = <<>>, NEW value
    PROVE  ~ Pends(tx, value)
  BY DEF Pends, Has, Twice

\* An accepting transaction begins with everything it proposes in its way.
LEMMA BegunPends ==
    ASSUME IInv, NEW w \in Workers, NEW c \in Candidates, BeginResolution(w, c)
    PROVE  DoublePends(transaction'[w])
  <1>0. transaction \in [Workers -> Transaction \cup {None}]
    BY DEF IInv, TablesOK
  <1>1. CASE BeginCreate(w, c)
    <2>1. transaction'[w].candidate = c /\ transaction'[w].fresh = ProposedBy[c]
      BY <1>0, <1>1 DEF BeginCreate, Begin, Advance
    <2> QED
      BY <2>1 DEF DoublePends, Pends
  <1>2. ASSUME NEW company, BeginAttach(w, c, company)
        PROVE  DoublePends(transaction'[w])
    <2>1. transaction'[w].candidate = c /\ transaction'[w].unseen = ProposedBy[c]
      BY <1>0, <1>2 DEF BeginAttach, Begin, Advance
    <2> QED
      BY <2>1 DEF DoublePends, Pends
  <1>3. CASE BeginRule(w, c)
    <2>1. transaction'[w].by = "rule"
      BY <1>0, <1>3 DEF BeginRule, Begin, Advance
    <2> QED
      BY <2>1 DEF DoublePends, Accepting
  <1>4. ASSUME NEW kind, BeginRecord(w, c, kind)
        PROVE  DoublePends(transaction'[w])
    <2>1. transaction'[w].kind \in {"reject_candidate", "defer_candidate"}
      BY <1>0, <1>4 DEF BeginRecord, Begin, Advance
    <2> QED
      BY <2>1 DEF DoublePends, Accepting
  <1> QED
    BY <1>1, <1>2, <1>3, <1>4 DEF BeginResolution

\* A look-up or an insert passes one spelling on, or finds the value owned.
LEMMA StatementPends ==
    ASSUME IInv, NEW w \in Workers, Statement(w), DoublePends(transaction[w]), transaction'[w] # None
    PROVE  DoublePends(transaction'[w])
  <1>0. transaction \in [Workers -> Transaction \cup {None}]
    BY DEF IInv, TablesOK
  <1>1. ~ Abort(w) /\ ~ CommitResolution(w)
    BY <1>0 DEF Abort, CommitResolution
  <1>2. Open(w)
    BY DEF Statement, LookUp, LookUpConflict, HumanDecides, RuleDecides, RuleDeclines, LookedUp,
       InsertDecision, DecisionRefused, CheckName, InsertName, InsertIdentifier, InsertingIdentifier,
       InsertConflict, CommitResolution, DeadlockVictim, WaitsFor, At
  <1>3. PICK tx \in Transaction : tx = transaction[w] /\ Sound(tx)
    BY <1>2, SoundAt
  <1>4. DoublePends(tx) /\ tx.unseen \in Seq(Identifiers) /\ tx.fresh \in Seq(Identifiers)
    BY <1>3 DEF Transaction
  <1>5. ASSUME NEW ty, Advance(w, ty)
        PROVE  transaction'[w] = ty
    BY <1>0, <1>5 DEF Advance
  <1>6. ASSUME NEW ty, ty.by = tx.by, ty.kind = tx.kind, ty.candidate = tx.candidate,
               ty.unseen = tx.unseen, ty.fresh = tx.fresh, ty.owned = tx.owned
        PROVE  DoublePends(ty)
    BY <1>4, <1>6 DEF DoublePends, Accepting, Pends
  <1>7. CASE HumanDecides(w) \/ RuleDecides(w)
    <2>1. PICK company : transaction'[w] = [tx EXCEPT !.step = "decide"]
                         \/ transaction'[w] = [tx EXCEPT !.step = "decide", !.company = company]
      BY <1>3, <1>5, <1>7 DEF HumanDecides, RuleDecides
    <2> QED
      BY <1>3, <1>6, <2>1 DEF Transaction
  <1>8. CASE InsertDecision(w) \/ CheckName(w)
    <2>1. PICK next : transaction'[w] = [tx EXCEPT !.step = next]
      BY <1>3, <1>5, <1>8 DEF InsertDecision, CheckName
    <2> QED
      BY <1>3, <1>6, <2>1 DEF Transaction
  <1>9. CASE InsertName(w)
    <2>1. PICK row : transaction'[w] = [tx EXCEPT !.step = "identifiers", !.named = {row}]
      BY <1>3, <1>5, <1>9 DEF InsertName
    <2> QED
      BY <1>3, <1>6, <2>1 DEF Transaction
  <1>10. CASE LookUp(w)
    <2> DEFINE i == Head(tx.unseen)
               rest == Tail(tx.unseen)
    <2>1. i \in Identifiers /\ rest \in Seq(Identifiers) /\ tx.unseen # <<>>
      BY <1>3, <1>4, <1>10, HeadTailProperties DEF LookUp
    <2>2. CASE tx.by = "rule"
      <3>1. PICK ty : Advance(w, ty) /\ ty = [tx EXCEPT !.unseen = rest, !.matched = @ \cup OwnersOf(i)]
        BY <1>3, <1>10, <2>2 DEF LookUp
      <3>2. ty.by = "rule"
        BY <1>3, <2>2, <3>1 DEF Transaction
      <3> QED
        BY <1>5, <3>1, <3>2 DEF DoublePends, Accepting
    <2>3. CASE tx.by = "human" /\ OwnersOf(i) = {}
      <3>1. PICK ty : Advance(w, ty) /\ ty = [tx EXCEPT !.unseen = rest, !.fresh = Append(@, i)]
        BY <1>3, <1>10, <2>3 DEF LookUp
      <3>2. /\ ty.by = tx.by /\ ty.kind = tx.kind /\ ty.candidate = tx.candidate /\ ty.owned = tx.owned
            /\ ty.unseen = rest /\ ty.fresh = Append(tx.fresh, i)
        BY <1>3, <3>1 DEF Transaction
      <3>3. ASSUME NEW value, Pends(tx, value)
            PROVE  Pends(ty, value)
        BY <1>4, <2>1, <3>2, <3>3, SpelledInTail, SpelledInAppended DEF Pends
      <3>4. DoublePends(ty)
        BY <1>4, <3>2, <3>3 DEF DoublePends, Accepting
      <3> QED
        BY <1>5, <3>1, <3>4
    <2>4. CASE tx.by = "human" /\ OwnersOf(i) # {}
      <3>1. PICK ty : Advance(w, ty) /\ ty = [tx EXCEPT !.unseen = rest]
        BY <1>3, <1>10, <2>4 DEF LookUp
      <3>2. /\ ty.by = tx.by /\ ty.kind = tx.kind /\ ty.candidate = tx.candidate /\ ty.owned = tx.owned
            /\ ty.unseen = rest /\ ty.fresh = tx.fresh
        BY <1>3, <3>1 DEF Transaction
      <3>3. ~ Unowned(Normal[i])
        BY <2>4 DEF OwnersOf, Unowned
      <3>4. ASSUME NEW value, Pends(tx, value), value # Normal[i]
            PROVE  Pends(ty, value)
        BY <1>4, <2>1, <3>2, <3>4, SpelledInTail DEF Pends
      <3>5. DoublePends(ty)
        BY <1>4, <3>2, <3>3, <3>4 DEF DoublePends, Accepting
      <3> QED
        BY <1>5, <3>1, <3>5
    <2>5. tx.by \in {"human", "rule"}
      BY <1>3 DEF Transaction
    <2> QED
      BY <2>2, <2>3, <2>4, <2>5
  <1>11. CASE InsertIdentifier(w)
    <2> DEFINE i == Head(tx.fresh)
               rest == Tail(tx.fresh)
    <2>1. tx.fresh # <<>> /\ ~ ValueTaken(tx)
      BY <1>3, <1>11 DEF InsertIdentifier, InsertingIdentifier
    <2>2. PICK ty : Advance(w, ty) /\ ty = [tx EXCEPT !.fresh = rest, !.owned = @ \cup {NewOwner(tx)}]
      BY <1>3, <1>11 DEF InsertIdentifier
    <2>3. /\ ty.by = tx.by /\ ty.kind = tx.kind /\ ty.candidate = tx.candidate
          /\ ty.unseen = tx.unseen /\ ty.fresh = rest /\ ty.owned = tx.owned \cup {NewOwner(tx)}
      BY <1>3, <2>2 DEF Transaction
    <2>4. NewOwner(tx).value = Normal[i] /\ NewOwner(tx) \in ty.owned
      BY <2>3 DEF NewOwner
    <2>5. tx.unseen = <<>>
      BY <1>3, <1>11 DEF InsertIdentifier, InsertingIdentifier, At, Sound, Shape
    <2>6. \A row \in tx.owned : row.value # Normal[i]
      BY <2>1, <2>4 DEF ValueTaken
    <2>7. \A value : ~ Has(tx.unseen, value) /\ ~ Twice(tx.unseen, value)
      BY <2>5 DEF Has, Twice
    <2>8. ASSUME NEW value, Pends(tx, value)
          PROVE  Pends(ty, value)
      <3>1. CASE Twice(tx.fresh, value)
        BY <1>4, <2>1, <2>3, <2>4, <3>1, SpelledInTail DEF Pends
      <3>2. CASE Has(tx.fresh, value) /\ \E row \in tx.owned : row.value = value
        BY <1>4, <2>1, <2>3, <2>6, <3>2, SpelledInTail DEF Pends
      <3> QED
        BY <2>7, <2>8, <3>1, <3>2 DEF Pends
    <2>9. DoublePends(ty)
      BY <1>4, <2>3, <2>8 DEF DoublePends, Accepting
    <2> QED
      BY <1>5, <2>2, <2>9
  <1> QED
    BY <1>1, <1>7, <1>8, <1>9, <1>10, <1>11
       DEF Statement, LookUpConflict, RuleDeclines, DecisionRefused, InsertConflict, DeadlockVictim

LEMMA DoublesStay ==
    ASSUME IInv, DoublesPend, [ResolutionNext]_canonVars
    PROVE  DoublesPend'
  <1>0. transaction \in [Workers -> Transaction \cup {None}]
    BY DEF IInv, TablesOK
  <1> SUFFICES ASSUME NEW w \in Workers, transaction'[w] # None
               PROVE  DoublePends(transaction[w])'
    BY DEF DoublesPend, Open
  <1>1. DoublePends(transaction'[w])
    <2>1. CASE transaction'[w] = transaction[w]
      BY <2>1 DEF DoublesPend, Open
    <2>2. ASSUME NEW c \in Candidates, BeginResolution(w, c)
          PROVE  DoublePends(transaction'[w])
      BY <2>2, BegunPends
    <2>3. CASE Statement(w)
      <3>1. Open(w)
        BY <2>3 DEF Statement, LookUp, LookUpConflict, HumanDecides, RuleDecides, RuleDeclines, LookedUp,
           InsertDecision, DecisionRefused, CheckName, InsertName, InsertIdentifier, InsertingIdentifier,
           InsertConflict, CommitResolution, DeadlockVictim, WaitsFor, At
      <3> QED
        BY <2>3, <3>1, StatementPends DEF DoublesPend
    <2>4. ~ Abort(w)
      BY <1>0 DEF Abort
    <2>5. ASSUME NEW x \in Workers \ {w}, NEW c \in Candidates,
                 BeginResolution(x, c) \/ Statement(x) \/ CrashResolution(x)
          PROVE  transaction'[w] = transaction[w]
      BY <1>0, <2>5 DEF BeginResolution, BeginCreate, BeginRule, BeginAttach, BeginRecord, Begin, Advance,
         Statement, CrashResolution, LookUp, LookUpConflict, HumanDecides, RuleDecides, RuleDeclines,
         InsertDecision, DecisionRefused, CheckName, InsertName, InsertIdentifier, InsertConflict,
         CommitResolution, DeadlockVictim, Abort
    <2>6. ASSUME NEW x \in Workers \ {w}, Statement(x) \/ CrashResolution(x)
          PROVE  transaction'[w] = transaction[w]
      BY <1>0, <2>6 DEF Advance,
         Statement, CrashResolution, LookUp, LookUpConflict, HumanDecides, RuleDecides, RuleDeclines,
         InsertDecision, DecisionRefused, CheckName, InsertName, InsertIdentifier, InsertConflict,
         CommitResolution, DeadlockVictim, Abort
    <2> QED
      BY <2>1, <2>2, <2>3, <2>4, <2>5, <2>6 DEF ResolutionNext, CrashResolution, canonVars
  <1>2. owners \subseteq owners'
    BY OwnersOnlyGrow
  <1> QED
    BY <1>1, <1>2 DEF DoublePends, Accepting, Unowned, Pends, Twice, Has

\* At its commit nothing pends, so nothing was spelled twice.
LEMMA LineageStays ==
    ASSUME IInv, DoublesPend, LineageIsUnique, [ResolutionNext]_canonVars
    PROVE  LineageIsUnique'
  <1>1. ASSUME NEW w \in Workers, CommitResolution(w)
        PROVE  LineageIsUnique'
    <2>1. PICK tx \in Transaction : tx = transaction[w] /\ Sound(tx) /\ DoublePends(tx)
      BY <1>1, CommittedDecision DEF CommitResolution, At, DoublesPend
    <2>2. tx.unseen = <<>> /\ tx.fresh = <<>>
      BY <1>1, <2>1 DEF CommitResolution, At, Sound, Shape
    <2>3. \A value : Accepting(tx) /\ Unowned(value) => ~ Twice(ProposedBy[tx.candidate], value)
      BY <2>1, <2>2, EmptyPendsNot DEF DoublePends
    <2>4. ASSUME NEW row \in tx.owned
          PROVE  ~ Twice(ProposedBy[row.candidate], row.value)
      <3>1. row.candidate = tx.candidate /\ Accepting(tx)
        BY <2>1, <2>4, NothingAssumption DEF Sound, Shape, FromProposal, Accepting
      <3>2. Unowned(row.value)
        BY <2>1 DEF Sound, Clear, Unowned
      <3> QED
        BY <2>3, <3>1, <3>2
    <2>5. owners' = owners \cup tx.owned
      BY <1>1, <2>1 DEF CommitResolution
    <2> QED
      BY <2>4, <2>5 DEF LineageIsUnique, Twice
  <1>2. CASE UNCHANGED owners
    BY <1>2 DEF LineageIsUnique
  <1> QED
    BY <1>1, <1>2, OnlyCommitsWrite

-----------------------------------------------------------------------------
(* The theorems.                                                           *)

(* Rows have their types, and a transaction is at a step that its          *)
(* operation has.                                                          *)
THEOREM ResolutionIsTyped == ResolutionSpec => []ResolutionTypeOK
  <1>1. IInv => ResolutionTypeOK
    <2> SUFFICES ASSUME IInv, NEW w \in Workers, Open(w)
                 PROVE  /\ transaction[w].by = "rule" =>
                             transaction[w].kind = "attach_to_company" /\ transaction[w].named = {}
                        /\ transaction[w].owned # {} => transaction[w].step = "identifiers"
      BY DEF ResolutionTypeOK, IInv, TablesOK
    <2> QED
      BY SoundAt DEF Sound, Shape
  <1> QED
    BY <1>1, Inductive, PTL

(* A candidate is decided once: the row lock alone keeps every operation   *)
(* away from a candidate that another one has resolved or is resolving.    *)
THEOREM OneFinalDecisionEach == ResolutionSpec => []OneFinalDecision
  <1>1. IInv => OneFinalDecision
    BY DEF IInv, Truths
  <1> QED
    BY <1>1, Inductive, PTL

(* No identifier has two owners and no company the same name twice, though *)
(* operations on different candidates insert them concurrently.            *)
THEOREM OneOwnerEach == ResolutionSpec => []OneOwner
  <1>1. IInv => OneOwner
    BY DEF IInv, Truths
  <1> QED
    BY <1>1, Inductive, PTL

(* Every canonical name and identifier was accepted by a person, from the  *)
(* candidate that proposed it, for the company it was resolved to.         *)
THEOREM FactsHaveAuthority == ResolutionSpec => []EveryFactHasAuthority
  <1>1. IInv => EveryFactHasAuthority
    BY DEF IInv, Truths
  <1> QED
    BY <1>1, Inductive, PTL

(* A candidate that a person resolved to a company is resolved with its    *)
(* name and all its identifiers, including those that were only looked up  *)
(* and found to be the company's already.                                  *)
THEOREM NothingIsForgotten == ResolutionSpec => []ResolvedInFull
  <1>1. IInv => ResolvedInFull
    BY DEF IInv, Truths
  <1> QED
    BY <1>1, Inductive, PTL

(* Committed rows are neither removed nor changed, and names and           *)
(* identifiers arrive only together with a decision.                       *)
THEOREM CanonOnlyGrows == ResolutionSpec => CanonIsAppendOnly
  <1>1. IInv /\ [ResolutionNext]_canonVars => [CanonIsAppendOnlyStep]_canonVars
    <2> SUFFICES ASSUME IInv, ResolutionNext
                 PROVE  CanonIsAppendOnlyStep
      OBVIOUS
    <2>1. decisions \in Seq(Decision)
      BY DEF IInv, TablesOK
    <2>2. SubSeq(decisions, 1, Len(decisions)) = decisions
      BY <2>1
    <2>3. ASSUME UNCHANGED <<decisions, names, owners>>
          PROVE  CanonIsAppendOnlyStep
      BY <2>2, <2>3 DEF CanonIsAppendOnlyStep
    <2>4. ASSUME NEW w \in Workers, CommitResolution(w)
          PROVE  CanonIsAppendOnlyStep
      <3>1. PICK d : d = NewDecision(transaction[w])
        OBVIOUS
      <3>2. decisions' = Append(decisions, d) /\ names \subseteq names' /\ owners \subseteq owners'
        BY <2>4, <3>1 DEF CommitResolution
      <3>3. transaction[w] \in Transaction
        BY <2>4, SoundAt DEF CommitResolution, At
      <3>4. d \in Decision
        BY <3>1, <3>3 DEF NewDecision, Decision, Transaction
      <3>5. Len(decisions') = Len(decisions) + 1 /\ SubSeq(decisions', 1, Len(decisions)) = decisions
        BY <2>1, <3>2, <3>4
      <3> QED
        BY <3>2, <3>5 DEF CanonIsAppendOnlyStep
    <2> QED
      BY <2>3, <2>4, OnlyCommitsWrite
  <1> QED
    BY <1>1, Inductive, PTL DEF ResolutionSpec, CanonIsAppendOnly

(* An identifier that a company owns traces back to one proposed           *)
(* identifier of the candidate it was accepted from: a candidate that      *)
(* spells one identifier twice is refused whatever is looked up, inserted  *)
(* and committed in between.                                               *)
THEOREM LineageStaysUnique == ResolutionSpec => []LineageIsUnique
  <1>1. ResolutionInit => DoublesPend /\ LineageIsUnique
    BY DEF ResolutionInit, DoublesPend, Open, LineageIsUnique
  <1> QED
    BY <1>1, DoublesStay, LineageStays, InitEstablishes, NextPreserves, PTL DEF ResolutionSpec

(* Operations whose statements interleave, wait for one another, deadlock  *)
(* and die leave what deciding the candidates one after the other could    *)
(* have left: every commit is one step of Canon, on what is true then.     *)
THEOREM ImplementsAtomicDecisions == ResolutionSpec => ImplementsCanon
  <1>1. ResolutionInit => Committed!Init
    BY DEF ResolutionInit, Committed!Init
  <1>2. /\ IInv /\ CreatedFromItself /\ RuleMatched
        /\ [ResolutionNext]_canonVars
        => [Committed!Next]_(Committed!canon)
    <2> SUFFICES ASSUME IInv, CreatedFromItself, RuleMatched, [ResolutionNext]_canonVars,
                        UNCHANGED <<decisions, names, owners>> => FALSE
                 PROVE  Committed!Next
      BY DEF Committed!canon
    <2>1. PICK w \in Workers : CommitResolution(w)
      BY OnlyCommitsWrite
    <2> QED
      BY <2>1, CommitIsAtomic
  <1> QED
    BY <1>1, <1>2, Inductive, CommitsAlways, PTL DEF ResolutionSpec, ImplementsCanon, Committed!Spec
=============================================================================
