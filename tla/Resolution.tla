----------------------------- MODULE Resolution -----------------------------
(***************************************************************************)
(* The promotion boundary: how an untrusted company candidate becomes, or  *)
(* is attached to, a canonical company (src/app/v2/resolution/promotion.py,*)
(* rules.py, _writes.py, the reads and the lock of                         *)
(* repositories/companies.py, and the guards of migration 0007).           *)
(*                                                                         *)
(* Each operation is one READ COMMITTED transaction of several statements: *)
(* lock the candidate, look up who owns its identifiers, insert the        *)
(* decision, insert the name, insert the identifiers one by one, commit.   *)
(* Statements of concurrent transactions interleave; a statement sees what *)
(* is committed and what its own transaction wrote; an INSERT that meets   *)
(* another transaction's uncommitted key waits for it, and PostgreSQL      *)
(* breaks a cycle of waits by aborting a member.                           *)
(*                                                                         *)
(* A company is identified by the candidate it was created from.           *)
(***************************************************************************)
EXTENDS Integers, Sequences, FiniteSets

CONSTANTS
    Candidates,      \* stored candidates
    NameOf,          \* NameOf[c]: the name candidate c proposes
    ProposedBy,      \* ProposedBy[c]: its proposed identifiers, in order
    Normal,          \* Normal[i]: the normalized form of identifier i
    Workers,         \* people at the review tools, and the rule's callers
    MaxDeferrals,    \* bound of the model: deferrals recorded per candidate
    None             \* SQL NULL / nothing

Identifiers == DOMAIN Normal

ASSUME ProposedAssumption == ProposedBy \in [Candidates -> Seq(Identifiers)]
ASSUME DeferralAssumption == MaxDeferrals \in Nat
ASSUME NothingAssumption == None \notin Candidates /\ None \notin Workers

VARIABLES
    decisions,     \* committed rows of v2.resolution_decision, in order
    names,         \* committed rows of v2.company_name
    owners,        \* committed rows of v2.company_identifier
    transaction    \* per worker: its open transaction, or None

canonVars == <<decisions, names, owners, transaction>>

-----------------------------------------------------------------------------
(* Rows.                                                                   *)

FinalKinds == {"create_company", "attach_to_company", "reject_candidate"}
Kinds == FinalKinds \cup {"defer_candidate"}

Decision ==
    [candidate : Candidates, kind : Kinds, company : Candidates \cup {None}, by : {"human", "rule"}]

NameRow == [company : Candidates, name : {NameOf[c] : c \in Candidates},
            role : {"canonical", "alias"}, candidate : Candidates]

OwnerRow == [company : Candidates, value : {Normal[i] : i \in Identifiers}, candidate : Candidates]

\* unseen: identifiers whose owner is still to be looked up; fresh: those to
\* insert; matched: the owners seen; named, owned: inserted, not committed.
Transaction ==
    [candidate : Candidates, kind : Kinds, company : Candidates \cup {None}, by : {"human", "rule"},
     step : {"look", "decide", "check_name", "name", "identifiers"},
     unseen : Seq(Identifiers), fresh : Seq(Identifiers), matched : SUBSET Candidates,
     named : SUBSET NameRow, owned : SUBSET OwnerRow]

DecisionsOn(c) == {n \in DOMAIN decisions : decisions[n].candidate = c}

Resolved(c) == \E n \in DecisionsOn(c) : decisions[n].kind \in FinalKinds

Companies == {decisions[n].company : n \in {m \in DOMAIN decisions : decisions[m].kind = "create_company"}}

Open(w) == transaction[w] # None

At(w, step) == Open(w) /\ transaction[w].step = step

\* lock_candidate_for_resolution: FOR NO KEY UPDATE on the candidate's row.
Locked(c) == \E w \in Workers : Open(w) /\ transaction[w].candidate = c

OwnersOf(i) == {row.company : row \in {r \in owners : r.value = Normal[i]}}

MatchedBy(c) == UNION {OwnersOf(ProposedBy[c][n]) : n \in DOMAIN ProposedBy[c]}

\* The values candidate c proposes, however they are spelled.
ValuesOf == [c \in Candidates |-> {Normal[ProposedBy[c][n]] : n \in DOMAIN ProposedBy[c]}]

Abort(w) ==
    /\ transaction' = [transaction EXCEPT ![w] = None]
    /\ UNCHANGED <<decisions, names, owners>>

Advance(w, tx) ==
    /\ transaction' = [transaction EXCEPT ![w] = tx]
    /\ UNCHANGED <<decisions, names, owners>>

ResolutionInit ==
    /\ decisions = <<>> /\ names = {} /\ owners = {}
    /\ transaction = [w \in Workers |-> None]

-----------------------------------------------------------------------------
(* _open_candidate and the part before the first write.  A candidate that  *)
(* is resolved is refused; one that is locked is waited for.               *)
MayOpenWithoutLock(c) == ~ Resolved(c)

MayOpen(c) == ~ Locked(c) /\ ~ Resolved(c)

Begin(w, c, kind, company, by, step, unseen, fresh) ==
    /\ ~ Open(w)
    /\ MayOpen(c)
    /\ Advance(w, [candidate |-> c, kind |-> kind, company |-> company, by |-> by,
                   step |-> step, unseen |-> unseen, fresh |-> fresh, matched |-> {},
                   named |-> {}, owned |-> {}])

\* create_company_from_candidate: a human; nothing is looked up.
BeginCreate(w, c) == Begin(w, c, "create_company", c, "human", "decide", <<>>, ProposedBy[c])

\* attach_candidate_to_company by a human, to a company that exists.
BeginAttach(w, c, company) ==
    /\ company \in Companies
    /\ Begin(w, c, "attach_to_company", company, "human", "look", ProposedBy[c], <<>>)

\* resolve_by_exact_identifier.
BeginRule(w, c) == Begin(w, c, "attach_to_company", None, "rule", "look", ProposedBy[c], <<>>)

Deferrals(c) == {n \in DecisionsOn(c) : decisions[n].kind = "defer_candidate"}

BeginRecord(w, c, kind) ==
    /\ kind \in {"reject_candidate", "defer_candidate"}
    /\ kind = "defer_candidate" => Cardinality(Deferrals(c)) < MaxDeferrals
    /\ Begin(w, c, kind, None, "human", "decide", <<>>, <<>>)

(* One identifier's owner is looked up, among what is committed now.       *)
LookUp(w) ==
    LET tx == transaction[w]
        i == Head(tx.unseen)
        rest == Tail(tx.unseen) IN
    /\ At(w, "look") /\ tx.unseen # <<>>
    /\ \/ tx.by = "human" /\ OwnersOf(i) = {}
          /\ Advance(w, [tx EXCEPT !.unseen = rest, !.fresh = Append(@, i)])
       \/ tx.by = "human" /\ OwnersOf(i) = {tx.company}
          /\ Advance(w, [tx EXCEPT !.unseen = rest])
       \/ tx.by = "rule"
          /\ Advance(w, [tx EXCEPT !.unseen = rest, !.matched = @ \cup OwnersOf(i)])

\* IdentifierConflictError: a different company owns it.
LookUpConflict(w) ==
    /\ At(w, "look") /\ transaction[w].unseen # <<>> /\ transaction[w].by = "human"
    /\ OwnersOf(Head(transaction[w].unseen)) \ {transaction[w].company} # {}
    /\ Abort(w)

LookedUp(w) == At(w, "look") /\ transaction[w].unseen = <<>>

HumanDecides(w) ==
    /\ LookedUp(w) /\ transaction[w].by = "human"
    /\ Advance(w, [transaction[w] EXCEPT !.step = "decide"])

RuleDecides(w) ==
    /\ LookedUp(w) /\ transaction[w].by = "rule"
    /\ \E company \in transaction[w].matched :
         /\ transaction[w].matched = {company}
         /\ Advance(w, [transaction[w] EXCEPT !.step = "decide", !.company = company])

RuleDeclinesLeavingOpen(w) ==
    /\ LookedUp(w) /\ transaction[w].by = "rule"
    /\ \A company \in transaction[w].matched : transaction[w].matched # {company}
    /\ UNCHANGED canonVars

\* No match, or an ambiguous one: the rule writes nothing.
RuleDeclines(w) ==
    /\ LookedUp(w) /\ transaction[w].by = "rule"
    /\ \A company \in transaction[w].matched : transaction[w].matched # {company}
    /\ Abort(w)
-----------------------------------------------------------------------------
(* Writing: the decision, the name, the identifiers, the commit.           *)

\* resolution_decision_guard looks again, at what is committed by now.
GuardAccepts(tx) ==
    /\ ~ Resolved(tx.candidate)
    /\ tx.by = "rule" => MatchedBy(tx.candidate) = {tx.company}

AfterDecisionByAnybody(tx) ==
    CASE tx.kind = "create_company" -> "name"
      [] tx.kind = "attach_to_company" -> "check_name"
      [] OTHER -> "identifiers"

AfterDecision(tx) ==
    CASE tx.kind = "create_company" -> "name"
      [] tx.kind = "attach_to_company" /\ tx.by = "human" -> "check_name"
      [] OTHER -> "identifiers"

InsertDecision(w) ==
    /\ At(w, "decide")
    /\ GuardAccepts(transaction[w])
    /\ Advance(w, [transaction[w] EXCEPT !.step = AfterDecision(transaction[w])])

DecisionRefused(w) ==
    /\ At(w, "decide")
    /\ ~ GuardAccepts(transaction[w])
    /\ Abort(w)

NewName(tx) ==
    [company |-> tx.company, name |-> NameOf[tx.candidate],
     role |-> IF tx.kind = "create_company" THEN "canonical" ELSE "alias",
     candidate |-> tx.candidate]

SameName(row, other) == row.company = other.company /\ row.name = other.name

NameTaken(tx) == \E row \in names : SameName(row, NewName(tx))

\* An attach adds the name as an alias unless the company has it.
CheckName(w) ==
    /\ At(w, "check_name")
    /\ Advance(w, [transaction[w] EXCEPT !.step =
         IF NameTaken(transaction[w]) THEN "identifiers" ELSE "name"])

NewOwner(tx) ==
    [company |-> tx.company, value |-> Normal[Head(tx.fresh)], candidate |-> tx.candidate]

ValueTakenByOthers(tx) == \E row \in owners : row.value = NewOwner(tx).value

ValueTaken(tx) == \E row \in owners \cup tx.owned : row.value = NewOwner(tx).value

InsertingIdentifier(w) == At(w, "identifiers") /\ transaction[w].fresh # <<>>

\* An INSERT waits for a transaction that inserted its key and is not over.
NoWait(w, x) == FALSE

WaitsFor(w, x) ==
    /\ w # x /\ Open(x)
    /\ \/ At(w, "name") /\ \E row \in transaction[x].named : SameName(row, NewName(transaction[w]))
       \/ /\ InsertingIdentifier(w)
          /\ \E row \in transaction[x].owned : row.value = NewOwner(transaction[w]).value

Blocked(w) == \E x \in Workers : WaitsFor(w, x)

InsertNameAutocommitted(w) ==
    /\ At(w, "name") /\ ~ Blocked(w) /\ ~ NameTaken(transaction[w])
    /\ names' = names \cup {NewName(transaction[w])}
    /\ transaction' = [transaction EXCEPT ![w] = [@ EXCEPT !.step = "identifiers"]]
    /\ UNCHANGED <<decisions, owners>>

InsertName(w) ==
    /\ At(w, "name") /\ ~ Blocked(w) /\ ~ NameTaken(transaction[w])
    /\ Advance(w, [transaction[w] EXCEPT !.step = "identifiers", !.named = {NewName(transaction[w])}])

InsertIdentifier(w) ==
    LET tx == transaction[w] IN
    /\ InsertingIdentifier(w) /\ ~ Blocked(w) /\ ~ ValueTaken(tx)
    /\ Advance(w, [tx EXCEPT !.fresh = Tail(@), !.owned = @ \cup {NewOwner(tx)}])

(* A unique constraint is violated: uq_company_name_company_name, or       *)
(* uq_company_identifier_value - by another company, or by the candidate's *)
(* own earlier identifier.  Everything is rolled back.                     *)
InsertConflict(w) ==
    /\ ~ Blocked(w)
    /\ \/ At(w, "name") /\ NameTaken(transaction[w])
       \/ InsertingIdentifier(w) /\ ValueTaken(transaction[w])
    /\ Abort(w)

NewDecision(tx) ==
    [candidate |-> tx.candidate, kind |-> tx.kind, company |-> tx.company, by |-> tx.by]

CommitEarly(w) ==
    LET tx == transaction[w] IN
    /\ At(w, "identifiers")
    /\ decisions' = Append(decisions, NewDecision(tx))
    /\ names' = names \cup tx.named
    /\ owners' = owners \cup tx.owned
    /\ transaction' = [transaction EXCEPT ![w] = None]

CommitResolution(w) ==
    LET tx == transaction[w] IN
    /\ At(w, "identifiers") /\ tx.fresh = <<>>
    /\ decisions' = Append(decisions, NewDecision(tx))
    /\ names' = names \cup tx.named
    /\ owners' = owners \cup tx.owned
    /\ transaction' = [transaction EXCEPT ![w] = None]

\* PostgreSQL aborts a member of a cycle of waits; the error is no
\* IntegrityError and leaves the tool as it is.
DeadlockVictim(w) ==
    /\ \E cycle \in SUBSET Workers :
         w \in cycle /\ \A x \in cycle : \E y \in cycle : WaitsFor(x, y)
    /\ Abort(w)

CrashResolution(w) == Open(w) /\ Abort(w)

-----------------------------------------------------------------------------
Statement(w) ==
    \/ LookUp(w) \/ LookUpConflict(w) \/ HumanDecides(w) \/ RuleDecides(w) \/ RuleDeclines(w)
    \/ InsertDecision(w) \/ DecisionRefused(w) \/ CheckName(w) \/ InsertName(w)
    \/ InsertIdentifier(w) \/ InsertConflict(w) \/ CommitResolution(w) \/ DeadlockVictim(w)

BeginResolution(w, c) ==
    \/ BeginCreate(w, c) \/ BeginRule(w, c)
    \/ \E company \in Candidates : BeginAttach(w, c, company)
    \/ \E kind \in Kinds : BeginRecord(w, c, kind)

ResolutionNext ==
    \E w \in Workers :
        \/ \E c \in Candidates : BeginResolution(w, c)
        \/ Statement(w)
        \/ CrashResolution(w)

(* A transaction that has begun executes its next statement, and one that  *)
(* waits for a key gets its turn if the key keeps becoming free; nobody    *)
(* has to begin one.                                                       *)
ResolutionSpec ==
    ResolutionInit /\ [][ResolutionNext]_canonVars /\ \A w \in Workers : SF_canonVars(Statement(w))

-----------------------------------------------------------------------------
(* Properties.                                                             *)

(* Rows have their types, and a transaction is at a step that its          *)
(* operation has.                                                          *)
ResolutionTypeOK ==
    /\ decisions \in Seq(Decision)
    /\ names \subseteq NameRow
    /\ owners \subseteq OwnerRow
    /\ transaction \in [Workers -> Transaction \cup {None}]
    /\ \A w \in Workers : Open(w) =>
         /\ transaction[w].by = "rule" => transaction[w].kind = "attach_to_company" /\ transaction[w].named = {}
         /\ transaction[w].owned # {} => transaction[w].step = "identifiers"

(* At most one final decision per candidate, and nothing after it, not     *)
(* even a deferral: locking the candidate's row is enough, the unique      *)
(* index uq_resolution_decision_one_final is never met.                    *)
OneFinalDecision ==
    \A n, m \in DOMAIN decisions :
        n < m /\ decisions[n].candidate = decisions[m].candidate =>
            decisions[n].kind = "defer_candidate"

(* No identifier has two owners and no company two rows of one name, also  *)
(* when concurrent operations claim it (uq_company_identifier_value,       *)
(* uq_company_name_company_name).                                          *)
OneOwner ==
    /\ \A row, other \in owners : row.value = other.value => row = other
    /\ \A row, other \in names : SameName(row, other) => row = other

(* Every canonical fact was accepted by a human, from the candidate that   *)
(* proposed it, for the company that candidate was resolved to.            *)
Accepts(c, company) ==
    \E n \in DecisionsOn(c) : decisions[n].by = "human" /\ decisions[n].company = company

EveryFactHasAuthority ==
    /\ \A row \in owners :
         /\ Accepts(row.candidate, row.company)
         /\ \E n \in DOMAIN ProposedBy[row.candidate] : Normal[ProposedBy[row.candidate][n]] = row.value
    /\ \A row \in names : Accepts(row.candidate, row.company) /\ row.name = NameOf[row.candidate]
    /\ \A n \in DOMAIN decisions : decisions[n].company # None => decisions[n].company \in Companies

(* All or nothing: once a human has resolved a candidate to a company, the *)
(* company has the candidate's name and every one of its identifiers,      *)
(* although what was already there was only looked at, statements before   *)
(* the commit.                                                             *)
ResolvedInFull ==
    \A n \in DOMAIN decisions :
        decisions[n].by = "human" /\ decisions[n].company # None =>
            /\ \E row \in names :
                 row.company = decisions[n].company /\ row.name = NameOf[decisions[n].candidate]
            /\ \A i \in DOMAIN ProposedBy[decisions[n].candidate] :
                 OwnersOf(ProposedBy[decisions[n].candidate][i]) = {decisions[n].company}

(* Lineage is unique: an accepted identifier traces back to exactly one    *)
(* proposed identifier of its candidate.  The code compares no two         *)
(* spellings; a candidate with two of one identifier collides with itself  *)
(* and is refused as a whole - also when another transaction makes the     *)
(* identifier the company's between the look-ups of the two.               *)
LineageIsUnique ==
    \A row \in owners : \A n, m \in DOMAIN ProposedBy[row.candidate] :
        /\ Normal[ProposedBy[row.candidate][n]] = row.value
        /\ Normal[ProposedBy[row.candidate][m]] = row.value
        => n = m

(* Canonical history is append-only: nothing that is committed is removed  *)
(* or changed, and a decision arrives together with the facts it accepts.  *)
CanonIsAppendOnlyStep ==
    /\ SubSeq(decisions', 1, Len(decisions)) = decisions
    /\ names \subseteq names' /\ owners \subseteq owners'
    /\ names' # names \/ owners' # owners => Len(decisions') = Len(decisions) + 1

CanonIsAppendOnly == [][CanonIsAppendOnlyStep]_canonVars

(* Every operation is atomic, although its statements interleave with      *)
(* those of others and look at what was committed at different times: what *)
(* is committed is what deciding the candidates one after the other could  *)
(* have left, each decision at once and on what was true at its commit.    *)
(* Lookups, refusals, waits, deadlocks and crashes are stuttering.         *)
Committed == INSTANCE Canon WITH decided <- decisions, named <- names, owned <- owners

ImplementsCanon == Committed!Spec

(* Every operation ends, by commit or by error, whatever it meets: waits   *)
(* form no cycle that nobody breaks.                                       *)
OperationsEnd == \A w \in Workers : Open(w) ~> ~ Open(w)
=============================================================================
