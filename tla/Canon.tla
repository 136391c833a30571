-------------------------------- MODULE Canon --------------------------------
(***************************************************************************)
(* What the promotion boundary promises its readers, without transactions, *)
(* statements, locks or waits: candidates are decided one after the other, *)
(* each decision at once with the name and identifiers it accepts          *)
(* (the headers of resolution/promotion.py and migration 0007).            *)
(***************************************************************************)
EXTENDS Integers, Sequences

CONSTANTS
    Candidates, None,
    NameOf,          \* NameOf[c]: the name candidate c proposes
    ValuesOf         \* ValuesOf[c]: the normalized identifiers it proposes

VARIABLES
    decided,         \* the decisions, in order
    named,           \* the names of companies
    owned            \* which company owns which identifier

canon == <<decided, named, owned>>

Init == decided = <<>> /\ named = {} /\ owned = {}

Final(c) ==
    \E n \in DOMAIN decided : decided[n].candidate = c /\ decided[n].kind # "defer_candidate"

Companies == {decided[n].company : n \in {m \in DOMAIN decided : decided[m].kind = "create_company"}}

\* The companies that own an identifier of candidate c.
Matches(c) == {row.company : row \in {r \in owned : r.value \in ValuesOf[c]}}

HasName(company, name) == \E row \in named : row.company = company /\ row.name = name

Decide(c, kind, company, by) ==
    /\ ~ Final(c)
    /\ decided' = Append(decided, [candidate |-> c, kind |-> kind, company |-> company, by |-> by])

\* A person takes everything the candidate proposes for the company: what is
\* not the company's yet becomes so, and nothing of it is another's.
Accept(c, kind, company, role) ==
    /\ Decide(c, kind, company, "human")
    /\ Matches(c) \subseteq {company}
    /\ named' = named \cup
         {row \in {[company |-> company, name |-> NameOf[c], role |-> role, candidate |-> c]} :
            ~ HasName(company, row.name)}
    /\ owned' = owned \cup
         [company : {company}, value : ValuesOf[c] \ {row.value : row \in owned}, candidate : {c}]

\* A company is new: it has no name, and nobody owns its identifiers.
Create(c) ==
    /\ Accept(c, "create_company", c, "canonical")
    /\ c \notin Companies /\ Matches(c) = {} /\ \A row \in named : row.company # c

Attach(c, company) ==
    /\ company \in Companies
    /\ Accept(c, "attach_to_company", company, "alias")

\* The rule decides on what is owned, and adds nothing to it.
AttachByRule(c, company) ==
    /\ company \in Matches(c)
    /\ Decide(c, "attach_to_company", company, "rule")
    /\ UNCHANGED <<named, owned>>

Record(c, kind) == Decide(c, kind, None, "human") /\ UNCHANGED <<named, owned>>

Next ==
    \E c \in Candidates :
        \/ Create(c)
        \/ \E company \in Candidates : Attach(c, company) \/ AttachByRule(c, company)
        \/ \E kind \in {"reject_candidate", "defer_candidate"} : Record(c, kind)

Spec == Init /\ [][Next]_canon
=============================================================================
