-------------------------------- MODULE Access --------------------------------
(***************************************************************************)
(* Who may come to have access to a startup, and by whose decision         *)
(* (src/app/database/db.py: the docstrings of create_startup_claim,        *)
(* approve_startup_claim and graduate_venture), without requests,          *)
(* transactions, races or crashes: startups appear, users claim them,      *)
(* claims are decided once, and ventures become startups.                  *)
(***************************************************************************)
EXTENDS Integers, Sequences

CONSTANTS Users, Reviewer, Ventures, OwnerOf, Names, None

VARIABLES
    ventures,       \* the ventures there are
    startups,       \* per name: absent, or from what the startup came about
    claims,         \* per user and startup, in order
    members,        \* who has access to which startup
    graduations     \* which venture became which startup

access == <<ventures, startups, claims, members, graduations>>

Absent == [kind |-> "absent", user |-> None]

FromAnalysis == [kind |-> "analysis", user |-> None]

FromGraduation(user) == [kind |-> "graduation", user |-> user]

Init ==
    /\ ventures = Ventures /\ startups = [name \in Names |-> Absent]
    /\ claims = [pair \in Users \X Names |-> <<>>] /\ members = {} /\ graduations = {}

Pending(pair, n) == claims[pair][n].status = "pending"

Refused(pair) == \E n \in DOMAIN claims[pair] : claims[pair][n].status \in {"rejected", "cancelled"}

\* A user has one pending claim on a startup at most.
File(user, name, method) ==
    /\ \A n \in DOMAIN claims[<<user, name>>] : ~ Pending(<<user, name>>, n)
    /\ claims' = [claims EXCEPT ![<<user, name>>] =
         Append(@, [status |-> "pending", method |-> method, reviewer |-> None])]
    /\ UNCHANGED <<ventures, members, graduations>>

\* The graduation of a venture creates its startup, with the founder's claim.
Found(v, name) ==
    /\ startups[name] = Absent
    /\ startups' = [startups EXCEPT ![name] = FromGraduation(OwnerOf[v])]
    /\ File(OwnerOf[v], name, "venture_graduation")

\* An analysis creates a startup of nobody's.
Appear(name) ==
    /\ startups[name] = Absent
    /\ startups' = [startups EXCEPT ![name] = FromAnalysis]
    /\ UNCHANGED <<ventures, claims, members, graduations>>

\* Anybody may claim a startup by hand; a founder claims his own once more.
Claim(user, name) ==
    /\ startups[name] # Absent /\ UNCHANGED startups
    /\ \/ File(user, name, "manual_review")
       \/ File(user, name, "venture_graduation") /\ startups[name] = FromGraduation(user)

Decide(pair, n, status, by) ==
    /\ Pending(pair, n)
    /\ claims' = [claims EXCEPT ![pair][n].status = status, ![pair][n].reviewer = by]
    /\ UNCHANGED <<ventures, startups, graduations>>

\* A reviewer admits anybody, a founder himself by the claim of his graduation.
Admit(pair, n) ==
    /\ \/ Decide(pair, n, "approved", Reviewer)
       \/ /\ Decide(pair, n, "approved", pair[1])
          /\ claims[pair][n].method = "venture_graduation"
          /\ startups[pair[2]] = FromGraduation(pair[1])
    /\ members' = members \cup {pair}

Refuse(pair, n) ==
    /\ Decide(pair, n, "rejected", Reviewer) \/ Decide(pair, n, "cancelled", None)
    /\ UNCHANGED members

\* A venture becomes a startup of its own, to which its founder has access
\* unless that was refused to him on the way.
Graduate(v, name) ==
    /\ v \in ventures /\ startups[name] # Absent
    /\ \A row \in graduations : row.venture # v /\ row.startup # name
    /\ <<OwnerOf[v], name>> \in members \/ Refused(<<OwnerOf[v], name>>)
    /\ graduations' = graduations \cup {[venture |-> v, startup |-> name, user |-> OwnerOf[v]]}
    /\ UNCHANGED <<ventures, startups, claims, members>>

Abandon(v) ==
    /\ ventures' = ventures \ {v}
    /\ graduations' = {row \in graduations : row.venture # v}
    /\ UNCHANGED <<startups, claims, members>>

Next ==
    \/ \E name \in Names : Appear(name)
    \/ \E user \in Users, name \in Names : Claim(user, name)
    \/ \E pair \in Users \X Names : \E n \in DOMAIN claims[pair] : Admit(pair, n) \/ Refuse(pair, n)
    \/ \E v \in Ventures : Abandon(v) \/ \E name \in Names : Found(v, name) \/ Graduate(v, name)

Spec == Init /\ [][Next]_access
=============================================================================
