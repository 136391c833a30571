----------------------------- MODULE Graduation -----------------------------
(***************************************************************************)
(* How a founder's venture becomes a startup, and how access to a startup  *)
(* is granted (src/app/database/db.py: startup claims and venture          *)
(* graduations; their endpoints in src/app/api.py).                        *)
(*                                                                         *)
(* A request is a sequence of short READ COMMITTED transactions: resolve   *)
(* the company name to a startup, make the founder a member by approving a *)
(* claim of his own, link the venture to the startup.  Parallel requests,  *)
(* reviewers and claimants act between any two statements, and a process   *)
(* may die there; the founder then sends the request again.                *)
(*                                                                         *)
(* A startup is identified by its normalized name; the claims of a user on *)
(* a startup are kept in the order of their insertion.                     *)
(***************************************************************************)
EXTENDS Integers, Sequences, FiniteSets

CONSTANTS
    Users,
    Reviewer,      \* an administrator
    Ventures,      \* modeled ventures
    OwnerOf,       \* OwnerOf[v]: the user whose venture v is
    Names,         \* normalized company names
    Wanted,        \* Wanted[v]: the name v's founder keeps asking for
    Claimants,     \* users who also file claims by hand
    Abandonable,   \* ventures their founders may delete
    Workers,       \* requests served at a time
    MaxRefusals,   \* bound of the model: claims rejected or cancelled
    None,          \* SQL NULL / nothing
    Dead           \* a worker whose process has died

ASSUME OwnerAssumption == OwnerOf \in [Ventures -> Users] /\ Wanted \in [Ventures -> Names]
ASSUME RefusalAssumption == MaxRefusals \in Nat
ASSUME NobodyAssumption == None \notin Users /\ Reviewer \notin Users /\ Reviewer # None /\ Dead # None

VARIABLES
    ventures,      \* rows of modeled_ventures
    startups,      \* per name: absent, or how the startup came about: from an
                   \* analysis or from a user's graduation (history variable)
    claims,        \* rows of startup_claims, per pair <<user, name>>, in order
    members,       \* rows of startup_memberships: <<user, name>>
    graduations,   \* rows of venture_graduations
    request        \* per worker: the request it serves, None or Dead

tables == <<ventures, startups, claims, members, graduations>>
graduationVars == <<tables, request>>

-----------------------------------------------------------------------------
(* Rows and requests.                                                      *)

Absent == [kind |-> "absent", user |-> None]

FromAnalysis == [kind |-> "analysis", user |-> None]

FromGraduation(user) == [kind |-> "graduation", user |-> user]

Origins == {Absent, FromAnalysis} \cup {FromGraduation(user) : user \in Users}

Pairs == Users \X Names

Claim ==
    [status : {"pending", "approved", "rejected", "cancelled"},
     method : {"manual_review", "venture_graduation"}, reviewer : Users \cup {Reviewer, None}]

Link == [venture : Ventures, startup : Names, user : Users]

\* claim: pending_claim_id or the id of the claim just created, as its place
\* among the claims of its user and startup; 0 for none.
Request ==
    [kind : {"graduate", "claim"}, user : Users, venture : Ventures \cup {None}, startup : Names,
     claim : Nat,
     step : {"find", "insert", "tag", "is_member", "own_claim", "ensure", "approve", "claim_member",
             "claim_pending", "claim_insert", "find_claim", "approve_found", "link"}]

Open(w) == request[w] \notin {None, Dead}

At(w, step) == Open(w) /\ request[w].step = step

Exists(name) == startups[name] # Absent

Pair(w) == <<request[w].user, request[w].startup>>

IsMember(w) == Pair(w) \in members

ClaimsOf(w) == claims[Pair(w)]

HasPending(w) == \E n \in DOMAIN ClaimsOf(w) : ClaimsOf(w)[n].status = "pending"

RefusedTo(pair) == {n \in DOMAIN claims[pair] : claims[pair][n].status \in {"rejected", "cancelled"}}

Refusals == UNION {{<<pair, n>> : n \in RefusedTo(pair)} : pair \in Pairs}

\* _find_venture_graduation_claim: n is the most recent one.
GraduationClaim(pair, n) ==
    /\ claims[pair][n].method = "venture_graduation"
    /\ \A m \in DOMAIN claims[pair] : m > n => claims[pair][m].method # "venture_graduation"

\* ... and its status is one of these.
Found(w, n, statuses) == GraduationClaim(Pair(w), n) /\ ClaimsOf(w)[n].status \in statuses

Carry(w, claim, step) ==
    /\ request' = [request EXCEPT ![w].step = step, ![w].claim = claim]
    /\ UNCHANGED tables

\* No claim is carried on: the code uses none after this step.
Goto(w, step) == Carry(w, 0, step)

Finish(w) ==
    /\ request' = [request EXCEPT ![w] = None]
    /\ UNCHANGED tables

GraduationInit ==
    /\ ventures = Ventures
    /\ startups = [name \in Names |-> Absent]
    /\ claims = [pair \in Pairs |-> <<>>] /\ members = {} /\ graduations = {}
    /\ request = [w \in Workers |-> None]

-----------------------------------------------------------------------------
(* Requests arrive.  One that its first statements answer - the venture    *)
(* has graduated, the startup is not there, the user is (not) a member -   *)
(* changes nothing and is not modelled.                                    *)

Graduated(v) == \E row \in graduations : row.venture = v

Begin(w, kind, user, venture, name, step) ==
    /\ request[w] = None
    /\ request' = [request EXCEPT ![w] =
         [kind |-> kind, user |-> user, venture |-> venture, startup |-> name, claim |-> 0,
          step |-> step]]
    /\ UNCHANGED tables

\* POST /ventures/{id}/graduate with a company name.
BeginGraduation(w, v, name) ==
    /\ v \in ventures /\ ~ Graduated(v)
    /\ Begin(w, "graduate", OwnerOf[v], v, name, "find")

\* ... with connect_existing_startup_id: for members only.
BeginConnection(w, v, name) ==
    /\ v \in ventures /\ ~ Graduated(v) /\ <<OwnerOf[v], name>> \in members
    /\ Begin(w, "graduate", OwnerOf[v], v, name, "ensure")

\* POST /startup-claims; create_startup_claim has seen no membership.
BeginClaim(w, user, name) ==
    /\ user \in Claimants /\ Exists(name) /\ <<user, name>> \notin members
    /\ Begin(w, "claim", user, None, name, "claim_pending")

-----------------------------------------------------------------------------
(* resolve_startup_for_graduation.                                         *)

FindStartup(w) ==
    /\ At(w, "find")
    /\ Goto(w, IF Exists(request[w].startup) THEN "is_member" ELSE "insert")

\* The INSERT waits for another request's uncommitted startup of that name.
NameLocked(w) ==
    \E x \in Workers \ {w} : At(x, "tag") /\ request[x].startup = request[w].startup

InsertStartupAutocommitted(w) ==
    /\ At(w, "insert") /\ ~ NameLocked(w)
    /\ startups' = [startups EXCEPT ![request[w].startup] =
         IF Exists(request[w].startup) THEN @ ELSE FromGraduation(request[w].user)]
    /\ request' = [request EXCEPT ![w].step = IF Exists(request[w].startup) THEN "is_member" ELSE "tag"]
    /\ UNCHANGED <<ventures, claims, members, graduations>>

\* An IntegrityError resolves once more, in a fresh transaction.
InsertStartup(w) ==
    /\ At(w, "insert") /\ ~ NameLocked(w)
    /\ Goto(w, IF Exists(request[w].startup) THEN "is_member" ELSE "tag")

AddClaim(w, method) ==
    claims' = [claims EXCEPT ![Pair(w)] =
        Append(@, [status |-> "pending", method |-> method, reviewer |-> None])]

TagStartupLater(w) ==
    /\ At(w, "tag")
    /\ startups' = [startups EXCEPT ![request[w].startup] = FromGraduation(request[w].user)]
    /\ request' = [request EXCEPT ![w].step = "ensure", ![w].claim = Len(ClaimsOf(w)) + 1]
    /\ UNCHANGED <<ventures, claims, members, graduations>>

\* The founder's claim, in the transaction of the startup, and its commit.
TagStartup(w) ==
    /\ At(w, "tag")
    /\ startups' = [startups EXCEPT ![request[w].startup] = FromGraduation(request[w].user)]
    /\ AddClaim(w, "venture_graduation")
    /\ request' = [request EXCEPT ![w].step = "ensure", ![w].claim = Len(ClaimsOf(w)) + 1]
    /\ UNCHANGED <<ventures, members, graduations>>

ReadMember(w) ==
    /\ At(w, "is_member")
    /\ Goto(w, IF IsMember(w) THEN "ensure" ELSE "own_claim")

ReadOwnClaimColliding(w) ==
    /\ At(w, "own_claim")
    /\ IF \E n \in DOMAIN ClaimsOf(w) : Found(w, n, {"approved"}) THEN Goto(w, "ensure") ELSE Finish(w)

\* The founder's own unfinished attempt is taken up again; anything else is
\* a StartupNameCollisionError.
ReadOwnClaim(w) ==
    /\ At(w, "own_claim")
    /\ \/ \E n \in DOMAIN ClaimsOf(w) : Found(w, n, {"pending"}) /\ Carry(w, n, "ensure")
       \/ \E n \in DOMAIN ClaimsOf(w) : Found(w, n, {"approved"}) /\ Goto(w, "ensure")
       \/ /\ \A n \in DOMAIN ClaimsOf(w) : ~ Found(w, n, {"pending", "approved"})
          /\ Finish(w)

-----------------------------------------------------------------------------
(* _ensure_graduation_membership and create_startup_claim.                 *)

EnsureMember(w) ==
    /\ At(w, "ensure")
    /\ IF IsMember(w) THEN Goto(w, "link")
       ELSE Carry(w, request[w].claim, IF request[w].claim # 0 THEN "approve" ELSE "claim_member")

DecideUnguarded(pair, n, status, reviewer) ==
    claims' = [claims EXCEPT ![pair][n].status = status, ![pair][n].reviewer = reviewer]

\* Only a pending claim is decided; otherwise nothing is written.
Decide(pair, n, status, reviewer) ==
    claims' = IF claims[pair][n].status = "pending"
              THEN [claims EXCEPT ![pair][n].status = status, ![pair][n].reviewer = reviewer]
              ELSE claims

\* approve_startup_claim: the claim's row is locked from the look to the commit.
Approve(pair, n, reviewer) ==
    /\ Decide(pair, n, "approved", reviewer)
    /\ members' = IF claims[pair][n].status = "pending" THEN members \cup {pair} ELSE members

ApproveOwn(w, step) ==
    /\ Approve(Pair(w), request[w].claim, request[w].user)
    /\ request' = [request EXCEPT ![w].step = step, ![w].claim = 0]
    /\ UNCHANGED <<ventures, startups, graduations>>

\* Afterwards the membership is looked at twice in a row, here and by
\* create_startup_claim: ClaimReadsMember is both.
ApproveGiven(w) == At(w, "approve") /\ ApproveOwn(w, "claim_member")

\* AlreadyMemberError: the graduation is content.
ClaimReadsMember(w) ==
    /\ At(w, "claim_member")
    /\ Goto(w, IF IsMember(w) THEN "link" ELSE "claim_pending")

\* DuplicatePendingClaimError: POST /startup-claims answers 409, a graduation
\* looks for the claim of a concurrent request.
Duplicate(w) == IF request[w].kind = "claim" THEN Finish(w) ELSE Goto(w, "find_claim")

ClaimReadsPending(w) ==
    /\ At(w, "claim_pending")
    /\ IF HasPending(w) THEN Duplicate(w) ELSE Goto(w, "claim_insert")

\* startup_claims_one_pending_per_user_startup.
ClaimDuplicate(w) == At(w, "claim_insert") /\ HasPending(w) /\ Duplicate(w)

InsertClaim(w) ==
    /\ At(w, "claim_insert") /\ ~ HasPending(w)
    /\ AddClaim(w, IF request[w].kind = "claim" THEN "manual_review" ELSE "venture_graduation")
    /\ request' = IF request[w].kind = "claim"
                  THEN [request EXCEPT ![w] = None]
                  ELSE [request EXCEPT ![w].step = "approve_found", ![w].claim = Len(ClaimsOf(w)) + 1]
    /\ UNCHANGED <<ventures, startups, members, graduations>>

FindAnyClaim(w) ==
    /\ At(w, "find_claim")
    /\ \E n \in DOMAIN ClaimsOf(w) :
         ClaimsOf(w)[n].status = "pending" /\ Carry(w, n, "approve_found")

\* A graduation claim that is still pending is approved, or nothing is.
FindClaim(w) ==
    /\ At(w, "find_claim")
    /\ \/ \E n \in DOMAIN ClaimsOf(w) : Found(w, n, {"pending"}) /\ Carry(w, n, "approve_found")
       \/ (\A n \in DOMAIN ClaimsOf(w) : ~ Found(w, n, {"pending"})) /\ Goto(w, "link")

\* Whether the approval took place is not looked at.
ApproveFound(w) == At(w, "approve_found") /\ ApproveOwn(w, "link")

-----------------------------------------------------------------------------
(* create_venture_graduation.                                              *)

LinkVenture(w) ==
    /\ At(w, "link")
    /\ request[w].venture \in ventures
    /\ \A row \in graduations :
         row.venture # request[w].venture /\ row.startup # request[w].startup
    /\ graduations' = graduations \cup
         {[venture |-> request[w].venture, startup |-> request[w].startup, user |-> request[w].user]}
    /\ request' = [request EXCEPT ![w] = None]
    /\ UNCHANGED <<ventures, startups, claims, members>>

\* The venture has graduated meanwhile, the startup is another venture's
\* (StartupAlreadyGraduatedError), or the venture has been deleted.
LinkRefused(w) ==
    /\ At(w, "link")
    /\ \/ request[w].venture \notin ventures
       \/ \E row \in graduations :
            row.venture = request[w].venture \/ row.startup = request[w].startup
    /\ Finish(w)

-----------------------------------------------------------------------------
(* Everybody else.                                                         *)

\* get_or_create_startup, on behalf of an analysis.
Analyze(name) ==
    /\ ~ Exists(name)
    /\ \A w \in Workers : ~ (At(w, "tag") /\ request[w].startup = name)
    /\ startups' = [startups EXCEPT ![name] = FromAnalysis]
    /\ UNCHANGED <<ventures, claims, members, graduations, request>>

\* POST /admin/startup-claims/{id}/approve.
ReviewerApproves(pair, n) ==
    /\ claims[pair][n].status = "pending"
    /\ Approve(pair, n, Reviewer)
    /\ UNCHANGED <<ventures, startups, graduations, request>>

\* reject_startup_claim by the reviewer, cancel_startup_claim by the claimant.
RefuseClaim(pair, n) ==
    /\ claims[pair][n].status = "pending" /\ Cardinality(Refusals) < MaxRefusals
    /\ \/ Decide(pair, n, "rejected", Reviewer)
       \/ Decide(pair, n, "cancelled", None)
    /\ UNCHANGED <<ventures, startups, members, graduations, request>>

\* delete_modeled_venture_for_user; its graduation goes with it.
DeleteVenture(v) ==
    /\ v \in ventures \cap Abandonable
    /\ ventures' = ventures \ {v}
    /\ graduations' = {row \in graduations : row.venture # v}
    /\ UNCHANGED <<startups, claims, members, request>>

\* The process dies: an open transaction is rolled back, the rest stays.
CrashRequest(w) ==
    /\ Open(w)
    /\ request' = [request EXCEPT ![w] = Dead]
    /\ UNCHANGED tables

Restart(w) == request[w] = Dead /\ Finish(w)

-----------------------------------------------------------------------------
Serve(w) ==
    \/ FindStartup(w) \/ InsertStartup(w) \/ TagStartup(w)
    \/ ReadMember(w) \/ ReadOwnClaim(w) \/ EnsureMember(w) \/ ApproveGiven(w)
    \/ ClaimReadsMember(w) \/ ClaimReadsPending(w) \/ ClaimDuplicate(w) \/ InsertClaim(w)
    \/ FindClaim(w) \/ ApproveFound(w) \/ LinkVenture(w) \/ LinkRefused(w)

Arrive(w) ==
    \/ \E v \in Ventures, name \in Names : BeginGraduation(w, v, name) \/ BeginConnection(w, v, name)
    \/ \E user \in Users, name \in Names : BeginClaim(w, user, name)

Outside ==
    \/ \E name \in Names : Analyze(name)
    \/ \E pair \in Pairs : \E n \in DOMAIN claims[pair] : ReviewerApproves(pair, n) \/ RefuseClaim(pair, n)
    \/ \E v \in Ventures : DeleteVenture(v)

Crash == \E w \in Workers : CrashRequest(w)

GraduationNext == (\E w \in Workers : Serve(w) \/ Arrive(w) \/ Restart(w)) \/ Outside \/ Crash

GraduationSpec == GraduationInit /\ [][GraduationNext]_graduationVars

(* A request that is served goes on, and a process that died is started    *)
(* again; a founder sends his request again as long as his venture is      *)
(* there and has not graduated; and processes do not die for ever.         *)
Retry(v) == \E w \in Workers : BeginGraduation(w, v, Wanted[v])

FairGraduationSpec ==
    /\ GraduationSpec
    /\ \A w \in Workers : WF_graduationVars(Serve(w) \/ Restart(w))
    /\ \A v \in Ventures : SF_graduationVars(Retry(v))
    /\ <>[][~ Crash]_graduationVars

-----------------------------------------------------------------------------
(* Properties.                                                             *)

(* Rows have their types, and a request that is about to approve a claim   *)
(* has one, of its own user and startup.                                   *)
GraduationTypeOK ==
    /\ ventures \subseteq Ventures
    /\ startups \in [Names -> Origins]
    /\ claims \in [Pairs -> Seq(Claim)]
    /\ members \subseteq Pairs
    /\ graduations \subseteq Link
    /\ request \in [Workers -> Request \cup {None, Dead}]
    /\ \A w \in Workers : Open(w) =>
         /\ request[w].claim # 0 => request[w].claim \in DOMAIN ClaimsOf(w)
         /\ request[w].step \in {"approve", "approve_found"} => request[w].claim # 0

(* A decision is final and is what grants access: whoever approves with an *)
(* id he read some statements ago can neither revive a claim that was      *)
(* refused meanwhile nor grant a membership by it; a member arrives in the *)
(* step in which a pending claim of his is approved, and never leaves.     *)
DecisionsGrantStep ==
    /\ \A pair \in Pairs :
         /\ Len(claims[pair]) <= Len(claims'[pair])
         /\ \A n \in DOMAIN claims[pair] :
              claims[pair][n].status # "pending" => claims'[pair][n] = claims[pair][n]
    /\ members \subseteq members'
    /\ \A pair \in members' \ members : \E n \in DOMAIN claims[pair] :
         claims[pair][n].status = "pending" /\ claims'[pair][n].status = "approved"

DecisionsGrant == [][DecisionsGrantStep]_graduationVars

(* Whoever looks at startups, claims, members and links sees what Access   *)
(* allows: requests that act on what they read some transactions ago, race *)
(* each other for a name, or die half way grant, refuse, found and link as *)
(* if each did so at once, and leave no other trace.                       *)
Rights == INSTANCE Access

ImplementsAccess == Rights!Spec

(* Nobody lets himself into a stranger's company: a claim is approved by   *)
(* its own claimant only on a startup that his own graduation created, not *)
(* on one that an analysis or another founder's race brought about, and    *)
(* never when he filed it by hand.                                         *)
SelfApprovalOfOwnOnly ==
    \A pair \in Pairs : \A n \in DOMAIN claims[pair] : claims[pair][n].reviewer = pair[1] =>
        /\ startups[pair[2]] = FromGraduation(pair[1])
        /\ claims[pair][n].method = "venture_graduation"

(* A venture is linked to a startup its founder has access to, except that *)
(* a claim of his refused while the request was running may leave him      *)
(* without; an approved claim always comes with its membership.            *)
LinkHasAccess ==
    /\ \A row \in graduations :
         <<row.user, row.startup>> \in members \/ RefusedTo(<<row.user, row.startup>>) # {}
    /\ \A pair \in Pairs : \A n \in DOMAIN claims[pair] :
         claims[pair][n].status = "approved" => pair \in members

AccessIsEntitled == SelfApprovalOfOwnOnly /\ LinkHasAccess

(* A crash never locks a founder out of the startup that his graduation    *)
(* created: at every moment he is a member, or his latest graduation claim *)
(* on it is pending, so that a retry recognizes and approves it - or that  *)
(* very claim was rejected or cancelled.  Nothing else takes the startup   *)
(* from him; in particular, an approved claim never lacks its membership   *)
(* (the case that _resolve_existing_startup_for_graduation calls reachable *)
(* by external interference only).                                         *)
LatestIs(pair, statuses) ==
    \E n \in DOMAIN claims[pair] : GraduationClaim(pair, n) /\ claims[pair][n].status \in statuses

NeverLockedOut ==
    \A name \in Names : startups[name].kind = "graduation" =>
        LET founder == <<startups[name].user, name>> IN
        \/ founder \in members
        \/ LatestIs(founder, {"pending"})
        \/ LatestIs(founder, {"rejected", "cancelled"})

(* A founder who keeps asking is served, whatever dies and whoever asks    *)
(* at the same time: his venture becomes a startup, unless he deletes it   *)
(* or the name is a stranger's, another venture's, or refused to him.      *)
Declined(v) ==
    \/ /\ Exists(Wanted[v]) /\ startups[Wanted[v]] # FromGraduation(OwnerOf[v])
       /\ <<OwnerOf[v], Wanted[v]>> \notin members
    \/ \E row \in graduations : row.startup = Wanted[v] /\ row.venture # v
    \/ RefusedTo(<<OwnerOf[v], Wanted[v]>>) # {}

FounderIsServed ==
    \A v \in Ventures :
        <>(v \notin ventures \/ Graduated(v) \/ Declined(v))

(* The docstrings of create_venture_graduation ("graduated but no          *)
(* membership" is no longer a reachable state at all) and graduate_venture *)
(* (never a venture that reads as graduated without real access).          *)
GraduatedMeansMember == \A row \in graduations : <<row.user, row.startup>> \in members
=============================================================================
