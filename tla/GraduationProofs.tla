--------------------------- MODULE GraduationProofs ---------------------------
(***************************************************************************)
(* Theorems about Graduation, for every set of users, ventures, names and  *)
(* workers and every number of refusals: access to a startup comes from    *)
(* decisions alone, nobody admits himself to a stranger's company, and     *)
(* only a refusal of his claim locks a founder out of his startup.         *)
(***************************************************************************)
EXTENDS Graduation, SequenceTheorems, TLAPS

-----------------------------------------------------------------------------
(* The inductive invariant.                                                *)

Own(pair) == startups[pair[2]] = FromGraduation(pair[1])

Refused(pair) == RefusedTo(pair) # {}

\* A claim is tagged as a graduation's on startups of the claimant's only, and
\* only such a claim is approved by its claimant.
TagsAreTrue ==
    \A pair \in Pairs : \A n \in DOMAIN claims[pair] :
        /\ claims[pair][n].method = "venture_graduation" => Own(pair)
        /\ claims[pair][n].reviewer = pair[1] => claims[pair][n].method = "venture_graduation"

ApprovedAreMembers ==
    \A pair \in Pairs : \A n \in DOMAIN claims[pair] :
        claims[pair][n].status = "approved" => pair \in members

LinkedHaveAccess ==
    \A row \in graduations :
        <<row.user, row.startup>> \in members \/ Refused(<<row.user, row.startup>>)

\* Between two statements that insert a startup the name is its request's.
TagIsExclusive ==
    \A w \in Workers : At(w, "tag") =>
        /\ ~ Exists(request[w].startup)
        /\ \A x \in Workers \ {w} : At(x, "tag") => request[x].startup # request[w].startup

Claiming == {"claim_member", "claim_pending", "claim_insert"}

\* What a request has established when it reaches a step: the claim id that it
\* carries is that of a graduation claim of its own; a graduation that files a
\* claim does so on a startup of its own, and one that is about to link has
\* access or has been refused; a claim filed by hand does nothing else.
Justified(w) ==
    Open(w) =>
        /\ request[w].claim # 0 =>
             /\ request[w].claim \in DOMAIN ClaimsOf(w)
             /\ ClaimsOf(w)[request[w].claim].method = "venture_graduation"
        /\ request[w].step \in {"approve", "approve_found"} => request[w].claim # 0
        /\ request[w].kind = "claim" => request[w].step \in {"claim_pending", "claim_insert"}
        /\ request[w].kind = "graduate" =>
             /\ request[w].step = "ensure" /\ request[w].claim = 0 => IsMember(w)
             /\ request[w].step \in Claiming => Own(Pair(w))
             /\ request[w].step \in Claiming \cup {"find_claim", "approve_found", "link"} =>
                  IsMember(w) \/ Refused(Pair(w))

\* The founder of a startup has a latest graduation claim on it.
FounderHasClaim ==
    \A name \in Names : startups[name].kind = "graduation" =>
        \E n \in DOMAIN claims[<<startups[name].user, name>>] :
            GraduationClaim(<<startups[name].user, name>>, n)

RequestsAreJustified == \A w \in Workers : Justified(w)

IInv ==
    /\ GraduationTypeOK
    /\ TagsAreTrue
    /\ ApprovedAreMembers
    /\ LinkedHaveAccess
    /\ TagIsExclusive
    /\ RequestsAreJustified
    /\ FounderHasClaim

-----------------------------------------------------------------------------
(* Types.                                                                  *)

Steps ==
    {"find", "insert", "tag", "is_member", "own_claim", "ensure", "approve", "claim_member",
     "claim_pending", "claim_insert", "find_claim", "approve_found", "link"}

LEMMA OpenIsRequest ==
    ASSUME GraduationTypeOK, NEW w \in Workers, Open(w)
    PROVE  /\ request[w] \in Request
           /\ request[w].kind \in {"graduate", "claim"} /\ request[w].step \in Steps
           /\ request[w].user \in Users /\ request[w].startup \in Names
           /\ request[w].claim \in Nat /\ Pair(w) \in Pairs
  BY DEF GraduationTypeOK, Open, Request, Steps, Pair, Pairs

LEMMA ClaimTypes ==
    ASSUME GraduationTypeOK, NEW pair \in Pairs
    PROVE  /\ claims[pair] \in Seq(Claim)
           /\ Len(claims[pair]) \in Nat
           /\ DOMAIN claims[pair] = 1..Len(claims[pair])
           /\ \A n \in DOMAIN claims[pair] : claims[pair][n] \in Claim
  <1>1. claims[pair] \in Seq(Claim)
    BY DEF GraduationTypeOK
  <1> QED
    BY <1>1, LenProperties, ElementOfSeq

-----------------------------------------------------------------------------
(* How the tables change: claims are added and decided, members and        *)
(* startups added, and nothing else.                                       *)

Grows ==
    /\ claims' \in [Pairs -> Seq(Claim)]
    /\ \A pair \in Pairs :
         /\ Len(claims'[pair]) \in {Len(claims[pair]), Len(claims[pair]) + 1}
         /\ DOMAIN claims[pair] \subseteq DOMAIN claims'[pair]
         /\ \A n \in DOMAIN claims[pair] :
              /\ claims'[pair][n].method = claims[pair][n].method
              /\ claims[pair][n].status # "pending" => claims'[pair][n] = claims[pair][n]
    /\ members' \subseteq Pairs /\ members \subseteq members'
    /\ startups' \in [Names -> Origins]
    /\ \A name \in Names : Exists(name) => startups'[name] = startups[name]

LEMMA GrowsStutter ==
    ASSUME GraduationTypeOK, UNCHANGED <<claims, members, startups>>
    PROVE  Grows
  BY DEF GraduationTypeOK, Grows

\* A claim is appended.
LEMMA Appended ==
    ASSUME GraduationTypeOK, NEW w \in Workers, Open(w),
           NEW method \in {"manual_review", "venture_graduation"}, AddClaim(w, method)
    PROVE  /\ claims' \in [Pairs -> Seq(Claim)]
           /\ \A pair \in Pairs \ {Pair(w)} : claims'[pair] = claims[pair]
           /\ Len(claims'[Pair(w)]) = Len(claims[Pair(w)]) + 1
           /\ DOMAIN claims'[Pair(w)] = 1..(Len(claims[Pair(w)]) + 1)
           /\ \A n \in DOMAIN claims[Pair(w)] : claims'[Pair(w)][n] = claims[Pair(w)][n]
           /\ claims'[Pair(w)][Len(claims[Pair(w)]) + 1]
                = [status |-> "pending", method |-> method, reviewer |-> None]
  <1> DEFINE pair == Pair(w)
             row == [status |-> "pending", method |-> method, reviewer |-> None]
  <1>1. pair \in Pairs /\ claims \in [Pairs -> Seq(Claim)]
    BY OpenIsRequest DEF GraduationTypeOK
  <1>2. row \in Claim
    BY DEF Claim
  <1>3. claims[pair] \in Seq(Claim)
    BY <1>1
  <1>4. /\ Append(claims[pair], row) \in Seq(Claim)
        /\ Len(Append(claims[pair], row)) = Len(claims[pair]) + 1
        /\ \A n \in 1..Len(claims[pair]) : Append(claims[pair], row)[n] = claims[pair][n]
        /\ Append(claims[pair], row)[Len(claims[pair]) + 1] = row
    BY <1>2, <1>3, AppendProperties
  <1>5. claims' = [claims EXCEPT ![pair] = Append(claims[pair], row)]
    BY DEF AddClaim
  <1>6. claims'[pair] = Append(claims[pair], row) /\ claims' \in [Pairs -> Seq(Claim)]
        /\ \A other \in Pairs \ {pair} : claims'[other] = claims[other]
    BY <1>1, <1>4, <1>5
  <1>7. DOMAIN claims'[pair] = 1..(Len(claims[pair]) + 1)
    BY <1>4, <1>6, LenProperties
  <1> QED
    BY <1>1, <1>4, <1>6, <1>7, ClaimTypes

\* A claim is decided, or was already.
LEMMA Decided ==
    ASSUME GraduationTypeOK, NEW pair \in Pairs, NEW n \in DOMAIN claims[pair],
           NEW status \in {"approved", "rejected", "cancelled"},
           NEW reviewer \in Users \cup {Reviewer, None},
           Decide(pair, n, status, reviewer)
    PROVE  /\ claims' \in [Pairs -> Seq(Claim)]
           /\ \A other \in Pairs \ {pair} : claims'[other] = claims[other]
           /\ Len(claims'[pair]) = Len(claims[pair])
           /\ DOMAIN claims'[pair] = DOMAIN claims[pair]
           /\ \A m \in DOMAIN claims[pair] \ {n} : claims'[pair][m] = claims[pair][m]
           /\ claims[pair][n].status # "pending" => claims'[pair][n] = claims[pair][n]
           /\ claims[pair][n].status = "pending" =>
                /\ claims'[pair][n].status = status
                /\ claims'[pair][n].reviewer = reviewer
                /\ claims'[pair][n].method = claims[pair][n].method
  <1> DEFINE row == [claims[pair][n] EXCEPT !.status = status, !.reviewer = reviewer]
             rows == [claims[pair] EXCEPT ![n] = row]
  <1>1. /\ claims[pair] \in Seq(Claim) /\ n \in 1..Len(claims[pair]) /\ claims[pair][n] \in Claim
        /\ claims \in [Pairs -> Seq(Claim)]
    BY ClaimTypes DEF GraduationTypeOK
  <1>2. row \in Claim /\ row.status = status /\ row.reviewer = reviewer
        /\ row.method = claims[pair][n].method
    BY <1>1 DEF Claim
  <1>3. rows \in Seq(Claim) /\ Len(rows) = Len(claims[pair]) /\ DOMAIN rows = DOMAIN claims[pair]
    BY <1>1, <1>2, ExceptSeq, LenProperties
  <1>4. CASE claims[pair][n].status # "pending"
    BY <1>1, <1>4 DEF Decide
  <1>5. CASE claims[pair][n].status = "pending"
    <2>1. claims' = [claims EXCEPT ![pair] = rows]
      BY <1>5 DEF Decide
    <2>2. claims'[pair] = rows /\ claims' \in [Pairs -> Seq(Claim)]
          /\ \A other \in Pairs \ {pair} : claims'[other] = claims[other]
      BY <1>1, <1>3, <2>1
    <2>3. rows[n] = row /\ \A m \in DOMAIN claims[pair] \ {n} : rows[m] = claims[pair][m]
      BY <1>1
    <2> QED
      BY <1>2, <1>3, <1>5, <2>2, <2>3
  <1> QED
    BY <1>4, <1>5

LEMMA AppendGrows ==
    ASSUME GraduationTypeOK, NEW w \in Workers, Open(w),
           NEW method \in {"manual_review", "venture_graduation"}, AddClaim(w, method),
           members' = members, startups' \in [Names -> Origins],
           \A name \in Names : Exists(name) => startups'[name] = startups[name]
    PROVE  Grows
  <1>1. \A pair \in Pairs :
          /\ Len(claims'[pair]) \in {Len(claims[pair]), Len(claims[pair]) + 1}
          /\ DOMAIN claims[pair] \subseteq DOMAIN claims'[pair]
          /\ \A n \in DOMAIN claims[pair] : claims'[pair][n] = claims[pair][n]
    <2> SUFFICES ASSUME NEW pair \in Pairs
                 PROVE  /\ Len(claims'[pair]) \in {Len(claims[pair]), Len(claims[pair]) + 1}
                        /\ DOMAIN claims[pair] \subseteq DOMAIN claims'[pair]
                        /\ \A n \in DOMAIN claims[pair] : claims'[pair][n] = claims[pair][n]
      OBVIOUS
    <2>1. CASE pair = Pair(w)
      BY <2>1, Appended, ClaimTypes
    <2>2. CASE pair # Pair(w)
      <3>1. claims'[pair] = claims[pair]
        BY <2>2, Appended
      <3> QED
        BY <3>1, ClaimTypes
    <2> QED
      BY <2>1, <2>2
  <1> QED
    BY <1>1, Appended DEF Grows, GraduationTypeOK

LEMMA DecideGrows ==
    ASSUME GraduationTypeOK, NEW pair \in Pairs, NEW n \in DOMAIN claims[pair],
           NEW status \in {"approved", "rejected", "cancelled"},
           NEW reviewer \in Users \cup {Reviewer, None},
           Decide(pair, n, status, reviewer),
           members' \subseteq Pairs, members \subseteq members', startups' = startups
    PROVE  Grows
  <1>1. \A other \in Pairs :
          /\ Len(claims'[other]) \in {Len(claims[other]), Len(claims[other]) + 1}
          /\ DOMAIN claims[other] \subseteq DOMAIN claims'[other]
          /\ \A m \in DOMAIN claims[other] :
               /\ claims'[other][m].method = claims[other][m].method
               /\ claims[other][m].status # "pending" => claims'[other][m] = claims[other][m]
    <2> SUFFICES ASSUME NEW other \in Pairs
                 PROVE  /\ Len(claims'[other]) \in {Len(claims[other]), Len(claims[other]) + 1}
                        /\ DOMAIN claims[other] \subseteq DOMAIN claims'[other]
                        /\ \A m \in DOMAIN claims[other] :
                             /\ claims'[other][m].method = claims[other][m].method
                             /\ claims[other][m].status # "pending" =>
                                  claims'[other][m] = claims[other][m]
      OBVIOUS
    <2>1. CASE other = pair
      BY <2>1, Decided, ClaimTypes
    <2>2. CASE other # pair
      <3>1. claims'[other] = claims[other]
        BY <2>2, Decided
      <3> QED
        BY <3>1, ClaimTypes
    <2> QED
      BY <2>1, <2>2
  <1> QED
    BY <1>1, Decided DEF Grows, GraduationTypeOK

\* What growth of the tables cannot take away.
LEMMA Lasting ==
    ASSUME Grows, NEW pair \in Pairs
    PROVE  /\ Own(pair) => Own(pair)'
           /\ Refused(pair) => Refused(pair)'
           /\ pair \in members => pair \in members'
  <1>1. Own(pair) => Own(pair)'
    BY DEF Grows, Own, Exists, Absent, FromGraduation, Pairs
  <1>2. ASSUME NEW n \in RefusedTo(pair) PROVE n \in RefusedTo(pair)'
    BY DEF Grows, RefusedTo
  <1> QED
    BY <1>1, <1>2 DEF Grows, Refused

LEMMA JustifiedLasts ==
    ASSUME GraduationTypeOK, Grows, NEW w \in Workers, Justified(w), request'[w] = request[w]
    PROVE  Justified(w)'
  <1> SUFFICES ASSUME Open(w)
               PROVE  Justified(w)'
    BY DEF Justified, Open
  <1>1. Pair(w) \in Pairs /\ Pair(w)' = Pair(w)
    BY OpenIsRequest DEF Pair
  <1>2. /\ DOMAIN ClaimsOf(w) \subseteq DOMAIN ClaimsOf(w)'
        /\ \A n \in DOMAIN ClaimsOf(w) : ClaimsOf(w)'[n].method = ClaimsOf(w)[n].method
    BY <1>1 DEF Grows, ClaimsOf
  <1>3. /\ Own(Pair(w)) => Own(Pair(w))'
        /\ Refused(Pair(w)) => Refused(Pair(w))'
        /\ IsMember(w) => IsMember(w)'
    <2>1. /\ Own(Pair(w)) => (Own(Pair(w)))'
          /\ Refused(Pair(w)) => (Refused(Pair(w)))'
      BY <1>1, Lasting DEF Own, Refused, RefusedTo
    <2> QED
      BY <1>1, <2>1 DEF Grows, IsMember
  <1> QED
    BY <1>2, <1>3 DEF Justified, Open

-----------------------------------------------------------------------------
(* How a step preserves the invariant.                                     *)

LEMMA StepPreserves ==
    ASSUME IInv, Grows, TagsAreTrue', ApprovedAreMembers', LinkedHaveAccess', TagIsExclusive',
           FounderHasClaim', ventures' \subseteq Ventures, graduations' \subseteq Link,
           request' \in [Workers -> Request \cup {None, Dead}],
           \A w \in Workers : request'[w] = request[w] \/ Justified(w)'
    PROVE  IInv'
  <1>1. RequestsAreJustified'
    BY JustifiedLasts DEF IInv, RequestsAreJustified
  <1>2. GraduationTypeOK'
    BY <1>1 DEF GraduationTypeOK, RequestsAreJustified, Justified, Grows
  <1> QED
    BY <1>1, <1>2 DEF IInv

\* Links are kept or go with their ventures, and nothing of a link is lost.
LEMMA LinksKept ==
    ASSUME IInv, Grows, graduations' \subseteq graduations
    PROVE  LinkedHaveAccess'
  <1> SUFFICES ASSUME NEW row \in graduations
               PROVE  <<row.user, row.startup>> \in members' \/ Refused(<<row.user, row.startup>>)'
    BY DEF LinkedHaveAccess, Refused, RefusedTo
  <1>1. <<row.user, row.startup>> \in Pairs
    BY DEF IInv, GraduationTypeOK, Link, Pairs
  <1> QED
    BY <1>1, Lasting DEF IInv, LinkedHaveAccess

\* A latest graduation claim stays the latest, or the claim added is.
LEMMA LatestLasts ==
    ASSUME GraduationTypeOK, Grows, NEW pair \in Pairs,
           NEW n \in DOMAIN claims[pair], GraduationClaim(pair, n)
    PROVE  \E m \in DOMAIN claims'[pair] : GraduationClaim(pair, m)'
  <1> DEFINE k == Len(claims[pair])
  <1>1. k \in Nat /\ DOMAIN claims[pair] = 1..k
    BY ClaimTypes
  <1>2. claims'[pair] \in Seq(Claim)
    BY DEF Grows
  <1>3. DOMAIN claims'[pair] = 1..Len(claims'[pair]) /\ Len(claims'[pair]) \in {k, k + 1}
    BY <1>2, LenProperties DEF Grows
  <1>4. \A m \in 1..k : claims'[pair][m].method = claims[pair][m].method
    BY <1>1 DEF Grows
  <1>5. CASE Len(claims'[pair]) = k + 1 /\ claims'[pair][k + 1].method = "venture_graduation"
    BY <1>1, <1>3, <1>5 DEF GraduationClaim
  <1>6. CASE ~ (Len(claims'[pair]) = k + 1 /\ claims'[pair][k + 1].method = "venture_graduation")
    <2>1. \A m \in DOMAIN claims'[pair] : m > n => claims'[pair][m].method # "venture_graduation"
      BY <1>1, <1>3, <1>4, <1>6 DEF GraduationClaim
    <2>2. n \in DOMAIN claims'[pair] /\ claims'[pair][n].method = "venture_graduation"
      BY <1>1, <1>3, <1>4 DEF GraduationClaim
    <2> QED
      BY <2>1, <2>2 DEF GraduationClaim
  <1> QED
    BY <1>5, <1>6

\* A startup that a graduation created keeps the claim that says so.
LEMMA FoundersKept ==
    ASSUME IInv, Grows, \A name \in Names : startups'[name] = startups[name] \/ startups'[name] = FromAnalysis
    PROVE  FounderHasClaim'
  <1> SUFFICES ASSUME NEW name \in Names, startups'[name].kind = "graduation"
               PROVE  \E n \in DOMAIN claims'[<<startups'[name].user, name>>] :
                        GraduationClaim(<<startups[name].user, name>>, n)'
    BY DEF FounderHasClaim
  <1>1. startups'[name] = startups[name]
    BY DEF FromAnalysis
  <1>2. <<startups[name].user, name>> \in Pairs
    BY <1>1 DEF IInv, GraduationTypeOK, Origins, Absent, FromAnalysis, FromGraduation, Pairs
  <1>3. PICK pair \in Pairs : pair = <<startups[name].user, name>>
    BY <1>2
  <1>4. PICK n \in DOMAIN claims[pair] : GraduationClaim(pair, n)
    BY <1>1, <1>3 DEF IInv, FounderHasClaim
  <1>5. \E m \in DOMAIN claims'[pair] : GraduationClaim(pair, m)'
    BY <1>4, LatestLasts DEF IInv
  <1> QED
    BY <1>1, <1>3, <1>5 DEF GraduationClaim

\* A step of one request that leaves the tables alone.
LEMMA QuietPreserves ==
    ASSUME IInv, UNCHANGED tables, NEW w \in Workers,
           request' \in [Workers -> Request \cup {None, Dead}],
           \A x \in Workers \ {w} : request'[x] = request[x],
           Justified(w)',
           At(w, "tag")' => ~ Exists(request'[w].startup)
             /\ \A x \in Workers \ {w} : At(x, "tag") => request[x].startup # request'[w].startup
    PROVE  IInv'
  <1>1. Grows
    BY GrowsStutter DEF tables, IInv
  <1>2. TagsAreTrue' /\ ApprovedAreMembers'
    BY DEF tables, IInv, TagsAreTrue, ApprovedAreMembers, Own
  <1>3. LinkedHaveAccess' /\ FounderHasClaim'
    BY <1>1, LinksKept, FoundersKept DEF tables
  <1>4. TagIsExclusive'
    BY DEF tables, IInv, TagIsExclusive, At, Open, Exists
  <1>5. ventures' \subseteq Ventures /\ graduations' \subseteq Link
    BY DEF tables, IInv, GraduationTypeOK
  <1> QED
    BY <1>1, <1>2, <1>3, <1>4, <1>5, StepPreserves

LEMMA FinishPreserves ==
    ASSUME IInv, NEW w \in Workers, NEW gone \in {None, Dead},
           request' = [request EXCEPT ![w] = gone], UNCHANGED tables
    PROVE  IInv'
  <1>1. /\ request' \in [Workers -> Request \cup {None, Dead}] /\ request'[w] = gone
        /\ \A x \in Workers \ {w} : request'[x] = request[x]
    BY DEF IInv, GraduationTypeOK
  <1>2. ~ Open(w)'
    BY <1>1 DEF Open
  <1> QED
    BY <1>1, <1>2, QuietPreserves DEF Justified, At

LEMMA CarryPreserves ==
    ASSUME IInv, NEW w \in Workers, Open(w), NEW claim \in Nat, NEW step \in Steps \ {"tag"},
           Carry(w, claim, step),
           claim # 0 => claim \in DOMAIN ClaimsOf(w) /\ ClaimsOf(w)[claim].method = "venture_graduation",
           step \in {"approve", "approve_found"} => claim # 0,
           request[w].kind = "claim" => step \in {"claim_pending", "claim_insert"},
           request[w].kind = "graduate" =>
             /\ step = "ensure" /\ claim = 0 => IsMember(w)
             /\ step \in Claiming => Own(Pair(w))
             /\ step \in Claiming \cup {"find_claim", "approve_found", "link"} =>
                  IsMember(w) \/ Refused(Pair(w))
    PROVE  IInv'
  <1> DEFINE r == [[request[w] EXCEPT !.step = step] EXCEPT !.claim = claim]
  <1>1. request[w] \in Request /\ request \in [Workers -> Request \cup {None, Dead}]
    BY OpenIsRequest DEF IInv, GraduationTypeOK
  <1>2. /\ r \in Request /\ r.user = request[w].user /\ r.startup = request[w].startup
        /\ r.kind = request[w].kind /\ r.claim = claim /\ r.step = step
    BY <1>1 DEF Request, Steps
  <1>3. request' = [request EXCEPT ![w] = r] /\ UNCHANGED tables
    BY DEF Carry
  <1>4. /\ request' \in [Workers -> Request \cup {None, Dead}] /\ request'[w] = r
        /\ \A x \in Workers \ {w} : request'[x] = request[x]
    BY <1>1, <1>2, <1>3
  <1>5. Pair(w)' = Pair(w) /\ UNCHANGED <<claims, members, startups>>
    BY <1>2, <1>3, <1>4 DEF Pair, tables
  <1>6. /\ ClaimsOf(w)' = ClaimsOf(w) /\ (IsMember(w)' <=> IsMember(w))
        /\ (Own(Pair(w)))' = Own(Pair(w)) /\ (Refused(Pair(w)))' = Refused(Pair(w))
    BY <1>5 DEF ClaimsOf, IsMember, Own, Refused, RefusedTo
  <1>7. Justified(w)'
    BY <1>2, <1>4, <1>6 DEF Justified
  <1> QED
    BY <1>2, <1>3, <1>4, <1>7, QuietPreserves DEF At

-----------------------------------------------------------------------------
(* The steps of a request that read.                                       *)

LEMMA BeginPreserves ==
    ASSUME IInv, NEW w \in Workers, NEW kind \in {"graduate", "claim"}, NEW user \in Users,
           NEW v \in Ventures \cup {None}, NEW name \in Names,
           NEW step \in {"find", "ensure", "claim_pending"}, Begin(w, kind, user, v, name, step),
           step = "claim_pending" <=> kind = "claim",
           step = "ensure" => <<user, name>> \in members
    PROVE  IInv'
  <1> DEFINE r == [kind |-> kind, user |-> user, venture |-> v, startup |-> name, claim |-> 0,
                   step |-> step]
  <1>1. r \in Request
    BY DEF Request
  <1>2. /\ request' \in [Workers -> Request \cup {None, Dead}] /\ request'[w] = r
        /\ \A x \in Workers \ {w} : request'[x] = request[x]
    BY <1>1 DEF Begin, IInv, GraduationTypeOK
  <1>3. UNCHANGED tables
    BY DEF Begin
  <1>4. step = "ensure" => IsMember(w)'
    BY <1>2, <1>3 DEF IsMember, Pair, tables
  <1>5. Justified(w)'
    BY <1>2, <1>4 DEF Justified, Claiming
  <1> QED
    BY <1>2, <1>3, <1>5, QuietPreserves DEF At

LEMMA ArrivePreserves ==
    ASSUME IInv, NEW w \in Workers, Arrive(w)
    PROVE  IInv'
  <1>1. CASE \E v \in Ventures, name \in Names : BeginGraduation(w, v, name) \/ BeginConnection(w, v, name)
    <2> PICK v \in Ventures, name \in Names : BeginGraduation(w, v, name) \/ BeginConnection(w, v, name)
      BY <1>1
    <2>1. OwnerOf[v] \in Users
      BY OwnerAssumption
    <2> QED
      BY <2>1, BeginPreserves DEF BeginGraduation, BeginConnection
  <1>2. CASE \E user \in Users, name \in Names : BeginClaim(w, user, name)
    BY <1>2, BeginPreserves DEF BeginClaim
  <1> QED
    BY <1>1, <1>2 DEF Arrive

LEMMA ResolvePreserves ==
    ASSUME IInv, NEW w \in Workers,
           FindStartup(w) \/ InsertStartup(w) \/ ReadMember(w) \/ ReadOwnClaim(w)
    PROVE  IInv'
  <1>1. /\ Open(w) /\ Justified(w) /\ request[w].kind = "graduate" /\ Pair(w) \in Pairs
        /\ request[w] \in Request /\ request[w].startup \in Names
    BY OpenIsRequest DEF IInv, RequestsAreJustified, Justified, FindStartup, InsertStartup, ReadMember, ReadOwnClaim, At
  <1>2. CASE FindStartup(w)
    BY <1>1, <1>2, CarryPreserves DEF FindStartup, Goto, Steps, Claiming
  <1>3. CASE InsertStartup(w) /\ Exists(request[w].startup)
    BY <1>1, <1>3, CarryPreserves DEF InsertStartup, Goto, Steps, Claiming
  <1>4. CASE InsertStartup(w) /\ ~ Exists(request[w].startup)
    <2> DEFINE r == [[request[w] EXCEPT !.step = "tag"] EXCEPT !.claim = 0]
    <2>1. r \in Request /\ r.step = "tag" /\ r.claim = 0 /\ r.kind = "graduate" /\ r.startup = request[w].startup
      BY <1>1 DEF Request
    <2>2. request' = [request EXCEPT ![w] = r] /\ UNCHANGED tables
      BY <1>4 DEF InsertStartup, Goto, Carry
    <2>3. /\ request' \in [Workers -> Request \cup {None, Dead}] /\ request'[w] = r
          /\ \A x \in Workers \ {w} : request'[x] = request[x]
      BY <2>1, <2>2 DEF IInv, GraduationTypeOK
    <2>4. Justified(w)'
      BY <2>1, <2>3 DEF Justified, Claiming
    <2>5. \A x \in Workers \ {w} : At(x, "tag") => request[x].startup # request'[w].startup
      BY <1>4, <2>1, <2>3 DEF InsertStartup, NameLocked
    <2> QED
      BY <1>4, <2>1, <2>2, <2>3, <2>4, <2>5, QuietPreserves
  <1>5. CASE ReadMember(w)
    BY <1>1, <1>5, CarryPreserves DEF ReadMember, Goto, Steps, Claiming
  <1>6. CASE ReadOwnClaim(w)
    <2>1. CASE \E n \in DOMAIN ClaimsOf(w) : Found(w, n, {"pending"}) /\ Carry(w, n, "ensure")
      <3> PICK n \in DOMAIN ClaimsOf(w) : Found(w, n, {"pending"}) /\ Carry(w, n, "ensure")
        BY <2>1
      <3>1. n \in Nat \ {0} /\ ClaimsOf(w)[n].method = "venture_graduation"
        BY <1>1, ClaimTypes DEF IInv, ClaimsOf, Found, GraduationClaim
      <3> QED
        BY <1>1, <3>1, CarryPreserves DEF Steps, Claiming
    <2>2. CASE \E n \in DOMAIN ClaimsOf(w) : Found(w, n, {"approved"}) /\ Goto(w, "ensure")
      <3>1. IsMember(w) /\ Goto(w, "ensure")
        BY <1>1, <2>2 DEF IInv, ApprovedAreMembers, ClaimsOf, Found, IsMember
      <3> QED
        BY <1>1, <3>1, CarryPreserves DEF Goto, Steps, Claiming
    <2>3. CASE Finish(w)
      BY <2>3, FinishPreserves DEF Finish
    <2> QED
      BY <1>6, <2>1, <2>2, <2>3 DEF ReadOwnClaim
  <1> QED
    BY <1>2, <1>3, <1>4, <1>5, <1>6

LEMMA ClaimStepsPreserve ==
    ASSUME IInv, NEW w \in Workers,
           \/ EnsureMember(w) \/ ClaimReadsMember(w) \/ ClaimReadsPending(w)
           \/ ClaimDuplicate(w) \/ FindClaim(w)
    PROVE  IInv'
  <1>1. /\ Open(w) /\ Justified(w) /\ Pair(w) \in Pairs /\ request[w] \in Request
        /\ request[w].claim \in Nat /\ request[w].kind \in {"graduate", "claim"}
    BY OpenIsRequest DEF IInv, RequestsAreJustified, EnsureMember, ClaimReadsMember, ClaimReadsPending,
       ClaimDuplicate, FindClaim, At
  <1>2. CASE EnsureMember(w)
    <2>1. request[w].step = "ensure" /\ request[w].kind = "graduate"
      BY <1>1, <1>2 DEF EnsureMember, At, Justified
    <2>2. CASE IsMember(w)
      BY <1>1, <1>2, <2>1, <2>2, CarryPreserves DEF EnsureMember, Goto, Steps, Claiming
    <2>3. CASE ~ IsMember(w)
      <3>1. request[w].claim # 0 /\ Carry(w, request[w].claim, "approve")
        BY <1>1, <1>2, <2>1, <2>3 DEF EnsureMember, Justified
      <3> QED
        BY <1>1, <2>1, <3>1, CarryPreserves DEF Justified, Steps, Claiming
    <2> QED
      BY <2>2, <2>3
  <1>3. CASE ClaimReadsMember(w)
    BY <1>1, <1>3, CarryPreserves DEF ClaimReadsMember, At, Goto, Steps, Claiming, Justified
  <1>4. ASSUME Duplicate(w), request[w].step \in {"claim_pending", "claim_insert"}
        PROVE  IInv'
    <2>1. CASE request[w].kind = "claim"
      BY <1>4, <2>1, FinishPreserves DEF Duplicate, Finish
    <2>2. CASE request[w].kind = "graduate"
      BY <1>1, <1>4, <2>2, CarryPreserves DEF Duplicate, Goto, Steps, Claiming, Justified
    <2> QED
      BY <1>1, <2>1, <2>2
  <1>5. CASE ClaimReadsPending(w)
    <2>1. CASE HasPending(w)
      BY <1>4, <1>5, <2>1 DEF ClaimReadsPending, At
    <2>2. CASE ~ HasPending(w)
      BY <1>1, <1>5, <2>2, CarryPreserves DEF ClaimReadsPending, At, Goto, Steps, Claiming, Justified
    <2> QED
      BY <2>1, <2>2
  <1>6. CASE ClaimDuplicate(w)
    BY <1>4, <1>6 DEF ClaimDuplicate, At
  <1>7. CASE FindClaim(w)
    <2>1. request[w].step = "find_claim" /\ request[w].kind = "graduate" /\ (IsMember(w) \/ Refused(Pair(w)))
      BY <1>1, <1>7 DEF FindClaim, At, Justified
    <2>2. CASE \E n \in DOMAIN ClaimsOf(w) : Found(w, n, {"pending"}) /\ Carry(w, n, "approve_found")
      <3> PICK n \in DOMAIN ClaimsOf(w) : Found(w, n, {"pending"}) /\ Carry(w, n, "approve_found")
        BY <2>2
      <3>1. n \in Nat \ {0} /\ ClaimsOf(w)[n].method = "venture_graduation"
        BY <1>1, ClaimTypes DEF IInv, ClaimsOf, Found, GraduationClaim
      <3> QED
        BY <1>1, <2>1, <3>1, CarryPreserves DEF Steps, Claiming
    <2>3. CASE Goto(w, "link")
      BY <1>1, <2>1, <2>3, CarryPreserves DEF Goto, Steps, Claiming
    <2> QED
      BY <1>7, <2>2, <2>3 DEF FindClaim
  <1> QED
    BY <1>2, <1>3, <1>5, <1>6, <1>7

-----------------------------------------------------------------------------
(* The steps that decide a claim.                                          *)

LEMMA DecisionPreserves ==
    ASSUME IInv, NEW pair \in Pairs, NEW n \in DOMAIN claims[pair],
           NEW status \in {"approved", "rejected", "cancelled"},
           NEW reviewer \in Users \cup {Reviewer, None},
           Decide(pair, n, status, reviewer),
           reviewer = pair[1] => claims[pair][n].method = "venture_graduation",
           members' \in {members, members \cup {pair}},
           status = "approved" /\ claims[pair][n].status = "pending" => pair \in members',
           UNCHANGED <<ventures, startups, graduations>>
    PROVE  /\ Grows
           /\ TagsAreTrue' /\ ApprovedAreMembers' /\ LinkedHaveAccess' /\ FounderHasClaim'
           /\ pair \in members' \/ Refused(pair)' \/ claims'[pair][n].status = "pending"
           /\ claims[pair][n].status = "pending" => claims'[pair][n].status = status
  <1>1. GraduationTypeOK
    BY DEF IInv
  <1>2. Grows
    BY <1>1, DecideGrows DEF GraduationTypeOK
  <1>3. /\ \A other \in Pairs \ {pair} : claims'[other] = claims[other]
        /\ DOMAIN claims'[pair] = DOMAIN claims[pair]
        /\ \A m \in DOMAIN claims[pair] \ {n} : claims'[pair][m] = claims[pair][m]
        /\ claims[pair][n].status # "pending" => claims'[pair][n] = claims[pair][n]
        /\ claims[pair][n].status = "pending" =>
             /\ claims'[pair][n].status = status
             /\ claims'[pair][n].reviewer = reviewer
             /\ claims'[pair][n].method = claims[pair][n].method
    BY <1>1, Decided
  <1>4. TagsAreTrue'
    <2> SUFFICES ASSUME NEW other \in Pairs, NEW m \in DOMAIN claims'[other]
                 PROVE  /\ claims'[other][m].method = "venture_graduation" => Own(other)
                        /\ claims'[other][m].reviewer = other[1] =>
                             claims'[other][m].method = "venture_graduation"
      BY DEF TagsAreTrue, Own
    <2>1. m \in DOMAIN claims[other]
      BY <1>3
    <2>2. CASE other = pair /\ m = n
      BY <1>3, <2>1, <2>2 DEF IInv, TagsAreTrue
    <2>3. CASE ~ (other = pair /\ m = n)
      <3>1. claims'[other][m] = claims[other][m]
        BY <1>3, <2>1, <2>3
      <3> QED
        BY <2>1, <3>1 DEF IInv, TagsAreTrue
    <2> QED
      BY <2>2, <2>3
  <1>5. ApprovedAreMembers'
    <2> SUFFICES ASSUME NEW other \in Pairs, NEW m \in DOMAIN claims'[other],
                        claims'[other][m].status = "approved"
                 PROVE  other \in members'
      BY DEF ApprovedAreMembers
    <2>1. m \in DOMAIN claims[other]
      BY <1>3
    <2>2. CASE claims[other][m].status = "approved"
      BY <2>1, <2>2 DEF IInv, ApprovedAreMembers
    <2>3. CASE claims[other][m].status # "approved"
      BY <1>3, <2>1, <2>3
    <2> QED
      BY <2>2, <2>3
  <1>6. LinkedHaveAccess' /\ FounderHasClaim'
    BY <1>2, LinksKept, FoundersKept
  <1>7. pair \in members' \/ Refused(pair)' \/ claims'[pair][n].status = "pending"
    <2>1. claims[pair][n].status \in {"pending", "approved", "rejected", "cancelled"}
      BY <1>1, ClaimTypes DEF Claim
    <2>2. CASE claims[pair][n].status = "pending" /\ status = "approved"
      BY <2>2
    <2>3. CASE claims[pair][n].status = "approved"
      BY <2>3 DEF IInv, ApprovedAreMembers
    <2>4. CASE claims'[pair][n].status \in {"rejected", "cancelled"}
      BY <1>3, <2>4 DEF Refused, RefusedTo
    <2> QED
      BY <1>3, <2>1, <2>2, <2>3, <2>4
  <1> QED
    BY <1>2, <1>3, <1>4, <1>5, <1>6, <1>7

LEMMA ApproveOwnPreserves ==
    ASSUME IInv, NEW w \in Workers,
           \/ At(w, "approve") /\ ApproveOwn(w, "claim_member")
           \/ At(w, "approve_found") /\ ApproveOwn(w, "link")
    PROVE  IInv'
  <1>1. /\ Open(w) /\ Justified(w) /\ Pair(w) \in Pairs /\ request[w] \in Request
        /\ request[w].kind = "graduate" /\ request[w].user \in Users /\ Pair(w)[1] = request[w].user
    BY OpenIsRequest DEF IInv, RequestsAreJustified, Justified, At, Pair
  <1> PICK pair, n : pair \in Pairs /\ pair = Pair(w) /\ n = request[w].claim
    BY <1>1
  <1>2. n \in DOMAIN claims[pair] /\ claims[pair][n].method = "venture_graduation"
    BY <1>1 DEF Justified, At, ClaimsOf
  <1>3. Own(pair)
    BY <1>1, <1>2 DEF IInv, TagsAreTrue
  <1>4. /\ Decide(pair, n, "approved", request[w].user)
        /\ members' \in {members, members \cup {pair}}
        /\ claims[pair][n].status = "pending" => pair \in members'
        /\ UNCHANGED <<ventures, startups, graduations>>
    BY DEF ApproveOwn, Approve
  <1>5. /\ Grows /\ TagsAreTrue' /\ ApprovedAreMembers' /\ LinkedHaveAccess' /\ FounderHasClaim'
        /\ pair \in members' \/ Refused(pair)' \/ claims'[pair][n].status = "pending"
        /\ claims[pair][n].status = "pending" => claims'[pair][n].status = "approved"
    BY <1>1, <1>2, <1>4, DecisionPreserves
  <1>6. PICK step \in {"claim_member", "link"} :
          request' = [request EXCEPT ![w] = [[request[w] EXCEPT !.step = step] EXCEPT !.claim = 0]]
    BY DEF ApproveOwn
  <1> DEFINE r == [[request[w] EXCEPT !.step = step] EXCEPT !.claim = 0]
  <1>7. /\ r \in Request /\ r.step = step /\ r.claim = 0 /\ r.kind = "graduate"
        /\ r.user = request[w].user /\ r.startup = request[w].startup
    BY <1>1 DEF Request
  <1>8. /\ request' \in [Workers -> Request \cup {None, Dead}] /\ request'[w] = r
        /\ \A x \in Workers \ {w} : request'[x] = request[x]
    BY <1>6, <1>7 DEF IInv, GraduationTypeOK
  <1>9. claims'[pair][n].status # "pending"
    BY <1>1, <1>2, <1>5 DEF Grows
  <1>10. Justified(w)'
    <2>1. Pair(w)' = pair
      BY <1>7, <1>8 DEF Pair
    <2>2. Own(Pair(w))' /\ (IsMember(w)' \/ Refused(Pair(w))')
      BY <1>3, <1>4, <1>5, <1>9, <2>1 DEF Own, IsMember, Refused, RefusedTo
    <2> QED
      BY <1>7, <1>8, <2>2 DEF Justified
  <1>11. TagIsExclusive'
    <2>1. ~ At(w, "tag")'
      BY <1>7, <1>8 DEF At
    <2>2. \A x \in Workers : At(x, "tag")' => At(x, "tag") /\ request'[x].startup = request[x].startup
      BY <1>8, <2>1 DEF At, Open
    <2> QED
      BY <1>4, <2>2 DEF IInv, TagIsExclusive, Exists
  <1>12. ventures' \subseteq Ventures /\ graduations' \subseteq Link
    BY <1>4 DEF IInv, GraduationTypeOK
  <1> QED
    BY <1>5, <1>8, <1>10, <1>11, <1>12, StepPreserves

LEMMA OthersDecidePreserves ==
    ASSUME IInv, NEW pair \in Pairs, NEW n \in DOMAIN claims[pair],
           ReviewerApproves(pair, n) \/ RefuseClaim(pair, n)
    PROVE  IInv'
  <1>1. UNCHANGED <<ventures, startups, graduations, request>>
    BY DEF ReviewerApproves, RefuseClaim
  <1>2. pair[1] \in Users
    BY DEF Pairs
  <1>3. PICK status \in {"approved", "rejected", "cancelled"}, reviewer \in {Reviewer, None} :
          /\ Decide(pair, n, status, reviewer)
          /\ members' \in {members, members \cup {pair}}
          /\ status = "approved" /\ claims[pair][n].status = "pending" => pair \in members'
    BY DEF ReviewerApproves, RefuseClaim, Approve
  <1>4. Grows /\ TagsAreTrue' /\ ApprovedAreMembers' /\ LinkedHaveAccess' /\ FounderHasClaim'
    BY <1>1, <1>2, <1>3, DecisionPreserves, NobodyAssumption
  <1>5. TagIsExclusive'
    BY <1>1 DEF IInv, TagIsExclusive, At, Open, Exists
  <1>6. /\ ventures' \subseteq Ventures /\ graduations' \subseteq Link
        /\ request' \in [Workers -> Request \cup {None, Dead}]
        /\ \A w \in Workers : request'[w] = request[w]
    BY <1>1 DEF IInv, GraduationTypeOK
  <1> QED
    BY <1>4, <1>5, <1>6, StepPreserves

-----------------------------------------------------------------------------
(* The steps that add a claim.                                             *)

\* A claim added keeps the claims' part of the invariant; only one tagged as a
\* graduation's needs its startup.
LEMMA AddPreserves ==
    ASSUME IInv, NEW w \in Workers, Open(w),
           NEW method \in {"manual_review", "venture_graduation"}, AddClaim(w, method),
           UNCHANGED members, Grows,
           method = "venture_graduation" => Own(Pair(w)) \/ startups'[Pair(w)[2]] = FromGraduation(Pair(w)[1])
    PROVE  TagsAreTrue' /\ ApprovedAreMembers'
  <1> PICK pair, last : pair \in Pairs /\ pair = Pair(w) /\ last = Len(claims[pair]) + 1
    BY OpenIsRequest DEF IInv
  <1>1. /\ \A other \in Pairs \ {pair} : claims'[other] = claims[other]
        /\ DOMAIN claims'[pair] = 1..last /\ DOMAIN claims[pair] = 1..(last - 1)
        /\ \A n \in DOMAIN claims[pair] : claims'[pair][n] = claims[pair][n]
        /\ claims'[pair][last] = [status |-> "pending", method |-> method, reviewer |-> None]
        /\ last \in Nat
    BY Appended, ClaimTypes DEF IInv
  <1>2. method = "venture_graduation" => Own(pair)'
    BY Lasting DEF Own
  <1>3. TagsAreTrue'
    <2> SUFFICES ASSUME NEW other \in Pairs, NEW n \in DOMAIN claims'[other]
                 PROVE  /\ claims'[other][n].method = "venture_graduation" => Own(other)'
                        /\ claims'[other][n].reviewer = other[1] =>
                             claims'[other][n].method = "venture_graduation"
      BY DEF TagsAreTrue, Own
    <2>1. CASE n \in DOMAIN claims[other]
      <3>1. claims'[other][n] = claims[other][n]
        BY <1>1, <2>1
      <3> QED
        BY <2>1, <3>1, Lasting DEF IInv, TagsAreTrue
    <2>2. CASE n \notin DOMAIN claims[other]
      <3>1. other = pair /\ n = last
        BY <1>1, <2>2
      <3>2. other[1] # None
        BY NobodyAssumption DEF Pairs
      <3> QED
        BY <1>1, <1>2, <3>1, <3>2
    <2> QED
      BY <2>1, <2>2
  <1>4. ApprovedAreMembers'
    <2> SUFFICES ASSUME NEW other \in Pairs, NEW n \in DOMAIN claims'[other],
                        claims'[other][n].status = "approved"
                 PROVE  other \in members
      BY DEF ApprovedAreMembers
    <2>1. n \in DOMAIN claims[other] /\ claims'[other][n] = claims[other][n]
      BY <1>1
    <2> QED
      BY <2>1 DEF IInv, ApprovedAreMembers
  <1> QED
    BY <1>3, <1>4

LEMMA TagStartupPreserves ==
    ASSUME IInv, NEW w \in Workers, TagStartup(w)
    PROVE  IInv'
  <1>1. /\ Open(w) /\ Justified(w) /\ request[w] \in Request /\ request[w].kind = "graduate"
        /\ request[w].user \in Users /\ request[w].startup \in Names /\ GraduationTypeOK
        /\ ~ Exists(request[w].startup)
    BY OpenIsRequest DEF IInv, RequestsAreJustified, Justified, TagStartup, At, TagIsExclusive
  <1> PICK user, name, last :
         /\ user \in Users /\ name \in Names
         /\ user = request[w].user /\ name = request[w].startup
         /\ last = Len(claims[<<user, name>>]) + 1
    BY <1>1
  <1> DEFINE pair == <<user, name>>
             r == [[request[w] EXCEPT !.step = "ensure"] EXCEPT !.claim = last]
  <1>2. pair = Pair(w) /\ pair \in Pairs /\ ~ Exists(name)
    BY <1>1 DEF Pair, Pairs
  <1>3. /\ startups' = [startups EXCEPT ![name] = FromGraduation(user)]
        /\ AddClaim(w, "venture_graduation") /\ UNCHANGED <<ventures, members, graduations>>
        /\ request' = [request EXCEPT ![w] = r]
    BY <1>2 DEF TagStartup, ClaimsOf
  <1>4. /\ startups' \in [Names -> Origins] /\ startups'[name] = FromGraduation(user)
        /\ \A other \in Names \ {name} : startups'[other] = startups[other]
    BY <1>1, <1>3 DEF GraduationTypeOK, Origins
  <1>5. Grows
    BY <1>1, <1>2, <1>3, <1>4, AppendGrows
  <1>6. last \in Nat \ {0} /\ last \in DOMAIN claims'[pair] /\ claims'[pair][last].method = "venture_graduation"
    <2>1. Len(claims[pair]) \in Nat
      BY <1>1, <1>2, ClaimTypes
    <2>2. /\ DOMAIN claims'[pair] = 1..(Len(claims[pair]) + 1)
          /\ claims'[pair][Len(claims[pair]) + 1]
               = [status |-> "pending", method |-> "venture_graduation", reviewer |-> None]
      BY <1>1, <1>2, <1>3, Appended
    <2> QED
      BY <2>1, <2>2
  <1>7. TagsAreTrue' /\ ApprovedAreMembers'
    BY <1>1, <1>2, <1>3, <1>4, <1>5, AddPreserves
  <1>8. LinkedHaveAccess'
    BY <1>3, <1>5, LinksKept
  <1>9. FounderHasClaim'
    <2> SUFFICES ASSUME NEW other \in Names, startups'[other].kind = "graduation"
                 PROVE  \E n \in DOMAIN claims'[<<startups'[other].user, other>>] :
                          /\ claims'[<<startups'[other].user, other>>][n].method = "venture_graduation"
                          /\ \A m \in DOMAIN claims'[<<startups'[other].user, other>>] :
                               m > n => claims'[<<startups'[other].user, other>>][m].method # "venture_graduation"
      BY DEF FounderHasClaim, GraduationClaim
    <2>1. CASE other = name
      <3>1. <<startups'[other].user, other>> = pair
        BY <1>4, <2>1 DEF FromGraduation
      <3>2. Len(claims[pair]) \in Nat /\ DOMAIN claims'[pair] = 1..(Len(claims[pair]) + 1)
        BY <1>1, <1>2, <1>3, ClaimTypes, Appended
      <3>3. \A m \in DOMAIN claims'[pair] : ~ (m > last)
        BY <3>2
      <3> QED
        BY <1>6, <3>1, <3>3
    <2>2. CASE other # name
      <3>1. startups'[other] = startups[other] /\ <<startups[other].user, other>> \in Pairs
        BY <1>1, <1>4, <2>2 DEF GraduationTypeOK, Origins, Absent, FromAnalysis, FromGraduation, Pairs
      <3>2. PICK its \in Pairs : its = <<startups[other].user, other>>
        BY <3>1
      <3>3. PICK n \in DOMAIN claims[its] : GraduationClaim(its, n)
        BY <3>1, <3>2 DEF IInv, FounderHasClaim
      <3>4. \E m \in DOMAIN claims'[its] : GraduationClaim(its, m)'
        BY <1>5, <3>3, LatestLasts DEF IInv
      <3> QED
        BY <3>1, <3>2, <3>4 DEF GraduationClaim
    <2> QED
      BY <2>1, <2>2
  <1>10. /\ r \in Request /\ r.step = "ensure" /\ r.claim = last /\ r.kind = "graduate"
         /\ r.user = user /\ r.startup = name
    BY <1>1, <1>6 DEF Request
  <1>11. /\ request' \in [Workers -> Request \cup {None, Dead}] /\ request'[w] = r
         /\ \A x \in Workers \ {w} : request'[x] = request[x]
    BY <1>1, <1>3, <1>10 DEF GraduationTypeOK
  <1>12. Justified(w)'
    <2>1. Pair(w)' = pair
      BY <1>10, <1>11 DEF Pair
    <2> QED
      BY <1>6, <1>10, <1>11, <2>1 DEF Justified, Claiming, ClaimsOf
  <1>13. TagIsExclusive'
    <2>1. ~ At(w, "tag")'
      BY <1>10, <1>11 DEF At
    <2>2. \A x \in Workers : At(x, "tag")' => At(x, "tag") /\ x # w /\ request'[x].startup = request[x].startup
      BY <1>11, <2>1 DEF At, Open
    <2>3. \A x \in Workers \ {w} : At(x, "tag") => request[x].startup # name /\ request[x].startup \in Names
      BY <1>1, OpenIsRequest DEF IInv, TagIsExclusive, TagStartup, At
    <2> QED
      BY <1>4, <2>2, <2>3 DEF IInv, TagIsExclusive, Exists
  <1>14. ventures' \subseteq Ventures /\ graduations' \subseteq Link
    BY <1>1, <1>3 DEF GraduationTypeOK
  <1> QED
    BY <1>5, <1>7, <1>8, <1>9, <1>11, <1>12, <1>13, <1>14, StepPreserves

LEMMA InsertClaimPreserves ==
    ASSUME IInv, NEW w \in Workers, InsertClaim(w)
    PROVE  IInv'
  <1>1. /\ Open(w) /\ Justified(w) /\ request[w] \in Request /\ GraduationTypeOK
        /\ request[w].kind \in {"claim", "graduate"} /\ request[w].step = "claim_insert"
        /\ Pair(w) \in Pairs
    BY OpenIsRequest DEF IInv, RequestsAreJustified, InsertClaim, At
  <1> PICK method \in {"manual_review", "venture_graduation"} :
         method = IF request[w].kind = "claim" THEN "manual_review" ELSE "venture_graduation"
    OBVIOUS
  <1> PICK pair, last : pair \in Pairs /\ pair = Pair(w) /\ last = Len(claims[pair]) + 1
    BY <1>1
  <1>2. /\ AddClaim(w, method) /\ UNCHANGED <<ventures, startups, members, graduations>>
        /\ request[w].kind = "graduate" => Own(pair) /\ (IsMember(w) \/ Refused(pair))
    BY <1>1 DEF InsertClaim, Justified, Claiming
  <1>3. Grows
    BY <1>1, <1>2, AppendGrows DEF GraduationTypeOK
  <1>4. TagsAreTrue' /\ ApprovedAreMembers'
    BY <1>1, <1>2, <1>3, AddPreserves
  <1>5. LinkedHaveAccess' /\ FounderHasClaim'
    BY <1>2, <1>3, LinksKept, FoundersKept
  <1>6. /\ last \in Nat \ {0} /\ last \in DOMAIN claims'[pair]
        /\ claims'[pair][last].method = method
    <2>1. Len(claims[pair]) \in Nat
      BY <1>1, ClaimTypes
    <2>2. /\ DOMAIN claims'[pair] = 1..(Len(claims[pair]) + 1)
          /\ claims'[pair][Len(claims[pair]) + 1].method = method
      BY <1>1, <1>2, Appended
    <2> QED
      BY <2>1, <2>2
  <1> DEFINE r == [[request[w] EXCEPT !.step = "approve_found"] EXCEPT !.claim = last]
  <1>7. /\ r \in Request /\ r.step = "approve_found" /\ r.claim = last /\ r.kind = request[w].kind
        /\ r.user = request[w].user /\ r.startup = request[w].startup
    BY <1>1, <1>6 DEF Request
  <1>8. /\ request' \in [Workers -> Request \cup {None, Dead}]
        /\ \A x \in Workers \ {w} : request'[x] = request[x]
        /\ request[w].kind = "claim" => request'[w] = None
        /\ request[w].kind = "graduate" => request'[w] = r
    <2>1. request \in [Workers -> Request \cup {None, Dead}]
      BY <1>1 DEF GraduationTypeOK
    <2>2. CASE request[w].kind = "claim"
      <3>1. request' = [request EXCEPT ![w] = None]
        BY <2>2 DEF InsertClaim
      <3> QED
        BY <2>1, <2>2, <3>1
    <2>3. CASE request[w].kind = "graduate"
      <3>1. request' = [request EXCEPT ![w] = r]
        BY <2>3 DEF InsertClaim, ClaimsOf
      <3> QED
        BY <1>7, <2>1, <2>3, <3>1
    <2> QED
      BY <1>1, <2>2, <2>3
  <1>9. Justified(w)'
    <2>1. CASE request[w].kind = "claim"
      BY <1>8, <2>1 DEF Justified, Open
    <2>2. CASE request[w].kind = "graduate"
      <3>1. Pair(w)' = pair
        BY <1>7, <1>8, <2>2 DEF Pair
      <3>2. ClaimsOf(w)' = claims'[pair] /\ (IsMember(w)' \/ Refused(Pair(w))')
        BY <1>2, <1>3, <2>2, <3>1, Lasting DEF ClaimsOf, IsMember, Refused, RefusedTo
      <3> QED
        BY <1>6, <1>7, <1>8, <2>2, <3>2 DEF Justified, Claiming
    <2> QED
      BY <1>1, <2>1, <2>2
  <1>10. TagIsExclusive'
    <2>1. ~ At(w, "tag")'
      BY <1>1, <1>7, <1>8 DEF At, Open
    <2>2. \A x \in Workers : At(x, "tag")' => At(x, "tag") /\ request'[x].startup = request[x].startup
      BY <1>8, <2>1 DEF At, Open
    <2> QED
      BY <1>2, <2>2 DEF IInv, TagIsExclusive, Exists
  <1>11. ventures' \subseteq Ventures /\ graduations' \subseteq Link
    BY <1>1, <1>2 DEF GraduationTypeOK
  <1> QED
    BY <1>3, <1>4, <1>5, <1>8, <1>9, <1>10, <1>11, StepPreserves

-----------------------------------------------------------------------------
(* The steps that leave the claims alone.                                  *)

\* Claims and members stay as they are; startups, if any, come from analyses.
LEMMA ClaimsAlone ==
    ASSUME IInv, UNCHANGED <<claims, members>>,
           startups' \in [Names -> Origins],
           \A name \in Names : Exists(name) => startups'[name] = startups[name],
           \A name \in Names : startups'[name] = startups[name] \/ startups'[name] = FromAnalysis
    PROVE  Grows /\ TagsAreTrue' /\ ApprovedAreMembers' /\ FounderHasClaim'
  <1>1. Grows
    <2>1. \A pair \in Pairs : Len(claims[pair]) <= Len(claims[pair])
      BY ClaimTypes DEF IInv
    <2> QED
      BY <2>1 DEF IInv, GraduationTypeOK, Grows
  <1>2. TagsAreTrue'
    <2> SUFFICES ASSUME NEW pair \in Pairs, NEW n \in DOMAIN claims[pair]
                 PROVE  /\ claims[pair][n].method = "venture_graduation" => Own(pair)'
                        /\ claims[pair][n].reviewer = pair[1] =>
                             claims[pair][n].method = "venture_graduation"
      BY DEF TagsAreTrue, Own
    <2> QED
      BY <1>1, Lasting DEF IInv, TagsAreTrue
  <1>3. ApprovedAreMembers'
    BY DEF IInv, ApprovedAreMembers
  <1> QED
    BY <1>1, <1>2, <1>3, FoundersKept

LEMMA LinkPreserves ==
    ASSUME IInv, NEW w \in Workers, LinkVenture(w)
    PROVE  IInv'
  <1>1. /\ Open(w) /\ Justified(w) /\ request[w] \in Request /\ GraduationTypeOK
        /\ request[w].kind = "graduate" /\ request[w].user \in Users
        /\ request[w].startup \in Names /\ request[w].step = "link"
    BY OpenIsRequest DEF IInv, RequestsAreJustified, Justified, LinkVenture, At
  <1>2. UNCHANGED <<ventures, startups, claims, members>>
    BY DEF LinkVenture
  <1>3. Grows /\ TagsAreTrue' /\ ApprovedAreMembers' /\ FounderHasClaim'
    BY <1>1, <1>2, ClaimsAlone DEF GraduationTypeOK
  <1>4. PICK row \in Link : graduations' = graduations \cup {row} /\ <<row.user, row.startup>> = Pair(w)
    <2> DEFINE new == [venture |-> request[w].venture, startup |-> request[w].startup,
                       user |-> request[w].user]
    <2>1. request[w].venture \in Ventures
      BY <1>1 DEF LinkVenture, GraduationTypeOK
    <2>2. new \in Link /\ <<new.user, new.startup>> = Pair(w)
      BY <1>1, <2>1 DEF Link, Pair
    <2>3. graduations' = graduations \cup {new}
      BY DEF LinkVenture
    <2> QED
      BY <2>2, <2>3
  <1>5. LinkedHaveAccess'
    <2>1. IsMember(w) \/ Refused(Pair(w))
      BY <1>1 DEF Justified
    <2> SUFFICES ASSUME NEW other \in graduations'
                 PROVE  <<other.user, other.startup>> \in members \/ Refused(<<other.user, other.startup>>)
      BY <1>2 DEF LinkedHaveAccess, Refused, RefusedTo
    <2> QED
      BY <1>4, <2>1 DEF IInv, LinkedHaveAccess, IsMember
  <1>6. /\ request' \in [Workers -> Request \cup {None, Dead}] /\ request'[w] = None
        /\ \A x \in Workers \ {w} : request'[x] = request[x]
    BY <1>1 DEF LinkVenture, GraduationTypeOK
  <1>7. Justified(w)'
    BY <1>6 DEF Justified, Open
  <1>8. TagIsExclusive'
    <2>1. \A x \in Workers : At(x, "tag")' => At(x, "tag") /\ request'[x].startup = request[x].startup
      BY <1>6 DEF At, Open
    <2> QED
      BY <1>2, <2>1 DEF IInv, TagIsExclusive, Exists
  <1>9. ventures' \subseteq Ventures /\ graduations' \subseteq Link
    BY <1>1, <1>2, <1>4 DEF GraduationTypeOK
  <1> QED
    BY <1>3, <1>5, <1>6, <1>7, <1>8, <1>9, StepPreserves

LEMMA AnalyzePreserves ==
    ASSUME IInv, NEW name \in Names, Analyze(name)
    PROVE  IInv'
  <1>1. UNCHANGED <<ventures, claims, members, graduations, request>> /\ GraduationTypeOK
    BY DEF Analyze, IInv
  <1>2. /\ startups' \in [Names -> Origins] /\ startups'[name] = FromAnalysis
        /\ \A other \in Names \ {name} : startups'[other] = startups[other]
    BY <1>1 DEF Analyze, GraduationTypeOK, Origins
  <1>3. Grows /\ TagsAreTrue' /\ ApprovedAreMembers' /\ FounderHasClaim'
    BY <1>1, <1>2, ClaimsAlone DEF Analyze
  <1>4. LinkedHaveAccess'
    BY <1>1, <1>3, LinksKept
  <1>5. TagIsExclusive'
    <2>1. \A w \in Workers : At(w, "tag") => request[w].startup \in Names \ {name}
      BY <1>1, OpenIsRequest DEF Analyze, At
    <2> QED
      BY <1>1, <1>2, <2>1 DEF IInv, TagIsExclusive, At, Open, Exists
  <1>6. /\ ventures' \subseteq Ventures /\ graduations' \subseteq Link
        /\ request' \in [Workers -> Request \cup {None, Dead}]
        /\ \A w \in Workers : request'[w] = request[w]
    BY <1>1 DEF GraduationTypeOK
  <1> QED
    BY <1>3, <1>4, <1>5, <1>6, StepPreserves

LEMMA DeletePreserves ==
    ASSUME IInv, NEW v \in Ventures, DeleteVenture(v)
    PROVE  IInv'
  <1>1. /\ UNCHANGED <<startups, claims, members, request>> /\ GraduationTypeOK
        /\ ventures' \subseteq ventures /\ graduations' \subseteq graduations
    BY DEF DeleteVenture, IInv
  <1>2. Grows /\ TagsAreTrue' /\ ApprovedAreMembers' /\ FounderHasClaim'
    BY <1>1, ClaimsAlone DEF GraduationTypeOK
  <1>3. LinkedHaveAccess'
    BY <1>1, <1>2, LinksKept
  <1>4. TagIsExclusive'
    BY <1>1 DEF IInv, TagIsExclusive, At, Open, Exists
  <1>5. /\ ventures' \subseteq Ventures /\ graduations' \subseteq Link
        /\ request' \in [Workers -> Request \cup {None, Dead}]
        /\ \A w \in Workers : request'[w] = request[w]
    BY <1>1 DEF GraduationTypeOK
  <1> QED
    BY <1>2, <1>3, <1>4, <1>5, StepPreserves

-----------------------------------------------------------------------------
(* The invariant is inductive.                                             *)

LEMMA InitEstablishes == GraduationInit => IInv
  <1> SUFFICES ASSUME GraduationInit
               PROVE  IInv
    OBVIOUS
  <1>1. \A w \in Workers : ~ Open(w)
    BY DEF GraduationInit, Open
  <1>2. \A pair \in Pairs : claims[pair] = <<>> /\ DOMAIN claims[pair] = {}
    BY DEF GraduationInit
  <1>3. GraduationTypeOK
    BY <1>1 DEF GraduationInit, GraduationTypeOK, Origins
  <1>4. TagsAreTrue /\ ApprovedAreMembers
    BY <1>2 DEF TagsAreTrue, ApprovedAreMembers
  <1>5. LinkedHaveAccess
    BY DEF GraduationInit, LinkedHaveAccess
  <1>6. TagIsExclusive /\ RequestsAreJustified
    BY <1>1 DEF TagIsExclusive, RequestsAreJustified, Justified, At
  <1>7. FounderHasClaim
    BY DEF GraduationInit, FounderHasClaim, Absent
  <1> QED
    BY <1>3, <1>4, <1>5, <1>6, <1>7 DEF IInv

LEMMA StutterPreserves ==
    ASSUME IInv, UNCHANGED graduationVars
    PROVE  IInv'
  <1>1. Grows /\ UNCHANGED <<tables, request>>
    BY GrowsStutter DEF IInv, graduationVars, tables
  <1>2. TagsAreTrue' /\ ApprovedAreMembers'
    BY <1>1 DEF tables, IInv, TagsAreTrue, ApprovedAreMembers, Own
  <1>3. LinkedHaveAccess' /\ FounderHasClaim'
    BY <1>1, LinksKept, FoundersKept DEF tables
  <1>4. TagIsExclusive'
    BY <1>1 DEF tables, IInv, TagIsExclusive, At, Open, Exists
  <1>5. /\ ventures' \subseteq Ventures /\ graduations' \subseteq Link
        /\ request' \in [Workers -> Request \cup {None, Dead}]
        /\ \A w \in Workers : request'[w] = request[w]
    BY <1>1 DEF tables, IInv, GraduationTypeOK
  <1> QED
    BY <1>1, <1>2, <1>3, <1>4, <1>5, StepPreserves

LEMMA ServePreserves ==
    ASSUME IInv, NEW w \in Workers, Serve(w)
    PROVE  IInv'
  <1>1. CASE FindStartup(w) \/ InsertStartup(w) \/ ReadMember(w) \/ ReadOwnClaim(w)
    BY <1>1, ResolvePreserves
  <1>2. CASE \/ EnsureMember(w) \/ ClaimReadsMember(w) \/ ClaimReadsPending(w)
             \/ ClaimDuplicate(w) \/ FindClaim(w)
    BY <1>2, ClaimStepsPreserve
  <1>3. CASE TagStartup(w)
    BY <1>3, TagStartupPreserves
  <1>4. CASE InsertClaim(w)
    BY <1>4, InsertClaimPreserves
  <1>5. CASE ApproveGiven(w) \/ ApproveFound(w)
    BY <1>5, ApproveOwnPreserves DEF ApproveGiven, ApproveFound
  <1>6. CASE LinkVenture(w)
    BY <1>6, LinkPreserves
  <1>7. CASE LinkRefused(w)
    BY <1>7, FinishPreserves DEF LinkRefused, Finish
  <1> QED
    BY <1>1, <1>2, <1>3, <1>4, <1>5, <1>6, <1>7 DEF Serve

LEMMA NextPreserves == IInv /\ [GraduationNext]_graduationVars => IInv'
  <1> SUFFICES ASSUME IInv, [GraduationNext]_graduationVars
               PROVE  IInv'
    OBVIOUS
  <1>1. ASSUME NEW w \in Workers, Serve(w) \/ Arrive(w) \/ Restart(w)
        PROVE  IInv'
    <2>1. CASE Serve(w)
      BY <2>1, ServePreserves
    <2>2. CASE Arrive(w)
      BY <2>2, ArrivePreserves
    <2>3. CASE Restart(w)
      BY <2>3, FinishPreserves DEF Restart, Finish
    <2> QED
      BY <1>1, <2>1, <2>2, <2>3
  <1>2. CASE Outside
    <2>1. CASE \E name \in Names : Analyze(name)
      BY <2>1, AnalyzePreserves
    <2>2. CASE \E pair \in Pairs : \E n \in DOMAIN claims[pair] :
                 ReviewerApproves(pair, n) \/ RefuseClaim(pair, n)
      BY <2>2, OthersDecidePreserves
    <2>3. CASE \E v \in Ventures : DeleteVenture(v)
      BY <2>3, DeletePreserves
    <2> QED
      BY <1>2, <2>1, <2>2, <2>3 DEF Outside
  <1>3. CASE Crash
    BY <1>3, FinishPreserves DEF Crash, CrashRequest
  <1>4. CASE UNCHANGED graduationVars
    BY <1>4, StutterPreserves
  <1> QED
    BY <1>1, <1>2, <1>3, <1>4 DEF GraduationNext

LEMMA Inductive == GraduationSpec => []IInv
  BY InitEstablishes, NextPreserves, PTL DEF GraduationSpec

-----------------------------------------------------------------------------
(* How decisions grant access, step by step.                               *)

LEMMA UntouchedGrants ==
    ASSUME GraduationTypeOK, UNCHANGED <<claims, members>>
    PROVE  DecisionsGrantStep
  <1>1. \A pair \in Pairs : Len(claims[pair]) <= Len(claims[pair])
    BY ClaimTypes
  <1> QED
    BY <1>1 DEF DecisionsGrantStep

LEMMA AddedGrants ==
    ASSUME GraduationTypeOK, NEW w \in Workers, Open(w),
           NEW method \in {"manual_review", "venture_graduation"}, AddClaim(w, method),
           UNCHANGED members
    PROVE  DecisionsGrantStep
  <1> SUFFICES ASSUME NEW pair \in Pairs
               PROVE  /\ Len(claims'[pair]) \in {Len(claims[pair]), Len(claims[pair]) + 1}
                      /\ \A n \in DOMAIN claims[pair] : claims'[pair][n] = claims[pair][n]
    BY DEF DecisionsGrantStep
  <1>1. CASE pair = Pair(w)
    BY <1>1, Appended, ClaimTypes
  <1>2. CASE pair # Pair(w)
    <2>1. claims'[pair] = claims[pair]
      BY <1>2, Appended
    <2> QED
      BY <2>1, ClaimTypes
  <1> QED
    BY <1>1, <1>2

LEMMA DecidedGrants ==
    ASSUME GraduationTypeOK, NEW pair \in Pairs, NEW n \in DOMAIN claims[pair],
           NEW status \in {"approved", "rejected", "cancelled"},
           NEW reviewer \in Users \cup {Reviewer, None},
           Decide(pair, n, status, reviewer),
           members' = IF claims[pair][n].status = "pending" /\ status = "approved"
                      THEN members \cup {pair} ELSE members
    PROVE  DecisionsGrantStep
  <1>1. \A other \in Pairs :
          /\ Len(claims'[other]) \in {Len(claims[other]), Len(claims[other]) + 1}
          /\ \A m \in DOMAIN claims[other] :
               claims[other][m].status # "pending" => claims'[other][m] = claims[other][m]
    <2> SUFFICES ASSUME NEW other \in Pairs
                 PROVE  /\ Len(claims'[other]) \in {Len(claims[other]), Len(claims[other]) + 1}
                        /\ \A m \in DOMAIN claims[other] :
                             claims[other][m].status # "pending" => claims'[other][m] = claims[other][m]
      OBVIOUS
    <2>1. CASE other = pair
      <3>1. /\ Len(claims'[pair]) = Len(claims[pair]) /\ Len(claims[pair]) \in Nat
            /\ \A m \in DOMAIN claims[pair] \ {n} : claims'[pair][m] = claims[pair][m]
            /\ claims[pair][n].status # "pending" => claims'[pair][n] = claims[pair][n]
        BY Decided, ClaimTypes
      <3> QED
        BY <2>1, <3>1
    <2>2. CASE other # pair
      <3>1. claims'[other] = claims[other]
        BY <2>2, Decided
      <3> QED
        BY <3>1, ClaimTypes
    <2> QED
      BY <2>1, <2>2
  <1>2. members \subseteq members'
    OBVIOUS
  <1>3. ASSUME NEW other \in members' \ members
        PROVE  \E m \in DOMAIN claims[other] :
                 claims[other][m].status = "pending" /\ claims'[other][m].status = "approved"
    <2>1. other = pair /\ claims[pair][n].status = "pending" /\ status = "approved"
      BY <1>3
    <2> QED
      BY <2>1, Decided
  <1> QED
    BY <1>1, <1>2, <1>3 DEF DecisionsGrantStep

LEMMA StepGrants == IInv /\ [GraduationNext]_graduationVars => DecisionsGrantStep
  <1> SUFFICES ASSUME IInv, [GraduationNext]_graduationVars
               PROVE  DecisionsGrantStep
    OBVIOUS
  <1>1. GraduationTypeOK
    BY DEF IInv
  <1>2. ASSUME NEW w \in Workers, Serve(w)
        PROVE  DecisionsGrantStep
    <2>1. CASE TagStartup(w)
      BY <1>1, <2>1, AddedGrants DEF TagStartup, At
    <2>2. CASE InsertClaim(w)
      <3> PICK method \in {"manual_review", "venture_graduation"} :
             method = IF request[w].kind = "claim" THEN "manual_review" ELSE "venture_graduation"
        OBVIOUS
      <3>1. Open(w) /\ AddClaim(w, method) /\ UNCHANGED members
        BY <2>2 DEF InsertClaim, At
      <3> QED
        BY <1>1, <3>1, AddedGrants
    <2>3. CASE ApproveGiven(w) \/ ApproveFound(w)
      <3>1. /\ Pair(w) \in Pairs /\ request[w].user \in Users
            /\ request[w].claim \in DOMAIN claims[Pair(w)]
        BY <1>1, <2>3, OpenIsRequest
          DEF IInv, RequestsAreJustified, Justified, ApproveGiven, ApproveFound, At, ClaimsOf
      <3>2. /\ Decide(Pair(w), request[w].claim, "approved", request[w].user)
            /\ members' = IF claims[Pair(w)][request[w].claim].status = "pending"
                          THEN members \cup {Pair(w)} ELSE members
        BY <2>3 DEF ApproveGiven, ApproveFound, ApproveOwn, Approve
      <3> QED
        BY <1>1, <3>1, <3>2, DecidedGrants
    <2>4. CASE \/ FindStartup(w) \/ InsertStartup(w) \/ ReadMember(w) \/ ReadOwnClaim(w)
               \/ EnsureMember(w) \/ ClaimReadsMember(w) \/ ClaimReadsPending(w)
               \/ ClaimDuplicate(w) \/ FindClaim(w) \/ LinkVenture(w) \/ LinkRefused(w)
      <3>1. UNCHANGED <<claims, members>>
        BY <2>4 DEF FindStartup, InsertStartup, ReadMember, ReadOwnClaim, EnsureMember,
          ClaimReadsMember, ClaimReadsPending, ClaimDuplicate, FindClaim, LinkVenture, LinkRefused,
          Duplicate, Goto, Carry, Finish, tables
      <3> QED
        BY <1>1, <3>1, UntouchedGrants
    <2> QED
      BY <1>2, <2>1, <2>2, <2>3, <2>4 DEF Serve
  <1>3. CASE (\E w \in Workers : Arrive(w) \/ Restart(w)) \/ Crash \/ UNCHANGED graduationVars
    <2>1. UNCHANGED <<claims, members>>
      BY <1>3 DEF Arrive, BeginGraduation, BeginConnection, BeginClaim, Begin, Restart, Finish,
        Crash, CrashRequest, graduationVars, tables
    <2> QED
      BY <1>1, <2>1, UntouchedGrants
  <1>4. CASE Outside
    <2>1. CASE \E name \in Names : Analyze(name)
      BY <1>1, <2>1, UntouchedGrants DEF Analyze
    <2>2. CASE \E v \in Ventures : DeleteVenture(v)
      BY <1>1, <2>2, UntouchedGrants DEF DeleteVenture
    <2>3. ASSUME NEW pair \in Pairs, NEW n \in DOMAIN claims[pair],
                 ReviewerApproves(pair, n) \/ RefuseClaim(pair, n)
          PROVE  DecisionsGrantStep
      <3>1. CASE ReviewerApproves(pair, n)
        BY <1>1, <3>1, DecidedGrants DEF ReviewerApproves, Approve
      <3>2. CASE RefuseClaim(pair, n)
        <4>1. PICK status \in {"rejected", "cancelled"}, reviewer \in {Reviewer, None} :
                Decide(pair, n, status, reviewer) /\ members' = members
          BY <3>2 DEF RefuseClaim
        <4> QED
          BY <1>1, <4>1, DecidedGrants
      <3> QED
        BY <2>3, <3>1, <3>2
    <2> QED
      BY <1>4, <2>1, <2>2, <2>3 DEF Outside
  <1> QED
    BY <1>2, <1>3, <1>4 DEF GraduationNext

-----------------------------------------------------------------------------
(* The requests implement Access.                                          *)

\* A graduation is of a venture of the user's own, and a claim filed by hand
\* of a startup that is there.
OwnRequest(w) ==
    Open(w) =>
        /\ request[w].kind = "graduate" =>
             request[w].venture \in Ventures /\ request[w].user = OwnerOf[request[w].venture]
        /\ request[w].kind = "claim" => Exists(request[w].startup)

\* Nobody claims, or has access to, a startup that is not there.
Rooted ==
    /\ \A pair \in Pairs : DOMAIN claims[pair] # {} \/ pair \in members => Exists(pair[2])
    /\ \A w \in Workers : OwnRequest(w)

Allowed == [Rights!Next]_(Rights!access)

LEMMA RootsLast ==
    ASSUME GraduationTypeOK, Rooted,
           \A name \in Names : Exists(name) => Exists(name)',
           \A pair \in Pairs : DOMAIN claims'[pair] # {} \/ pair \in members' =>
             DOMAIN claims[pair] # {} \/ pair \in members \/ Exists(pair[2])',
           \A w \in Workers : request'[w] = request[w] \/ OwnRequest(w)'
    PROVE  Rooted'
  <1>1. ASSUME NEW pair \in Pairs, DOMAIN claims'[pair] # {} \/ pair \in members'
        PROVE  Exists(pair[2])'
    <2>1. Exists(pair[2]) \/ Exists(pair[2])'
      BY <1>1 DEF Rooted
    <2>2. pair[2] \in Names
      BY DEF Pairs
    <2> QED
      BY <2>1, <2>2
  <1>2. ASSUME NEW w \in Workers
        PROVE  OwnRequest(w)'
    <2> SUFFICES ASSUME request'[w] = request[w], Open(w)
                 PROVE  OwnRequest(w)'
      BY DEF OwnRequest, Open
    <2>1. request[w].startup \in Names
      BY OpenIsRequest
    <2> QED
      BY <2>1 DEF Rooted, OwnRequest
  <1> QED
    BY <1>1, <1>2 DEF Rooted

\* What a request is about does not change while it is served.
LEMMA OwnedOn ==
    ASSUME GraduationTypeOK, Rooted, NEW w \in Workers, Open(w),
           \A name \in Names : Exists(name) => Exists(name)',
           \E step \in Steps, claim \in Nat :
             request' = [request EXCEPT ![w].step = step, ![w].claim = claim]
    PROVE  \A x \in Workers : request'[x] = request[x] \/ OwnRequest(x)'
  <1> PICK step \in Steps, claim \in Nat :
             request' = [request EXCEPT ![w].step = step, ![w].claim = claim]
    OBVIOUS
  <1> DEFINE r == [[request[w] EXCEPT !.step = step] EXCEPT !.claim = claim]
  <1>1. request[w] \in Request /\ request \in [Workers -> Request \cup {None, Dead}]
    BY OpenIsRequest DEF GraduationTypeOK
  <1>2. /\ r.user = request[w].user /\ r.startup = request[w].startup
        /\ r.kind = request[w].kind /\ r.venture = request[w].venture
        /\ request[w].startup \in Names
    BY <1>1 DEF Request
  <1>3. request' = [request EXCEPT ![w] = r]
    OBVIOUS
  <1>4. request'[w] = r /\ \A x \in Workers \ {w} : request'[x] = request[x]
    BY <1>1, <1>3
  <1>5. OwnRequest(w)'
    <2> PICK name \in Names : name = request[w].startup
      BY <1>2
    <2>1. OwnRequest(w) /\ (Exists(name) => Exists(name)')
      BY DEF Rooted
    <2>2. /\ request'[w].kind = "graduate" =>
               /\ request'[w].venture \in Ventures
               /\ request'[w].user = OwnerOf[request'[w].venture]
          /\ request'[w].kind = "claim" => Exists(name)' /\ request'[w].startup = name
      BY <1>2, <1>4, <2>1 DEF OwnRequest
    <2> QED
      BY <2>2 DEF OwnRequest, Exists
  <1> QED
    BY <1>4, <1>5

LEMMA QuietAllowed ==
    ASSUME GraduationTypeOK, Rooted, UNCHANGED tables,
           \A w \in Workers : request'[w] = request[w] \/ OwnRequest(w)'
    PROVE  Rooted' /\ Allowed
  <1>1. UNCHANGED <<ventures, startups, claims, members, graduations>>
    BY DEF tables
  <1>2. \A name \in Names : Exists(name) => Exists(name)'
    BY <1>1 DEF Exists
  <1>3. Rooted'
    BY <1>1, <1>2, RootsLast
  <1> QED
    BY <1>1, <1>3 DEF Allowed, Rights!access

LEMMA FinishAllowed ==
    ASSUME GraduationTypeOK, Rooted, NEW w \in Workers, NEW gone \in {None, Dead},
           request' = [request EXCEPT ![w] = gone], UNCHANGED tables
    PROVE  Rooted' /\ Allowed
  <1>1. request'[w] = gone /\ \A x \in Workers \ {w} : request'[x] = request[x]
    BY DEF GraduationTypeOK
  <1>2. OwnRequest(w)'
    BY <1>1 DEF OwnRequest, Open
  <1> QED
    BY <1>1, <1>2, QuietAllowed

LEMMA CarryAllowed ==
    ASSUME GraduationTypeOK, Rooted, NEW w \in Workers, Open(w),
           \E step \in Steps, claim \in Nat : Carry(w, claim, step)
    PROVE  Rooted' /\ Allowed
  <1>1. /\ UNCHANGED tables
        /\ \E step \in Steps, claim \in Nat :
             request' = [request EXCEPT ![w].step = step, ![w].claim = claim]
    BY DEF Carry
  <1>2. \A name \in Names : Exists(name) => Exists(name)'
    BY <1>1 DEF tables, Exists
  <1> QED
    BY <1>1, <1>2, OwnedOn, QuietAllowed

LEMMA ReadsAllowed ==
    ASSUME IInv, Rooted, NEW w \in Workers,
           \/ FindStartup(w) \/ InsertStartup(w) \/ ReadMember(w) \/ ReadOwnClaim(w)
           \/ EnsureMember(w) \/ ClaimReadsMember(w) \/ ClaimReadsPending(w)
           \/ ClaimDuplicate(w) \/ FindClaim(w) \/ LinkRefused(w)
    PROVE  Rooted' /\ Allowed
  <1>1. /\ GraduationTypeOK /\ Open(w) /\ request[w].claim \in Nat
        /\ \A n \in DOMAIN ClaimsOf(w) : n \in Nat
    <2>1. GraduationTypeOK /\ Open(w)
      BY DEF IInv, FindStartup, InsertStartup, ReadMember, ReadOwnClaim, EnsureMember,
        ClaimReadsMember, ClaimReadsPending, ClaimDuplicate, FindClaim, LinkRefused, At
    <2> QED
      BY <2>1, OpenIsRequest, ClaimTypes DEF ClaimsOf
  <1>2. Finish(w) \/ \E step \in Steps, claim \in Nat : Carry(w, claim, step)
    BY <1>1 DEF FindStartup, InsertStartup, ReadMember, ReadOwnClaim, EnsureMember,
      ClaimReadsMember, ClaimReadsPending, ClaimDuplicate, FindClaim, LinkRefused, Duplicate, Goto, Steps
  <1>3. CASE Finish(w)
    BY <1>1, <1>3, FinishAllowed DEF Finish
  <1>4. CASE \E step \in Steps, claim \in Nat : Carry(w, claim, step)
    BY <1>1, <1>4, CarryAllowed
  <1> QED
    BY <1>2, <1>3, <1>4

LEMMA BeginAllowed ==
    ASSUME GraduationTypeOK, Rooted, NEW w \in Workers, NEW kind \in {"graduate", "claim"},
           NEW user \in Users, NEW v \in Ventures \cup {None}, NEW name \in Names, NEW step \in Steps,
           Begin(w, kind, user, v, name, step),
           kind = "graduate" => v \in Ventures /\ user = OwnerOf[v],
           kind = "claim" => Exists(name)
    PROVE  Rooted' /\ Allowed
  <1> DEFINE r == [kind |-> kind, user |-> user, venture |-> v, startup |-> name, claim |-> 0,
                   step |-> step]
  <1>1. /\ request'[w] = r /\ UNCHANGED tables
        /\ \A x \in Workers \ {w} : request'[x] = request[x]
    BY DEF Begin, GraduationTypeOK
  <1>2. OwnRequest(w)'
    BY <1>1 DEF OwnRequest, Exists, tables
  <1> QED
    BY <1>1, <1>2, QuietAllowed

LEMMA ArriveAllowed ==
    ASSUME IInv, Rooted, NEW w \in Workers, Arrive(w)
    PROVE  Rooted' /\ Allowed
  <1>1. GraduationTypeOK
    BY DEF IInv
  <1>2. ASSUME NEW v \in Ventures, NEW name \in Names,
               BeginGraduation(w, v, name) \/ BeginConnection(w, v, name)
        PROVE  Rooted' /\ Allowed
    <2>1. OwnerOf[v] \in Users
      BY OwnerAssumption
    <2> QED
      BY <1>1, <1>2, <2>1, BeginAllowed DEF BeginGraduation, BeginConnection, Steps
  <1>3. ASSUME NEW user \in Users, NEW name \in Names, BeginClaim(w, user, name)
        PROVE  Rooted' /\ Allowed
    BY <1>1, <1>3, BeginAllowed DEF BeginClaim, Steps
  <1> QED
    BY <1>2, <1>3 DEF Arrive

\* The startup of a graduation and its founder's claim arrive together, on a
\* name that nobody has claimed.
LEMMA TagAllowed ==
    ASSUME IInv, Rooted, NEW w \in Workers, TagStartup(w)
    PROVE  Rooted' /\ Allowed
  <1>1. /\ GraduationTypeOK /\ Open(w) /\ request[w].kind = "graduate" /\ OwnRequest(w)
        /\ request[w].startup \in Names /\ ~ Exists(request[w].startup)
    BY OpenIsRequest
      DEF IInv, RequestsAreJustified, Justified, TagStartup, At, TagIsExclusive, Rooted
  <1> PICK v \in Ventures, name \in Names : v = request[w].venture /\ name = request[w].startup
    BY <1>1 DEF OwnRequest
  <1> PICK last : last = Len(ClaimsOf(w)) + 1
    OBVIOUS
  <1> DEFINE pair == <<OwnerOf[v], name>>
  <1>2. pair = Pair(w) /\ pair \in Pairs /\ ~ Exists(name) /\ request[w].user = OwnerOf[v]
    BY <1>1, OwnerAssumption DEF OwnRequest, Pair, Pairs
  <1>3. DOMAIN claims[pair] = {}
    BY <1>2 DEF Rooted
  <1>4. /\ startups' = [startups EXCEPT ![name] = FromGraduation(OwnerOf[v])]
        /\ AddClaim(w, "venture_graduation") /\ UNCHANGED <<ventures, members, graduations>>
        /\ request' = [request EXCEPT ![w].step = "ensure", ![w].claim = last]
    BY <1>2 DEF TagStartup
  <1>5. Rights!Found(v, name)
    <2>1. claims' = [claims EXCEPT ![pair] =
            Append(@, [status |-> "pending", method |-> "venture_graduation", reviewer |-> None])]
      BY <1>2, <1>4 DEF AddClaim
    <2> QED
      BY <1>2, <1>3, <1>4, <2>1 DEF Rights!Found, Rights!File, Rights!Pending, Rights!Absent,
        Rights!FromGraduation, FromGraduation, Exists, Absent
  <1>6. Exists(name)' /\ \A other \in Names : Exists(other) => Exists(other)'
    <2>1. startups'[name] = FromGraduation(OwnerOf[v])
          /\ \A other \in Names \ {name} : startups'[other] = startups[other]
      BY <1>1, <1>4 DEF GraduationTypeOK
    <2> QED
      BY <1>2, <2>1 DEF Exists, Absent, FromGraduation
  <1>7. \A other \in Pairs : DOMAIN claims'[other] # {} \/ other \in members' =>
          DOMAIN claims[other] # {} \/ other \in members \/ Exists(other[2])'
    <2>1. \A other \in Pairs \ {pair} : claims'[other] = claims[other]
      BY <1>1, <1>2, <1>4, Appended
    <2> QED
      BY <1>4, <1>6, <2>1
  <1>8. last \in Nat
    BY <1>1, <1>2, ClaimTypes DEF ClaimsOf
  <1>9. \A x \in Workers : request'[x] = request[x] \/ OwnRequest(x)'
    BY <1>1, <1>4, <1>6, <1>8, OwnedOn DEF Steps
  <1> QED
    BY <1>1, <1>5, <1>6, <1>7, <1>9, RootsLast DEF Allowed, Rights!Next

LEMMA InsertClaimAllowed ==
    ASSUME IInv, Rooted, NEW w \in Workers, InsertClaim(w)
    PROVE  Rooted' /\ Allowed
  <1>1. /\ GraduationTypeOK /\ Open(w) /\ OwnRequest(w) /\ Justified(w)
        /\ request[w].kind \in {"graduate", "claim"} /\ request[w].step = "claim_insert"
        /\ request[w].user \in Users /\ request[w].startup \in Names
    BY OpenIsRequest DEF IInv, RequestsAreJustified, InsertClaim, At, Rooted
  <1> PICK user \in Users, name \in Names : user = request[w].user /\ name = request[w].startup
    BY <1>1
  <1> PICK last : last = Len(ClaimsOf(w)) + 1
    OBVIOUS
  <1> PICK method \in {"manual_review", "venture_graduation"} :
         method = IF request[w].kind = "claim" THEN "manual_review" ELSE "venture_graduation"
    OBVIOUS
  <1> DEFINE pair == <<user, name>>
  <1>2. pair = Pair(w) /\ pair \in Pairs
    BY DEF Pair, Pairs
  <1>3. Exists(name) /\ (method = "venture_graduation" => startups[name] = FromGraduation(user))
    BY <1>1, <1>2 DEF OwnRequest, Justified, Claiming, Own, Exists, Absent, FromGraduation
  <1>4. AddClaim(w, method) /\ UNCHANGED <<ventures, startups, members, graduations>>
    BY DEF InsertClaim
  <1>5. Rights!Claim(user, name)
    <2>1. claims' = [claims EXCEPT ![pair] =
            Append(@, [status |-> "pending", method |-> method, reviewer |-> None])]
      BY <1>2, <1>4 DEF AddClaim
    <2>2. \A n \in DOMAIN claims[pair] : claims[pair][n].status # "pending"
      BY <1>2 DEF InsertClaim, HasPending, ClaimsOf
    <2>3. Rights!File(user, name, method)
      BY <1>4, <2>1, <2>2 DEF Rights!File, Rights!Pending
    <2> QED
      BY <1>3, <1>4, <2>3
        DEF Rights!Claim, Rights!Absent, Rights!FromGraduation, FromGraduation, Exists, Absent
  <1>6. \A other \in Names : Exists(other) => Exists(other)'
    BY <1>4 DEF Exists
  <1>7. \A other \in Pairs : DOMAIN claims'[other] # {} \/ other \in members' =>
          DOMAIN claims[other] # {} \/ other \in members \/ Exists(other[2])'
    <2>1. \A other \in Pairs \ {pair} : claims'[other] = claims[other]
      BY <1>1, <1>2, <1>4, Appended
    <2> QED
      BY <1>3, <1>4, <1>6, <2>1
  <1>8. last \in Nat
    BY <1>1, <1>2, ClaimTypes DEF ClaimsOf
  <1>9. \A x \in Workers : request'[x] = request[x] \/ OwnRequest(x)'
    <2>1. CASE request[w].kind = "claim"
      <3>1. request'[w] = None /\ \A x \in Workers \ {w} : request'[x] = request[x]
        BY <1>1, <2>1 DEF InsertClaim, GraduationTypeOK
      <3> QED
        BY <3>1 DEF OwnRequest, Open
    <2>2. CASE request[w].kind = "graduate"
      <3>1. request' = [request EXCEPT ![w].step = "approve_found", ![w].claim = last]
        BY <2>2 DEF InsertClaim
      <3> QED
        BY <1>1, <1>6, <1>8, <3>1, OwnedOn DEF Steps
    <2> QED
      BY <1>1, <2>1, <2>2
  <1> QED
    BY <1>1, <1>5, <1>6, <1>7, <1>9, RootsLast DEF Allowed, Rights!Next

\* Deciding a claim, and the membership that may come with it.
LEMMA DecideRooted ==
    ASSUME GraduationTypeOK, Rooted, NEW pair \in Pairs, NEW n \in DOMAIN claims[pair],
           NEW status \in {"approved", "rejected", "cancelled"},
           NEW reviewer \in Users \cup {Reviewer, None},
           Decide(pair, n, status, reviewer), members' \subseteq members \cup {pair},
           startups' = startups,
           \A w \in Workers : request'[w] = request[w] \/ OwnRequest(w)'
    PROVE  Rooted'
  <1>1. /\ DOMAIN claims'[pair] = DOMAIN claims[pair]
        /\ \A other \in Pairs \ {pair} : claims'[other] = claims[other]
    BY Decided
  <1>2. \A name \in Names : Exists(name) => Exists(name)'
    BY DEF Exists
  <1>3. \A other \in Pairs : DOMAIN claims'[other] # {} \/ other \in members' =>
          DOMAIN claims[other] # {} \/ other \in members \/ Exists(other[2])'
    BY <1>1
  <1> QED
    BY <1>2, <1>3, RootsLast

\* A founder admits himself, or finds his claim decided and changes nothing.
LEMMA ApproveOwnAllowed ==
    ASSUME IInv, Rooted, NEW w \in Workers, ApproveGiven(w) \/ ApproveFound(w)
    PROVE  Rooted' /\ Allowed
  <1>1. /\ GraduationTypeOK /\ Open(w) /\ Justified(w) /\ request[w].claim \in DOMAIN claims[Pair(w)]
        /\ request[w].user \in Users /\ Pair(w) \in Pairs
        /\ claims[Pair(w)][request[w].claim].method = "venture_graduation"
    BY OpenIsRequest
      DEF IInv, RequestsAreJustified, Justified, ApproveGiven, ApproveFound, At, ClaimsOf
  <1> PICK pair \in Pairs : pair = Pair(w)
    BY <1>1
  <1> PICK n \in DOMAIN claims[pair] : n = request[w].claim
    BY <1>1
  <1>2. /\ Decide(pair, n, "approved", pair[1]) /\ UNCHANGED <<ventures, startups, graduations>>
        /\ members' = IF claims[pair][n].status = "pending" THEN members \cup {pair} ELSE members
        /\ \E step \in Steps : request' = [request EXCEPT ![w].step = step, ![w].claim = 0]
        /\ pair[1] \in Users
    BY <1>1 DEF ApproveGiven, ApproveFound, ApproveOwn, Approve, Pair, Steps
  <1>3. \A name \in Names : Exists(name) => Exists(name)'
    BY <1>2 DEF Exists
  <1>4. \A x \in Workers : request'[x] = request[x] \/ OwnRequest(x)'
    BY <1>1, <1>2, <1>3, OwnedOn
  <1>5. Rooted'
    BY <1>1, <1>2, <1>4, DecideRooted
  <1>6. CASE claims[pair][n].status = "pending"
    <2>1. Own(pair) /\ claims[pair][n].method = "venture_graduation"
      BY <1>1 DEF IInv, TagsAreTrue
    <2>2. Rights!Decide(pair, n, "approved", pair[1])
      BY <1>2, <1>6 DEF Decide, Rights!Decide, Rights!Pending
    <2>3. Rights!Admit(pair, n)
      BY <1>2, <1>6, <2>1, <2>2 DEF Rights!Admit, Rights!FromGraduation, FromGraduation, Own
    <2> QED
      BY <1>5, <2>3 DEF Allowed, Rights!Next, Pairs
  <1>7. CASE claims[pair][n].status # "pending"
    <2>1. UNCHANGED tables
      BY <1>2, <1>7 DEF Decide, tables
    <2> QED
      BY <1>1, <1>4, <2>1, QuietAllowed
  <1> QED
    BY <1>6, <1>7

LEMMA OthersAllowed ==
    ASSUME IInv, Rooted, NEW pair \in Pairs, NEW n \in DOMAIN claims[pair],
           ReviewerApproves(pair, n) \/ RefuseClaim(pair, n)
    PROVE  Rooted' /\ Allowed
  <1>1. /\ GraduationTypeOK /\ claims[pair][n].status = "pending" /\ request' = request
        /\ UNCHANGED <<ventures, startups, graduations>>
    BY DEF IInv, ReviewerApproves, RefuseClaim
  <1>2. CASE ReviewerApproves(pair, n)
    <2>1. Decide(pair, n, "approved", Reviewer) /\ members' = members \cup {pair}
      BY <1>2 DEF ReviewerApproves, Approve
    <2>2. Rights!Admit(pair, n)
      BY <1>1, <2>1 DEF Decide, Rights!Admit, Rights!Decide, Rights!Pending
    <2> QED
      BY <1>1, <2>1, <2>2, DecideRooted DEF Allowed, Rights!Next, Pairs
  <1>3. CASE RefuseClaim(pair, n)
    <2>1. /\ members' = members
          /\ Decide(pair, n, "rejected", Reviewer) \/ Decide(pair, n, "cancelled", None)
      BY <1>3 DEF RefuseClaim
    <2>2. Rights!Refuse(pair, n)
      BY <1>1, <2>1 DEF Decide, Rights!Refuse, Rights!Decide, Rights!Pending
    <2>3. Rooted'
      BY <1>1, <2>1, DecideRooted
    <2> QED
      BY <2>2, <2>3 DEF Allowed, Rights!Next, Pairs
  <1> QED
    BY <1>2, <1>3

\* Only who has access, or was refused it, comes to the link.
LEMMA LinkAllowed ==
    ASSUME IInv, Rooted, NEW w \in Workers, LinkVenture(w)
    PROVE  Rooted' /\ Allowed
  <1>1. /\ GraduationTypeOK /\ Open(w) /\ OwnRequest(w) /\ Justified(w)
        /\ request[w].kind = "graduate" /\ request[w].step = "link"
        /\ request[w].startup \in Names /\ Pair(w) \in Pairs
    BY OpenIsRequest DEF IInv, RequestsAreJustified, Justified, LinkVenture, At, Rooted
  <1> PICK v \in Ventures, name \in Names : v = request[w].venture /\ name = request[w].startup
    BY <1>1 DEF OwnRequest
  <1>2. request[w].user = OwnerOf[v] /\ Pair(w) = <<OwnerOf[v], name>>
    BY <1>1 DEF OwnRequest, Pair
  <1>3. Pair(w) \in members \/ Refused(Pair(w))
    BY <1>1 DEF Justified, IsMember
  <1>4. Exists(name)
    BY <1>1, <1>2, <1>3 DEF Rooted, Refused, RefusedTo
  <1>5. Rights!Refused(Pair(w)) <=> Refused(Pair(w))
    BY DEF Refused, RefusedTo, Rights!Refused
  <1>6. Rights!Graduate(v, name)
    BY <1>2, <1>3, <1>4, <1>5 DEF LinkVenture, Rights!Graduate, Rights!Absent, Exists, Absent
  <1>7. UNCHANGED <<startups, claims, members>>
    BY DEF LinkVenture
  <1>8. request'[w] = None /\ \A x \in Workers \ {w} : request'[x] = request[x]
    BY <1>1 DEF LinkVenture, GraduationTypeOK
  <1>9. \A x \in Workers : request'[x] = request[x] \/ OwnRequest(x)'
    BY <1>8 DEF OwnRequest, Open
  <1>10. \A other \in Names : Exists(other) => Exists(other)'
    BY <1>7 DEF Exists
  <1> QED
    BY <1>1, <1>6, <1>7, <1>9, <1>10, RootsLast DEF Allowed, Rights!Next

LEMMA OutsideAllowed ==
    ASSUME IInv, Rooted, Outside
    PROVE  Rooted' /\ Allowed
  <1>1. GraduationTypeOK
    BY DEF IInv
  <1>2. ASSUME NEW name \in Names, Analyze(name)
        PROVE  Rooted' /\ Allowed
    <2>1. UNCHANGED <<ventures, claims, members, graduations, request>>
      BY <1>2 DEF Analyze
    <2>2. Rights!Appear(name)
      BY <1>2 DEF Analyze, Rights!Appear, Rights!Absent, Rights!FromAnalysis, Exists, Absent, FromAnalysis
    <2>3. \A other \in Names : Exists(other) => Exists(other)'
      BY <1>1, <1>2 DEF Analyze, Exists, Absent, FromAnalysis, GraduationTypeOK
    <2> QED
      BY <1>1, <2>1, <2>2, <2>3, RootsLast DEF Allowed, Rights!Next
  <1>3. ASSUME NEW v \in Ventures, DeleteVenture(v)
        PROVE  Rooted' /\ Allowed
    <2>1. UNCHANGED <<startups, claims, members, request>>
      BY <1>3 DEF DeleteVenture
    <2>2. Rights!Abandon(v)
      BY <1>3 DEF DeleteVenture, Rights!Abandon
    <2>3. \A other \in Names : Exists(other) => Exists(other)'
      BY <2>1 DEF Exists
    <2> QED
      BY <1>1, <2>1, <2>2, <2>3, RootsLast DEF Allowed, Rights!Next
  <1> QED
    BY <1>2, <1>3, OthersAllowed DEF Outside

LEMMA StepAllowed == IInv /\ Rooted /\ [GraduationNext]_graduationVars => Rooted' /\ Allowed
  <1> SUFFICES ASSUME IInv, Rooted, [GraduationNext]_graduationVars
               PROVE  Rooted' /\ Allowed
    OBVIOUS
  <1>1. GraduationTypeOK
    BY DEF IInv
  <1>2. ASSUME NEW w \in Workers, Serve(w)
        PROVE  Rooted' /\ Allowed
    BY <1>2, ReadsAllowed, TagAllowed, InsertClaimAllowed, ApproveOwnAllowed, LinkAllowed DEF Serve
  <1>3. ASSUME NEW w \in Workers, Restart(w)
        PROVE  Rooted' /\ Allowed
    BY <1>1, <1>3, FinishAllowed DEF Restart, Finish
  <1>4. CASE Crash
    BY <1>1, <1>4, FinishAllowed DEF Crash, CrashRequest
  <1>5. CASE UNCHANGED graduationVars
    <2>1. UNCHANGED tables /\ request' = request
      BY <1>5 DEF graduationVars
    <2> QED
      BY <1>1, <2>1, QuietAllowed
  <1> QED
    BY <1>2, <1>3, <1>4, <1>5, ArriveAllowed, OutsideAllowed DEF GraduationNext

LEMMA InitAllowed == GraduationInit => Rooted /\ Rights!Init
  <1> SUFFICES ASSUME GraduationInit
               PROVE  Rooted /\ Rights!Init
    OBVIOUS
  <1>1. Rooted
    BY DEF GraduationInit, Rooted, OwnRequest, Open
  <1>2. Rights!Init
    BY DEF GraduationInit, Rights!Init, Rights!Absent, Absent, Pairs
  <1> QED
    BY <1>1, <1>2

-----------------------------------------------------------------------------
(* The theorems.                                                           *)

(* The rows keep their types, and a request that is about to approve a     *)
(* claim has the id of a claim of its own user on its own startup.         *)
THEOREM GraduationIsTyped == GraduationSpec => []GraduationTypeOK
  <1>1. IInv => GraduationTypeOK
    BY DEF IInv
  <1> QED
    BY <1>1, Inductive, PTL

(* A claim is approved by its own claimant only on a startup that his own  *)
(* graduation created, and a linked venture's founder is a member of the   *)
(* startup or had a claim on it refused, whatever reviewers, claimants and *)
(* parallel requests do between the statements of a graduation.            *)
THEOREM AccessHasReasons == GraduationSpec => []AccessIsEntitled
  <1>1. IInv => SelfApprovalOfOwnOnly
    BY DEF IInv, TagsAreTrue, SelfApprovalOfOwnOnly, Own
  <1>2. IInv => LinkHasAccess
    BY DEF IInv, LinkedHaveAccess, ApprovedAreMembers, LinkHasAccess, Refused
  <1> QED
    BY <1>1, <1>2, Inductive, PTL DEF AccessIsEntitled

(* Whatever dies between two statements, the founder of a startup is a     *)
(* member of it, or his latest graduation claim is pending and his next    *)
(* request recognizes it and takes it up, or that very claim was rejected  *)
(* or cancelled: only a decision about it takes the startup from him.      *)
THEOREM CrashLocksNobodyOut == GraduationSpec => []NeverLockedOut
  <1>1. ASSUME IInv
        PROVE  NeverLockedOut
    <2> SUFFICES ASSUME NEW name \in Names, startups[name].kind = "graduation"
                 PROVE  \/ <<startups[name].user, name>> \in members
                        \/ LatestIs(<<startups[name].user, name>>, {"pending"})
                        \/ LatestIs(<<startups[name].user, name>>, {"rejected", "cancelled"})
      BY DEF NeverLockedOut
    <2>1. <<startups[name].user, name>> \in Pairs
      BY <1>1 DEF IInv, GraduationTypeOK, Origins, Absent, FromAnalysis, FromGraduation, Pairs
    <2>2. PICK pair \in Pairs : pair = <<startups[name].user, name>>
      BY <2>1
    <2>3. PICK n \in DOMAIN claims[pair] : GraduationClaim(pair, n)
      BY <1>1, <2>2 DEF IInv, FounderHasClaim
    <2>4. claims[pair][n].status \in {"pending", "approved", "rejected", "cancelled"}
      BY <1>1, <2>3, ClaimTypes DEF IInv, Claim
    <2>5. claims[pair][n].status = "approved" => pair \in members
      BY <1>1, <2>3 DEF IInv, ApprovedAreMembers
    <2> QED
      BY <2>2, <2>3, <2>4, <2>5 DEF LatestIs
  <1> QED
    BY <1>1, Inductive, PTL

(* A decided claim stays as it was decided, whoever still holds its id, and *)
(* a user becomes a member of a startup in the very step that approves a    *)
(* pending claim of his, and stays one.                                     *)
THEOREM DecisionsGrantAccess == GraduationSpec => DecisionsGrant
  <1>1. [GraduationNext]_graduationVars /\ IInv => [DecisionsGrantStep]_graduationVars
    BY StepGrants
  <1> QED
    BY <1>1, Inductive, PTL DEF GraduationSpec, DecisionsGrant

(* Who has access to which startup, and which venture became which, is at  *)
(* all times what atomic founding, claiming, deciding and linking lead to: *)
(* the transactions of concurrent requests, the ids they carry from one to *)
(* the next and their deaths in between add nothing.                       *)
THEOREM ImplementsRights == GraduationSpec => ImplementsAccess
  <1>1. GraduationSpec => [](IInv /\ Rooted)
    BY InitEstablishes, NextPreserves, InitAllowed, StepAllowed, PTL DEF GraduationSpec
  <1>2. GraduationInit => Rights!Init
    BY InitAllowed
  <1>3. IInv /\ Rooted /\ [GraduationNext]_graduationVars => [Rights!Next]_(Rights!access)
    BY StepAllowed DEF Allowed
  <1> QED
    BY <1>1, <1>2, <1>3, PTL DEF GraduationSpec, ImplementsAccess, Rights!Spec
=============================================================================
