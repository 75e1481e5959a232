----------------------------- MODULE DcqlProofs -----------------------------
(***************************************************************************)
(* Proofs about the DCQL engine, for every request, wallet and limit.      *)
(***************************************************************************)
EXTENDS DcqlProperties, SequenceFacts

(* Where the loops stand: what the guards that led to a phase established  *)
(* still holds throughout it.                                              *)
Cursor ==
  /\ pc \in {"option", "multiply", "read"} => g \in DOMAIN Sets /\ IsRequired(g)
  /\ pc \in {"multiply", "read"} => /\ p \in DOMAIN out
                                    /\ o \in DOMAIN Sets[g].options
                                    /\ OptionSatisfiable(Option)
  /\ pc = "read" => /\ DOMAIN dials = DOMAIN Option
                    /\ \A k \in DOMAIN Option : dials[k] \in 1..Width(Option[k])

TInv == TypeOK /\ Cursor

-----------------------------------------------------------------------------
(* A claim a query lists is looked up as one of its claims queries. *)
LEMMA ClaimOfId ==
  ASSUME NEW query \in CredentialQuery, NEW id, HasClaim(query, id)
  PROVE  \E n \in DOMAIN query.claims :
           Claim(query, id) = query.claims[n] /\ query.claims[n].id = id
<1> DEFINE Named == {n \in DOMAIN query.claims : query.claims[n].id = id}
           IsFirst(m) == /\ query.claims[m].id = id
                         /\ \A j \in 1..(m - 1) : query.claims[j].id # id
           first == CHOOSE m \in DOMAIN query.claims : IsFirst(m)
<1>1. query.claims \in Seq(ClaimsQuery)
  BY DEF CredentialQuery
<1>2. DOMAIN query.claims = 1..Len(query.claims) /\ Len(query.claims) \in Nat
  BY <1>1
<1>3. PICK n \in Named : \A j \in 1..(n - 1) : j \notin Named
  <2>1. Named # {}
    BY DEF HasClaim
  <2> HIDE DEF Named
  <2> QED BY <1>2, <2>1, FirstPosition DEF Named
<1>4. n \in DOMAIN query.claims /\ IsFirst(n)
  <2>1. \A j \in 1..(n - 1) : j \in DOMAIN query.claims
    BY <1>2, <1>3
  <2> QED BY <1>3, <2>1
<1>5. first \in DOMAIN query.claims /\ IsFirst(first)
  <2> HIDE DEF IsFirst
  <2> QED BY <1>4
<1>6. Claim(query, id) = query.claims[first]
  BY DEF Claim
<1> HIDE DEF first
<1> QED BY <1>5, <1>6

(* The claims disclosed by a credential that can answer the query are claims *)
(* queries of it.                                                            *)
LEMMA SelectClaimsType ==
  ASSUME NEW query \in CredentialQuery, NEW content \in Content, Selectable(query, content)
  PROVE  SelectClaims(query, content) \in Seq(ClaimsQuery)
<1>1. CASE query.claim_sets = None
  BY <1>1 DEF SelectClaims, CredentialQuery
<1>2. CASE query.claim_sets # None
  <2>1. PICK i \in DOMAIN query.claim_sets : IsPreferred(query, content, i)
    BY <1>2 DEF Selectable
  <2> DEFINE best == CHOOSE n \in DOMAIN query.claim_sets : IsPreferred(query, content, n)
             option == query.claim_sets[best]
  <2>2. best \in DOMAIN query.claim_sets /\ IsPreferred(query, content, best)
    BY <2>1
  <2>3. option \in Seq(ClaimId)
    BY <1>2, <2>2 DEF CredentialQuery
  <2>4. \A k \in DOMAIN option : Claim(query, option[k]) \in ClaimsQuery
    <3>1. query.claims \in Seq(ClaimsQuery)
      BY DEF CredentialQuery
    <3>2. \A k \in DOMAIN option : HasClaim(query, option[k])
      BY <2>2 DEF IsPreferred, Deliverable
    <3> HIDE DEF option
    <3> QED BY <3>1, <3>2, ClaimOfId
  <2>5. [k \in DOMAIN option |-> Claim(query, option[k])] \in Seq(ClaimsQuery)
    <3>1. DOMAIN option = 1..Len(option) /\ Len(option) \in Nat
      BY <2>3
    <3> QED BY <2>4, <3>1, FunctionIsSequence
  <2>6. SelectClaims(query, content) = [k \in DOMAIN option |-> Claim(query, option[k])]
    BY <1>2 DEF SelectClaims
  <2> QED BY <2>5, <2>6
<1> QED BY <1>1, <1>2

LEMMA CandidateType ==
  ASSUME NEW query \in CredentialQuery, NEW credential \in Credential,
         IsCandidate(query, credential)
  PROVE  CandidateOf(query, credential) \in Candidate
<1>1. credential.content \in Content /\ credential.id \in CredentialId
  BY DEF Credential
<1> QED BY <1>1, SelectClaimsType DEF IsCandidate, CandidateOf, Candidate

(* QueryResult::query finds a query of the id it is asked for. *)
LEMMA QueryOfId ==
  ASSUME TypeOK, NEW id, HasQuery(id)
  PROVE  QueryOf(id) \in Queries /\ request.credentials[QueryOf(id)].id = id
<1> DEFINE Named == {i \in Queries : request.credentials[i].id = id}
<1>1. Queries = 1..Len(request.credentials) /\ Len(request.credentials) \in Nat
  BY DEF TypeOK, DcqlQuery, Queries
<1>2. Named # {}
  BY DEF HasQuery
<1>3. \E i \in Named : \A j \in 1..(i - 1) : j \notin Named
  BY <1>1, <1>2, FirstPosition
<1>4. \E i \in Queries : /\ request.credentials[i].id = id
                         /\ \A j \in 1..(i - 1) : request.credentials[j].id # id
  BY <1>1, <1>3
<1> QED BY <1>4 DEF QueryOf

LEMMA SetsType ==
  ASSUME TypeOK
  PROVE  /\ Sets \in Seq(CredentialSetQuery)
         /\ \A s \in DOMAIN Sets : \A k \in DOMAIN Sets[s].options :
              Sets[s].options[k] \in Seq(QueryId)
<1>1. Sets \in Seq(CredentialSetQuery)
  <2>1. CASE request.credential_sets = None
    <3>1. request.credentials \in Seq(CredentialQuery)
      BY DEF TypeOK, DcqlQuery
    <3>2. [i \in Queries |-> request.credentials[i].id] \in Seq(QueryId)
      <4>1. Queries = 1..Len(request.credentials) /\ Len(request.credentials) \in Nat
        BY <3>1 DEF Queries
      <4>2. \A i \in Queries : request.credentials[i].id \in QueryId
        <5>1. \A i \in Queries : request.credentials[i] \in CredentialQuery
          BY <3>1 DEF Queries
        <5> QED BY <5>1 DEF CredentialQuery
      <4> QED BY <4>1, <4>2, FunctionIsSequence
    <3>3. Everything \in CredentialSetQuery
      BY <3>2 DEF Everything, CredentialSetQuery
    <3> QED BY <2>1, <3>3 DEF Sets
  <2>2. CASE request.credential_sets # None
    BY <2>2 DEF TypeOK, DcqlQuery, Sets
  <2> QED BY <2>1, <2>2
<1>2. ASSUME NEW s \in DOMAIN Sets, NEW k \in DOMAIN Sets[s].options
      PROVE  Sets[s].options[k] \in Seq(QueryId)
  <2>1. Sets[s].options \in Seq(Seq(QueryId))
    <3>1. Sets[s] \in CredentialSetQuery
      BY <1>1
    <3> QED BY <3>1 DEF CredentialSetQuery
  <2> QED BY <2>1
<1> QED BY <1>1, <1>2

-----------------------------------------------------------------------------
(* Every dial of a satisfiable option has something to show. *)
LEMMA DialFacts ==
  ASSUME TypeOK, NEW id, HasQuery(id), IsSatisfied(QueryOf(id))
  PROVE  /\ CandidatesOf(id) \in Seq(Candidate)
         /\ Len(CandidatesOf(id)) \in Nat \ {0}
         /\ Width(id) \in Nat \ {0}
         /\ Width(id) <= Len(CandidatesOf(id))
<1>1. QueryOf(id) \in Queries
  BY QueryOfId
<1>2. Queries = 1..Len(request.credentials)
  BY DEF TypeOK, DcqlQuery, Queries
<1>3. candidates[QueryOf(id)] \in Seq(Candidate) /\ candidates[QueryOf(id)] # << >>
  BY <1>1, <1>2 DEF TypeOK, IsSatisfied
<1>4. Len(candidates[QueryOf(id)]) \in Nat \ {0}
  BY <1>3
<1> QED BY <1>3, <1>4 DEF CandidatesOf, Width

LEMMA OptionType ==
  ASSUME TypeOK, g \in DOMAIN Sets, o \in DOMAIN Sets[g].options
  PROVE  Option \in Seq(QueryId)
BY SetsType DEF Option

(* What the dials show is one answer per query of the option. *)
LEMMA ReadingType ==
  ASSUME TInv, pc = "read"
  PROVE  Reading \in Seq(Answer)
<1>1. Option \in Seq(QueryId) /\ OptionSatisfiable(Option)
  BY OptionType DEF TInv, Cursor
<1>2. DOMAIN Option = 1..Len(Option) /\ Len(Option) \in Nat
  BY <1>1
<1>3. ASSUME NEW k \in DOMAIN Option
      PROVE  Reading[k] \in Answer
  <2>1. /\ CandidatesOf(Option[k]) \in Seq(Candidate)
        /\ Width(Option[k]) <= Len(CandidatesOf(Option[k]))
    BY <1>1, DialFacts DEF TInv, OptionSatisfiable
  <2>2. dials[k] \in 1..Width(Option[k]) /\ Width(Option[k]) \in Nat
    BY <1>1, DialFacts DEF TInv, Cursor, OptionSatisfiable
  <2>3. CandidatesOf(Option[k])[dials[k]] \in Candidate
    BY <2>1, <2>2
  <2>4. << CandidatesOf(Option[k])[dials[k]] >> \in Seq(Candidate)
    BY <2>3
  <2>5. Option[k] \in QueryId
    BY <1>1
  <2> QED BY <2>1, <2>4, <2>5 DEF Reading, Answer
<1>4. Reading \in [1..Len(Option) -> Answer]
  BY <1>2, <1>3 DEF Reading
<1> QED BY <1>2, <1>4, FunctionIsSequence

(* Turning the dials leaves each of them within its width. *)
LEMMA TurnedInRange ==
  ASSUME TInv, pc = "read"
  PROVE  /\ Turned \in Seq(Nat) /\ DOMAIN Turned = DOMAIN Option
         /\ \A k \in DOMAIN Option : Turned[k] \in 1..Width(Option[k])
<1>1. Option \in Seq(QueryId) /\ OptionSatisfiable(Option)
  BY OptionType DEF TInv, Cursor
<1>2. DOMAIN Option = 1..Len(Option) /\ Len(Option) \in Nat
  BY <1>1
<1>3. ASSUME NEW k \in DOMAIN Option
      PROVE  Turned[k] \in 1..Width(Option[k])
  <2>1. Width(Option[k]) \in Nat \ {0}
    BY <1>1, DialFacts DEF TInv, OptionSatisfiable
  <2>2. dials[k] \in 1..Width(Option[k])
    BY DEF TInv, Cursor
  <2>3. Turned[k] \in {dials[k], 1} \/ (dials[k] # Width(Option[k]) /\ Turned[k] = dials[k] + 1)
    BY DEF Turned
  <2> QED BY <2>1, <2>2, <2>3
<1>4. DOMAIN Turned = DOMAIN Option
  BY DEF Turned
<1>5. \A k \in DOMAIN Option : Turned[k] \in Nat
  <2>1. ASSUME NEW k \in DOMAIN Option PROVE Turned[k] \in Nat
    <3>1. Width(Option[k]) \in Nat
      BY <1>1, DialFacts DEF TInv, OptionSatisfiable
    <3> QED BY <1>3, <3>1
  <2> QED BY <2>1
<1>6. Turned \in [1..Len(Option) -> Nat]
  BY <1>2, <1>4, <1>5 DEF Turned
<1> QED BY <1>2, <1>3, <1>4, <1>6, FunctionIsSequence

(* The counts stay within a usize: neither product nor sum wraps. *)
LEMMA CheckedMulType ==
  ASSUME NEW product \in Dropped, NEW width \in Nat
  PROVE  CheckedMul(product, width) \in Dropped
<1>1. product.count \in Nat /\ MaxUsize \in Nat
  BY InputsAreWellFormed DEF Dropped
<1>2. product.count * width \in Nat
  BY <1>1
<1> QED BY <1>1, <1>2 DEF CheckedMul, Dropped

LEMMA AddDroppedType ==
  ASSUME NEW a \in Dropped, NEW b \in Dropped
  PROVE  AddDropped(a, b) \in Dropped
BY InputsAreWellFormed DEF AddDropped, Dropped

LEMMA TakeType ==
  ASSUME TypeOK
  PROVE  /\ Budget \in 0..limit /\ Take \in 0..Budget /\ Take <= total.count
         /\ Skipped \in Dropped
<1>1. Len(next) \in Nat /\ limit \in Nat /\ total.count \in 0..MaxUsize /\ total.exact \in BOOLEAN
  BY InputsAreWellFormed DEF TypeOK, Dropped
<1>2. Budget \in 0..limit
  BY <1>1 DEF Budget
<1>3. Take \in 0..Budget /\ Take <= total.count
  BY <1>1, <1>2 DEF Take
<1>4. total.count - Take \in 0..MaxUsize
  BY <1>1, <1>2, <1>3, InputsAreWellFormed
<1> QED BY <1>1, <1>2, <1>3, <1>4 DEF Skipped, Dropped

LEMMA ExtendedType ==
  ASSUME TInv, pc = "read"
  PROVE  Extended(out[p]) \in Combination
<1>1. out[p] \in Combination
  BY DEF TInv, TypeOK, Cursor
<1>2. out[p].answers \in Seq(Answer) /\ out[p].purposes \in Seq(Purpose)
  BY <1>1 DEF Combination
<1>3. out[p].answers \o Reading \in Seq(Answer)
  BY <1>2, ReadingType
<1>4. Sets[g] \in CredentialSetQuery
  BY SetsType DEF TInv, Cursor
<1>5. Sets[g].purpose \in {None} \cup Purpose
  BY <1>4 DEF CredentialSetQuery
<1>6. Sets[g].purpose # None => Append(out[p].purposes, Sets[g].purpose) \in Seq(Purpose)
  BY <1>2, <1>5
<1> QED BY <1>2, <1>3, <1>6 DEF Extended, Combination

-----------------------------------------------------------------------------
LEMMA InitTInv == EngineInit => TInv
<1> SUFFICES ASSUME EngineInit PROVE TInv
  OBVIOUS
<1>1. request \in DcqlQuery /\ wallet \in Seq(Credential) /\ limit \in 0..MaxUsize
  BY InputsAreWellFormed DEF EngineInit
<1>2. request.credentials \in Seq(CredentialQuery)
  BY <1>1 DEF DcqlQuery
<1>3. candidates \in [1..Len(request.credentials) -> Seq(Candidate)]
  BY DEF EngineInit
<1>4. TypeOK
  <2>1. 0 \in 0..MaxUsize /\ 1 \in 0..MaxUsize
    BY InputsAreWellFormed
  <2>2. dropped \in Dropped /\ total \in Dropped
    BY <2>1 DEF EngineInit, Dropped
  <2>3. out \in Seq(Combination) /\ next \in Seq(Combination) /\ dials \in Seq(Nat)
    BY DEF EngineInit
  <2> QED BY <1>1, <1>3, <2>1, <2>2, <2>3 DEF EngineInit, TypeOK
<1>5. Cursor
  BY DEF EngineInit, Cursor
<1> QED BY <1>4, <1>5 DEF TInv

(* The sets, and which options can be answered, depend on the inputs and on  *)
(* the candidates alone.                                                     *)
LEMMA Stable ==
  ASSUME request' = request, candidates' = candidates
  PROVE  /\ Sets' = Sets
         /\ \A s : IsRequired(s)' <=> IsRequired(s)
         /\ \A option : OptionSatisfiable(option)' <=> OptionSatisfiable(option)
         /\ \A id : Width(id)' = Width(id)
<1>1. Queries' = Queries /\ Sets' = Sets
  BY DEF Queries, Sets, Everything
<1>2. \A id : QueryOf(id)' = QueryOf(id)
  BY <1>1 DEF QueryOf
<1>3. \A id : HasQuery(id)' <=> HasQuery(id)
  BY <1>1 DEF HasQuery
<1>4. \A i : IsSatisfied(i)' <=> IsSatisfied(i)
  BY DEF IsSatisfied
<1>5. \A option : OptionSatisfiable(option)' <=> OptionSatisfiable(option)
  BY <1>2, <1>3, <1>4 DEF OptionSatisfiable
<1>6. \A id : Width(id)' = Width(id)
  BY <1>2 DEF Width, IsMultiple, CandidatesOf
<1>7. \A s : IsRequired(s)' <=> IsRequired(s)
  BY <1>1 DEF IsRequired
<1> QED BY <1>1, <1>5, <1>6, <1>7

(* As long as the loops stay at an option, it is the same option. *)
LEMMA SameOption ==
  ASSUME request' = request, candidates' = candidates, g' = g, o' = o
  PROVE  /\ Sets' = Sets /\ Option' = Option
         /\ IsRequired(g)' <=> IsRequired(g)
         /\ OptionSatisfiable(Option)' <=> OptionSatisfiable(Option)
         /\ \A k : Width(Option[k])' = Width(Option[k])
<1>1. Sets' = Sets /\ Option' = Option
  BY Stable DEF Option
<1>2. IsRequired(g)' <=> IsRequired(g)
  BY <1>1 DEF IsRequired
<1>3. OptionSatisfiable(Option)' <=> OptionSatisfiable(Option)
  BY <1>1, Stable
<1>4. \A k : Width(Option[k])' = Width(Option[k])
  BY <1>1, Stable
<1> QED BY <1>1, <1>2, <1>3, <1>4

-----------------------------------------------------------------------------
(* Every step keeps the types and the cursors. *)
LEMMA NextTInv == TInv /\ [EngineNext]_engine => TInv'
<1> SUFFICES ASSUME TInv, [EngineNext]_engine PROVE TInv'
  OBVIOUS
<1> USE DEF TInv, inputs, evaluating, products
<1>0. /\ Queries = 1..Len(request.credentials) /\ Len(request.credentials) \in Nat
      /\ request.credentials \in Seq(CredentialQuery)
  BY DEF TypeOK, DcqlQuery, Queries
<1>1. CASE ConsiderCredential
  <2>1. request.credentials[q] \in CredentialQuery /\ wallet[c] \in Credential
    BY <1>0, <1>1 DEF ConsiderCredential, TypeOK, Queries
  <2>2. Filtered(candidates[q], request.credentials[q], wallet[c]) \in Seq(Candidate)
    <3>1. candidates[q] \in Seq(Candidate)
      BY <1>0, <1>1 DEF ConsiderCredential, TypeOK
    <3>2. CASE IsCandidate(request.credentials[q], wallet[c])
      <4>1. CandidateOf(request.credentials[q], wallet[c]) \in Candidate
        BY <2>1, <3>2, CandidateType
      <4> QED BY <3>1, <3>2, <4>1 DEF Filtered
    <3>3. CASE ~IsCandidate(request.credentials[q], wallet[c])
      BY <3>1, <3>3 DEF Filtered
    <3> QED BY <3>2, <3>3
  <2>3. candidates' \in [1..Len(request.credentials) -> Seq(Candidate)]
    BY <1>1, <2>2 DEF ConsiderCredential, TypeOK
  <2> QED BY <1>1, <2>3 DEF ConsiderCredential, TypeOK, Cursor
<1>2. CASE NextQuery
  BY <1>2 DEF NextQuery, TypeOK, Cursor
<1>3. CASE Judge
  <2>1. Verdict \in BOOLEAN
    BY DEF Verdict
  <2> QED BY <1>3, <2>1 DEF Judge, TypeOK, Cursor
<1>4. CASE OfferNothing
  BY <1>4 DEF OfferNothing, TypeOK, Cursor
<1>5. CASE BeginGroups
  <2>1. [answers |-> << >>, purposes |-> << >>] \in Combination
    BY DEF Combination
  <2>2. out' \in Seq(Combination)
    BY <1>5, <2>1 DEF BeginGroups
  <2> QED BY <1>5, <2>2 DEF BeginGroups, TypeOK, Cursor
<1>6. CASE SkipOptionalSet
  BY <1>6 DEF SkipOptionalSet, TypeOK, Cursor
<1>7. CASE EnterSet
  <2>1. TypeOK'
    BY <1>7 DEF EnterSet, TypeOK
  <2>2. g' \in DOMAIN Sets' /\ IsRequired(g)'
    BY <1>7, Stable DEF EnterSet, IsRequired
  <2> QED BY <1>7, <2>1, <2>2 DEF EnterSet, Cursor
<1>8. CASE SetsDone
  BY <1>8 DEF SetsDone, TypeOK, Cursor
<1>9. CASE NextPartial
  <2>1. TypeOK'
    BY <1>9 DEF NextPartial, TypeOK
  <2>2. g' \in DOMAIN Sets' /\ IsRequired(g)'
    BY <1>9, Stable DEF NextPartial, IsRequired, Cursor
  <2> QED BY <1>9, <2>1, <2>2 DEF NextPartial, Cursor
<1>10. CASE LeaveSet
  BY <1>10 DEF LeaveSet, TypeOK, Cursor
<1>11. CASE SkipOption
  <2>1. TypeOK'
    BY <1>11 DEF SkipOption, TypeOK
  <2>2. g' \in DOMAIN Sets' /\ IsRequired(g)'
    BY <1>11, Stable DEF SkipOption, IsRequired, Cursor
  <2> QED BY <1>11, <2>1, <2>2 DEF SkipOption, Cursor
<1>12. CASE OpenOption
  <2>1. TypeOK'
    BY <1>12, InputsAreWellFormed DEF OpenOption, TypeOK, Dropped
  <2>2. Cursor'
    BY <1>12, SameOption DEF OpenOption, Cursor
  <2> QED BY <2>1, <2>2
<1>13. CASE MultiplyWidth
  <2>1. Option \in Seq(QueryId) /\ OptionSatisfiable(Option)
    BY <1>13, OptionType DEF MultiplyWidth, Cursor
  <2>2. Width(Option[d]) \in Nat
    BY <1>13, <2>1, DialFacts DEF MultiplyWidth, OptionSatisfiable
  <2>3. total' \in Dropped
    BY <1>13, <2>2, CheckedMulType DEF MultiplyWidth, TypeOK
  <2>4. TypeOK'
    BY <1>13, <2>3 DEF MultiplyWidth, TypeOK
  <2>5. Cursor'
    BY <1>13, SameOption DEF MultiplyWidth, Cursor
  <2> QED BY <2>4, <2>5
<1>14. CASE SetDials
  <2>1. Option \in Seq(QueryId) /\ OptionSatisfiable(Option)
    BY <1>14, OptionType DEF SetDials, Cursor
  <2>2. \A k \in DOMAIN Option : Width(Option[k]) \in Nat \ {0}
    BY <2>1, DialFacts DEF OptionSatisfiable
  <2>3. dials' \in Seq(Nat) /\ DOMAIN dials' = DOMAIN Option
    <3>1. dials' \in [1..Len(Option) -> Nat] /\ Len(Option) \in Nat
      BY <1>14, <2>1 DEF SetDials
    <3> QED BY <1>14, <3>1, FunctionIsSequence DEF SetDials
  <2>4. dropped' \in Dropped /\ left' \in 0..MaxUsize
    BY <1>14, TakeType, AddDroppedType, InputsAreWellFormed DEF SetDials, TypeOK
  <2>5. TypeOK'
    BY <1>14, <2>3, <2>4 DEF SetDials, TypeOK
  <2>6. \A k \in DOMAIN Option : dials'[k] \in 1..Width(Option[k])
    BY <1>14, <2>2 DEF SetDials
  <2>7. Cursor'
    BY <1>14, <2>3, <2>6, SameOption DEF SetDials, Cursor
  <2> QED BY <2>5, <2>7
<1>15. CASE ReadDials
  <2>1. next' \in Seq(Combination)
    BY <1>15, ExtendedType DEF ReadDials, TypeOK
  <2>2. left' \in 0..MaxUsize
    BY <1>15, InputsAreWellFormed DEF ReadDials, TypeOK
  <2>3. TypeOK'
    BY <1>15, <2>1, <2>2, TurnedInRange DEF ReadDials, TypeOK
  <2>4. Cursor'
    BY <1>15, TurnedInRange, SameOption DEF ReadDials, Cursor
  <2> QED BY <2>3, <2>4
<1>16. CASE CloseOption
  <2>1. TypeOK'
    BY <1>16 DEF CloseOption, TypeOK
  <2>2. g' \in DOMAIN Sets' /\ IsRequired(g)'
    BY <1>16, Stable DEF CloseOption, IsRequired, Cursor
  <2> QED BY <1>16, <2>1, <2>2 DEF CloseOption, Cursor
<1>17. CASE UNCHANGED engine
  <2>1. TypeOK'
    BY <1>17 DEF engine, TypeOK
  <2>2. Cursor'
    BY <1>17, SameOption DEF engine, Cursor
  <2> QED BY <2>1, <2>2
<1> QED
  BY <1>1, <1>2, <1>3, <1>4, <1>5, <1>6, <1>7, <1>8, <1>9, <1>10, <1>11, <1>12, <1>13,
     <1>14, <1>15, <1>16, <1>17 DEF EngineNext, Returned

(* The types, for every request, wallet and limit: in particular no count    *)
(* ever leaves usize and no dial ever points outside its candidates.         *)
THEOREM TypeCorrect == EngineSpec => []TypeOK
<1>1. TInv => TypeOK
  BY DEF TInv
<1> QED BY <1>1, InitTInv, NextTInv, PTL DEF EngineSpec

-----------------------------------------------------------------------------
(* The limit. The strengthening relates what is built to what is still to be *)
(* read, and says that the list of partials, which starts with one member    *)
(* whatever the limit, is within it as soon as one required set is behind.   *)
Enumerating == pc \in {"group", "option", "multiply", "read"}

SomeRequiredBefore(n) == \E s \in DOMAIN Sets : s < n /\ IsRequired(s)

LInv ==
  /\ g >= 1
  /\ Len(next) <= limit
  /\ pc = "read" => Len(next) + left <= limit
  /\ pc \in {"evaluate", "combine"} => g = 1 /\ out = << >> /\ next = << >>
  /\ Enumerating => /\ satisfiable
                    /\ \E s \in DOMAIN Sets : IsRequired(s)
                    /\ SomeRequiredBefore(g) => Len(out) <= limit
  /\ pc = "done" => Len(out) <= limit

LEMMA InitLInv == EngineInit => LInv
<1> SUFFICES ASSUME EngineInit PROVE LInv
  OBVIOUS
<1>1. limit \in 0..MaxUsize
  BY InputsAreWellFormed DEF EngineInit
<1> QED BY <1>1, InputsAreWellFormed DEF EngineInit, LInv, Enumerating

LEMMA NextLInv == TInv /\ LInv /\ [EngineNext]_engine => LInv'
<1> SUFFICES ASSUME TInv, LInv, [EngineNext]_engine PROVE LInv'
  OBVIOUS
<1> USE DEF TInv, inputs, evaluating, products
<1>0. /\ g \in Nat /\ Len(next) \in Nat /\ Len(out) \in Nat /\ limit \in Nat /\ left \in Nat
      /\ DOMAIN Sets = 1..Len(Sets) /\ Len(Sets) \in Nat
  <2>1. Sets \in Seq(CredentialSetQuery)
    BY SetsType
  <2> QED BY <2>1, InputsAreWellFormed DEF TypeOK
<1>1. CASE ConsiderCredential
  BY <1>1 DEF ConsiderCredential, LInv, Enumerating
<1>2. CASE NextQuery
  BY <1>2 DEF NextQuery, LInv, Enumerating
<1>3. CASE Judge
  BY <1>3 DEF Judge, LInv, Enumerating
<1>4. CASE OfferNothing
  BY <1>0, <1>4 DEF OfferNothing, LInv, Enumerating
<1>a. ASSUME request' = request, candidates' = candidates
      PROVE  /\ Sets' = Sets
             /\ (\E s \in DOMAIN Sets : IsRequired(s))' <=> \E s \in DOMAIN Sets : IsRequired(s)
             /\ g' = g => (SomeRequiredBefore(g)' <=> SomeRequiredBefore(g))
             /\ g' = g + 1 => (SomeRequiredBefore(g)' =>
                                 SomeRequiredBefore(g) \/ (g \in DOMAIN Sets /\ IsRequired(g)))
  BY <1>0, <1>a, Stable DEF SomeRequiredBefore, IsRequired
<1>5. CASE BeginGroups
  BY <1>0, <1>5, <1>a DEF BeginGroups, LInv, Enumerating, SomeRequiredBefore
<1>6. CASE SkipOptionalSet
  BY <1>0, <1>6, <1>a DEF SkipOptionalSet, LInv, Enumerating
<1>7. CASE EnterSet
  BY <1>0, <1>7, <1>a DEF EnterSet, LInv, Enumerating
<1>8. CASE SetsDone
  <2>1. SomeRequiredBefore(g)
    BY <1>0, <1>8 DEF SetsDone, LInv, Enumerating, SomeRequiredBefore
  <2> QED BY <1>8, <2>1 DEF SetsDone, LInv, Enumerating
<1>9. CASE NextPartial
  BY <1>9, <1>a DEF NextPartial, LInv, Enumerating
<1>10. CASE LeaveSet
  BY <1>0, <1>10, <1>a DEF LeaveSet, LInv, Enumerating
<1>11. CASE SkipOption
  BY <1>11, <1>a DEF SkipOption, LInv, Enumerating
<1>12. CASE OpenOption
  BY <1>12, <1>a DEF OpenOption, LInv, Enumerating
<1>13. CASE MultiplyWidth
  BY <1>13, <1>a DEF MultiplyWidth, LInv, Enumerating
<1>14. CASE SetDials
  <2>1. Take \in Nat /\ Len(next) + Take <= limit
    BY <1>0, TakeType DEF Budget, LInv
  <2> QED BY <1>14, <1>a, <2>1 DEF SetDials, LInv, Enumerating
<1>15. CASE ReadDials
  <2>1. Len(next') = Len(next) + 1
    BY <1>15, ExtendedType DEF ReadDials, TypeOK
  <2> QED BY <1>0, <1>15, <1>a, <2>1 DEF ReadDials, LInv, Enumerating
<1>16. CASE CloseOption
  BY <1>16, <1>a DEF CloseOption, LInv, Enumerating
<1>17. CASE UNCHANGED engine
  BY <1>17, <1>a DEF engine, LInv, Enumerating
<1> QED
  BY <1>1, <1>2, <1>3, <1>4, <1>5, <1>6, <1>7, <1>8, <1>9, <1>10, <1>11, <1>12, <1>13,
     <1>14, <1>15, <1>16, <1>17 DEF EngineNext, Returned

(* No caller is ever handed, and no set ever accumulates, more combinations  *)
(* than the limit it asked for.                                              *)
THEOREM LimitRespected == EngineSpec => []WithinLimit
<1>1. LInv => WithinLimit
  BY DEF LInv, WithinLimit
<1> QED BY <1>1, InitTInv, NextTInv, InitLInv, NextLInv, PTL DEF EngineSpec

-----------------------------------------------------------------------------
(* Honest answers. The strengthening says of the candidates what the theorem *)
(* says of the combinations read off them, and that once combinations exist  *)
(* the candidates no longer change.                                          *)
Accepted(candidate, i) ==
  \E w \in DOMAIN wallet :
    /\ IsCandidate(request.credentials[i], wallet[w])
    /\ candidate = CandidateOf(request.credentials[i], wallet[w])

Honoured(combination) ==
  \A k \in DOMAIN combination.answers : \E i \in Queries : Honours(combination.answers[k], i)

AInv ==
  /\ \A i \in Queries : \A n \in DOMAIN candidates[i] : Accepted(candidates[i][n], i)
  /\ pc = "evaluate" => out = << >> /\ next = << >>
  /\ \A n \in DOMAIN out : Honoured(out[n])
  /\ \A n \in DOMAIN next : Honoured(next[n])

LEMMA AInvIsHonoured == AInv => OnlyHonouredAnswers
BY DEF AInv, OnlyHonouredAnswers, Honoured, ToSet

LEMMA InitAInv == EngineInit => AInv
BY DEF EngineInit, AInv, Queries

(* What the dials show answers the option's queries honestly. *)
LEMMA ReadingHonoured ==
  ASSUME TInv, AInv, pc = "read", NEW k \in DOMAIN Option
  PROVE  Reading[k].id = Option[k] /\ Honours(Reading[k], QueryOf(Option[k]))
<1> DEFINE i == QueryOf(Option[k])
<1>1. OptionSatisfiable(Option)
  BY DEF TInv, Cursor
<1>2. HasQuery(Option[k]) /\ IsSatisfied(i)
  BY <1>1 DEF OptionSatisfiable
<1>3. i \in Queries /\ request.credentials[i].id = Option[k]
  BY <1>2, QueryOfId DEF TInv
<1>4. \A n \in DOMAIN candidates[i] : Accepted(candidates[i][n], i)
  BY <1>3 DEF AInv
<1>5. /\ Len(candidates[i]) \in Nat
      /\ candidates[i] \in Seq(Candidate)
      /\ Width(Option[k]) <= Len(candidates[i])
      /\ Width(Option[k]) \in Nat
  BY <1>2, DialFacts DEF TInv, CandidatesOf
<1>6. dials[k] \in DOMAIN candidates[i]
  BY <1>5 DEF TInv, Cursor
<1>7. Reading[k] = [id |-> Option[k],
                    picked |-> IF request.credentials[i].multiple THEN candidates[i]
                               ELSE << candidates[i][dials[k]] >>]
  BY DEF Reading, IsMultiple, CandidatesOf
<1> HIDE DEF i
<1>8. \A n \in DOMAIN Reading[k].picked : Accepted(Reading[k].picked[n], i)
  <2>1. CASE request.credentials[i].multiple
    BY <1>4, <1>7, <2>1
  <2>2. CASE ~request.credentials[i].multiple
    <3>1. Reading[k].picked = << candidates[i][dials[k]] >>
      BY <1>7, <2>2
    <3>2. Accepted(candidates[i][dials[k]], i)
      BY <1>4, <1>6
    <3> QED BY <3>1, <3>2
  <2> QED BY <2>1, <2>2
<1>9. candidates[i] # << >>
  BY <1>6
<1>10. Honours(Reading[k], i)
  BY <1>3, <1>7, <1>8, <1>9 DEF Honours, Accepted
<1> QED BY <1>7, <1>10 DEF i

LEMMA ExtendedHonoured ==
  ASSUME TInv, AInv, pc = "read"
  PROVE  Honoured(Extended(out[p]))
<1>1. out[p] \in Combination /\ Honoured(out[p])
  BY DEF TInv, TypeOK, Cursor, AInv
<1>2. out[p].answers \in Seq(Answer) /\ Reading \in Seq(Answer)
  BY <1>1, ReadingType DEF Combination
<1>3. Extended(out[p]).answers = out[p].answers \o Reading
  BY DEF Extended
<1>4. \A k \in DOMAIN Reading : \E i \in Queries : Honours(Reading[k], i)
  <2>1. ASSUME NEW k \in DOMAIN Reading
        PROVE  \E i \in Queries : Honours(Reading[k], i)
    <3>1. k \in DOMAIN Option
      BY DEF Reading
    <3>2. OptionSatisfiable(Option)
      BY DEF TInv, Cursor
    <3>3. QueryOf(Option[k]) \in Queries
      BY <3>1, <3>2, QueryOfId DEF TInv, OptionSatisfiable
    <3> QED BY <3>1, <3>3, ReadingHonoured
  <2> QED BY <2>1
<1>5. ASSUME NEW k \in DOMAIN (out[p].answers \o Reading)
      PROVE  \/ k \in DOMAIN out[p].answers /\ (out[p].answers \o Reading)[k] = out[p].answers[k]
             \/ \E j \in DOMAIN Reading : (out[p].answers \o Reading)[k] = Reading[j]
  <2>1. CASE k <= Len(out[p].answers)
    BY <1>2, <1>5, <2>1
  <2>2. CASE k > Len(out[p].answers)
    <3>1. k - Len(out[p].answers) \in DOMAIN Reading
      BY <1>2, <1>5, <2>2
    <3> QED BY <1>2, <1>5, <2>2, <3>1
  <2> QED BY <1>2, <2>1, <2>2
<1> QED BY <1>1, <1>3, <1>4, <1>5 DEF Honoured

(* Honesty depends on the inputs and the candidates alone. *)
LEMMA StableHonesty ==
  ASSUME request' = request, wallet' = wallet, candidates' = candidates
  PROVE  /\ \A combination : Honoured(combination)' <=> Honoured(combination)
         /\ \A candidate, i : Accepted(candidate, i)' <=> Accepted(candidate, i)
         /\ Queries' = Queries
BY DEF Honoured, Honours, Accepted, Queries

LEMMA NextAInv == TInv /\ AInv /\ [EngineNext]_engine => AInv'
<1> SUFFICES ASSUME TInv, AInv, [EngineNext]_engine PROVE AInv'
  OBVIOUS
<1> USE DEF TInv, inputs, evaluating, products
<1>1. CASE ConsiderCredential
  <2>0. /\ q \in Queries /\ Queries = 1..Len(request.credentials) /\ candidates[q] \in Seq(Candidate)
        /\ candidates \in [1..Len(request.credentials) -> Seq(Candidate)]
    BY <1>1 DEF ConsiderCredential, TypeOK, Queries, DcqlQuery
  <2> DEFINE query == request.credentials[q]
             added == CandidateOf(query, wallet[c])
  <2>1. CASE IsCandidate(query, wallet[c])
    <3>1. candidates' = [candidates EXCEPT ![q] = Append(candidates[q], added)]
      BY <1>1, <2>1 DEF ConsiderCredential, Filtered
    <3>2. added \in Candidate
      <4>1. request.credentials[q] \in CredentialQuery /\ wallet[c] \in Credential
        BY <1>1, <2>0 DEF ConsiderCredential, TypeOK, DcqlQuery
      <4> QED BY <2>1, <4>1, CandidateType
    <3>3. Accepted(added, q)
      BY <1>1, <2>1 DEF ConsiderCredential, Accepted
    <3> HIDE DEF added, query
    <3>4. ASSUME NEW i \in Queries, NEW n \in DOMAIN candidates'[i]
          PROVE  Accepted(candidates'[i][n], i)
      <4>1. CASE i # q
        BY <2>0, <3>1, <3>4, <4>1 DEF AInv
      <4>2. CASE i = q
        <5>1. candidates'[i] = Append(candidates[q], added)
          BY <2>0, <3>1, <4>2
        <5>2. \/ n \in DOMAIN candidates[q] /\ candidates'[i][n] = candidates[q][n]
              \/ candidates'[i][n] = added
          BY <2>0, <3>2, <3>4, <5>1
        <5> QED BY <2>0, <3>3, <4>2, <5>2 DEF AInv
      <4> QED BY <4>1, <4>2
    <3>5. Queries' = Queries /\ \A x, i : Accepted(x, i)' <=> Accepted(x, i)
      BY <1>1 DEF ConsiderCredential, Queries, Accepted
    <3> QED BY <1>1, <3>4, <3>5 DEF ConsiderCredential, AInv
  <2>2. CASE ~IsCandidate(query, wallet[c])
    <3>1. candidates' = candidates
      BY <1>1, <2>0, <2>2 DEF ConsiderCredential, Filtered
    <3> QED BY <1>1, <3>1, StableHonesty DEF ConsiderCredential, AInv
  <2> QED BY <2>1, <2>2
<1>2. CASE NextQuery
  BY <1>2, StableHonesty DEF NextQuery, AInv
<1>3. CASE Judge
  BY <1>3, StableHonesty DEF Judge, AInv
<1>4. CASE OfferNothing
  BY <1>4, StableHonesty DEF OfferNothing, AInv
<1>5. CASE BeginGroups
  <2>1. out' = << [answers |-> << >>, purposes |-> << >>] >>
    BY <1>5 DEF BeginGroups
  <2>2. \A n \in DOMAIN out' : Honoured(out'[n])
    BY <2>1 DEF Honoured
  <2> QED BY <1>5, <2>2, StableHonesty DEF BeginGroups, AInv
<1>6. CASE SkipOptionalSet
  BY <1>6, StableHonesty DEF SkipOptionalSet, AInv
<1>7. CASE EnterSet
  BY <1>7, StableHonesty DEF EnterSet, AInv
<1>8. CASE SetsDone
  BY <1>8, StableHonesty DEF SetsDone, AInv
<1>9. CASE NextPartial
  BY <1>9, StableHonesty DEF NextPartial, AInv
<1>10. CASE LeaveSet
  BY <1>10, StableHonesty DEF LeaveSet, AInv
<1>11. CASE SkipOption
  BY <1>11, StableHonesty DEF SkipOption, AInv
<1>12. CASE OpenOption
  BY <1>12, StableHonesty DEF OpenOption, AInv
<1>13. CASE MultiplyWidth
  BY <1>13, StableHonesty DEF MultiplyWidth, AInv
<1>14. CASE SetDials
  BY <1>14, StableHonesty DEF SetDials, AInv
<1>15. CASE ReadDials
  <2>1. next \in Seq(Combination) /\ Extended(out[p]) \in Combination /\ Honoured(Extended(out[p]))
    BY <1>15, ExtendedType, ExtendedHonoured DEF ReadDials, TypeOK
  <2>2. \A n \in DOMAIN next' : (n \in DOMAIN next /\ next'[n] = next[n]) \/ next'[n] = Extended(out[p])
    BY <1>15, <2>1 DEF ReadDials
  <2>3. \A n \in DOMAIN next' : Honoured(next'[n])
    BY <2>1, <2>2 DEF AInv
  <2> QED BY <1>15, <2>3, StableHonesty DEF ReadDials, AInv
<1>16. CASE CloseOption
  BY <1>16, StableHonesty DEF CloseOption, AInv
<1>17. CASE UNCHANGED engine
  BY <1>17, StableHonesty DEF engine, AInv
<1> QED
  BY <1>1, <1>2, <1>3, <1>4, <1>5, <1>6, <1>7, <1>8, <1>9, <1>10, <1>11, <1>12, <1>13,
     <1>14, <1>15, <1>16, <1>17 DEF EngineNext, Returned

(* Nothing the wallet shows for a query is a credential that query did not   *)
(* accept: unbound where binding is required, of the wrong format, or short  *)
(* of a claim; and only a `multiple` query is shown more than one.           *)
THEOREM AnswersAreHonoured == EngineSpec => []OnlyHonouredAnswers
BY AInvIsHonoured, InitTInv, NextTInv, InitAInv, NextAInv, PTL DEF EngineSpec

-----------------------------------------------------------------------------
(* Claims. A claim resolves when the credential holds it, and an option can   *)
(* be delivered, by the claims queries its ids name, only if the credential   *)
(* holds a claim of each id; with unique ids, exactly then.                   *)
LEMMA ResolvesIsHolds ==
  ASSUME NEW claim, NEW content
  PROVE  Resolves(claim, content) <=> Holds(content, claim)
BY DEF Resolves, Holds

LEMMA DeliverableIsCanDeliver ==
  ASSUME NEW query \in CredentialQuery, NEW content, NEW option \in Seq(ClaimId),
         UniqueClaimIds(query)
  PROVE  Deliverable(query, option, content) <=> CanDeliver(query, content, option)
<1>1. ASSUME Deliverable(query, option, content), NEW k \in DOMAIN option
      PROVE  \E n \in DOMAIN query.claims :
                query.claims[n].id = option[k] /\ Holds(content, query.claims[n])
  <2>1. HasClaim(query, option[k]) /\ Resolves(Claim(query, option[k]), content)
    BY <1>1 DEF Deliverable
  <2> QED BY <2>1, ClaimOfId, ResolvesIsHolds
<1>2. ASSUME CanDeliver(query, content, option), NEW k \in DOMAIN option
      PROVE  HasClaim(query, option[k]) /\ Resolves(Claim(query, option[k]), content)
  <2>1. PICK n \in DOMAIN query.claims :
          query.claims[n].id = option[k] /\ Holds(content, query.claims[n])
    BY <1>2 DEF CanDeliver
  <2>2. HasClaim(query, option[k])
    BY <2>1 DEF HasClaim
  <2>3. PICK m \in DOMAIN query.claims :
          Claim(query, option[k]) = query.claims[m] /\ query.claims[m].id = option[k]
    BY <2>2, ClaimOfId
  <2>4. m = n
    BY <2>1, <2>3, NoneIsAbsent DEF UniqueClaimIds
  <2> QED BY <2>1, <2>2, <2>3, <2>4, ResolvesIsHolds
<1> QED BY <1>1, <1>2 DEF Deliverable, CanDeliver

(* What select_claims discloses, and when there is something to disclose. *)
LEMMA DisclosedClaims ==
  ASSUME NEW query \in CredentialQuery, NEW content \in Content, Selectable(query, content)
  PROVE  LET claims == SelectClaims(query, content)
         IN /\ \A m \in DOMAIN claims : Holds(content, claims[m])
            /\ query.claim_sets = None => claims = query.claims
            /\ query.claim_sets # None =>
                 \E k \in DOMAIN query.claim_sets :
                   /\ Ids(claims) = query.claim_sets[k]
                   /\ UniqueClaimIds(query) =>
                        \A j \in 1..(k - 1) : ~CanDeliver(query, content, query.claim_sets[j])
<1>1. CASE query.claim_sets = None
  BY <1>1, ResolvesIsHolds DEF SelectClaims, Selectable
<1>2. CASE query.claim_sets # None
  <2> DEFINE best == CHOOSE n \in DOMAIN query.claim_sets : IsPreferred(query, content, n)
             option == query.claim_sets[best]
             claims == SelectClaims(query, content)
  <2>1. best \in DOMAIN query.claim_sets /\ IsPreferred(query, content, best)
    BY <1>2 DEF Selectable
  <2>2. /\ query.claim_sets \in Seq(Seq(ClaimId))
        /\ \A j \in DOMAIN query.claim_sets : query.claim_sets[j] \in Seq(ClaimId)
    BY <1>2 DEF CredentialQuery
  <2>3. claims = [k \in DOMAIN option |-> Claim(query, option[k])]
    BY <1>2 DEF SelectClaims
  <2> HIDE DEF best, claims
  <2>4. \A k \in DOMAIN option : /\ HasClaim(query, option[k])
                                 /\ Resolves(Claim(query, option[k]), content)
    BY <2>1 DEF IsPreferred, Deliverable
  <2>5. \A m \in DOMAIN claims : Holds(content, claims[m])
    BY <2>3, <2>4, ResolvesIsHolds
  <2>6. Ids(claims) = option
    <3>1. \A k \in DOMAIN option : claims[k].id = option[k]
      BY <2>3, <2>4, ClaimOfId
    <3>2. option \in Seq(ClaimId)
      BY <2>1, <2>2
    <3>3. option = [k \in DOMAIN option |-> option[k]]
      BY <3>2
    <3> HIDE DEF option
    <3> QED BY <2>3, <3>1, <3>3 DEF Ids
  <2>7. ASSUME UniqueClaimIds(query), NEW j \in 1..(best - 1)
        PROVE  ~CanDeliver(query, content, query.claim_sets[j])
    <3>1. j \in DOMAIN query.claim_sets
      BY <2>1, <2>2
    <3> QED BY <2>1, <2>2, <2>7, <3>1, DeliverableIsCanDeliver DEF IsPreferred
  <2> QED BY <1>2, <2>1, <2>5, <2>6, <2>7 DEF claims
<1> QED BY <1>1, <1>2

LEMMA AInvDiscloses == TInv /\ AInv => DisclosesPreferredOption
<1> SUFFICES ASSUME TInv, AInv, NEW i \in Queries, NEW n \in DOMAIN candidates[i]
             PROVE  \E w \in DOMAIN wallet :
    LET query == request.credentials[i]
        claims == candidates[i][n].claims
    IN /\ wallet[w].id = candidates[i][n].credential_id
       /\ query.require_binding => wallet[w].bound
       /\ \A m \in DOMAIN claims : Holds(wallet[w].content, claims[m])
       /\ IF query.claim_sets = None THEN claims = query.claims
          ELSE \E k \in DOMAIN query.claim_sets :
                 /\ Ids(claims) = query.claim_sets[k]
                 /\ UniqueClaimIds(query) =>
                      \A j \in 1..(k - 1) :
                        ~CanDeliver(query, wallet[w].content, query.claim_sets[j])
  BY DEF DisclosesPreferredOption
<1> DEFINE query == request.credentials[i]
<1>1. query \in CredentialQuery
  BY DEF TInv, TypeOK, DcqlQuery, Queries
<1>2. PICK w \in DOMAIN wallet : /\ IsCandidate(query, wallet[w])
                                 /\ candidates[i][n] = CandidateOf(query, wallet[w])
  BY DEF AInv, Accepted
<1>3. wallet[w].content \in Content
  <2>1. wallet[w] \in Credential
    BY DEF TInv, TypeOK
  <2> QED BY <2>1 DEF Credential
<1>4. /\ candidates[i][n].credential_id = wallet[w].id
      /\ candidates[i][n].claims = SelectClaims(query, wallet[w].content)
      /\ query.require_binding => wallet[w].bound
      /\ Selectable(query, wallet[w].content)
  BY <1>2 DEF IsCandidate, CandidateOf
<1> HIDE DEF query
<1> QED BY <1>1, <1>3, <1>4, DisclosedClaims DEF query

(* What a candidate discloses is what the credential has, and exactly the    *)
(* option the verifier prefers among those it can deliver (§6.4.1).          *)
THEOREM PreferredOptionDisclosed == EngineSpec => []DisclosesPreferredOption
BY AInvDiscloses, InitTInv, NextTInv, InitAInv, NextAInv, PTL DEF EngineSpec

-----------------------------------------------------------------------------
(* Nobody is left out. Inductively: of the pairs the loops of execute have    *)
(* passed, every acceptable one is among the candidates.                      *)
Passed(i, w) == i < q \/ (i = q /\ w < c)

EInv ==
  /\ q >= 1 /\ c >= 1
  /\ pc # "evaluate" => q > Len(request.credentials)
  /\ \A i \in Queries : \A w \in DOMAIN wallet :
       Passed(i, w) /\ IsCandidate(request.credentials[i], wallet[w]) =>
         \E n \in DOMAIN candidates[i] : candidates[i][n].credential_id = wallet[w].id

LEMMA AbleIsSelectable ==
  ASSUME NEW query \in CredentialQuery, NEW content,
         query.claim_sets = None => \A n \in DOMAIN query.claims : Holds(content, query.claims[n]),
         query.claim_sets # None =>
           /\ query.claims # << >>
           /\ UniqueClaimIds(query)
           /\ \E k \in DOMAIN query.claim_sets : CanDeliver(query, content, query.claim_sets[k])
  PROVE  Selectable(query, content)
<1>1. CASE query.claim_sets = None
  BY <1>1, ResolvesIsHolds DEF Selectable
<1>2. CASE query.claim_sets # None
  <2> DEFINE Able == {k \in DOMAIN query.claim_sets :
                        Deliverable(query, query.claim_sets[k], content)}
  <2>1. /\ \A k \in DOMAIN query.claim_sets : query.claim_sets[k] \in Seq(ClaimId)
        /\ DOMAIN query.claim_sets = 1..Len(query.claim_sets)
        /\ Len(query.claim_sets) \in Nat
    <3>1. query.claim_sets \in Seq(Seq(ClaimId))
      BY <1>2 DEF CredentialQuery
    <3> QED BY <3>1
  <2>2. Able # {}
    BY <1>2, <2>1, DeliverableIsCanDeliver
  <2>3. PICK k \in Able : \A j \in 1..(k - 1) : j \notin Able
    <3> HIDE DEF Able
    <3> QED BY <2>1, <2>2, FirstPosition DEF Able
  <2>4. \A j \in 1..(k - 1) : j \in DOMAIN query.claim_sets
    BY <2>1, <2>3
  <2>5. IsPreferred(query, content, k)
    BY <2>3, <2>4 DEF IsPreferred
  <2> QED BY <1>2, <2>3, <2>5 DEF Selectable
<1> QED BY <1>1, <1>2

LEMMA EInvLeavesNobodyOut == TInv /\ EInv => AbleCredentialsAreCandidates
<1> SUFFICES ASSUME TInv, EInv, pc = "combine", NEW i \in Queries, NEW w \in DOMAIN wallet,
                    Matches(request.credentials[i], wallet[w]),
                    request.credentials[i].require_binding => wallet[w].bound,
                    IF request.credentials[i].claim_sets = None
                    THEN \A n \in DOMAIN request.credentials[i].claims :
                           Holds(wallet[w].content, request.credentials[i].claims[n])
                    ELSE /\ request.credentials[i].claims # << >>
                         /\ UniqueClaimIds(request.credentials[i])
                         /\ \E k \in DOMAIN request.credentials[i].claim_sets :
                              CanDeliver(request.credentials[i], wallet[w].content,
                                         request.credentials[i].claim_sets[k])
             PROVE  \E n \in DOMAIN candidates[i] : candidates[i][n].credential_id = wallet[w].id
  BY DEF AbleCredentialsAreCandidates
<1>1. request.credentials[i] \in CredentialQuery
  BY DEF TInv, TypeOK, DcqlQuery, Queries
<1>2. IsCandidate(request.credentials[i], wallet[w])
  BY <1>1, AbleIsSelectable DEF IsCandidate
<1>3. Passed(i, w)
  BY DEF Passed, EInv, TInv, TypeOK, Queries, DcqlQuery
<1> QED BY <1>2, <1>3 DEF EInv

LEMMA InitEInv == EngineInit => EInv
<1> SUFFICES ASSUME EngineInit PROVE EInv
  OBVIOUS
<1>1. request \in DcqlQuery /\ wallet \in Seq(Credential)
  BY InputsAreWellFormed DEF EngineInit
<1>2. \A i \in Queries : \A w \in DOMAIN wallet : ~Passed(i, w)
  BY <1>1 DEF EngineInit, Passed, Queries, DcqlQuery
<1> QED BY <1>2 DEF EngineInit, EInv

LEMMA NextEInv == TInv /\ EInv /\ [EngineNext]_engine => EInv'
<1> SUFFICES ASSUME TInv, EInv, [EngineNext]_engine PROVE EInv'
  OBVIOUS
<1> USE DEF inputs, evaluating, products
<1>0. /\ Queries = 1..Len(request.credentials) /\ Len(request.credentials) \in Nat
      /\ q \in Nat /\ c \in Nat /\ DOMAIN wallet = 1..Len(wallet) /\ Len(wallet) \in Nat
  BY DEF TInv, TypeOK, DcqlQuery, Queries
<1>1. CASE ConsiderCredential
  <2> DEFINE added == CandidateOf(request.credentials[q], wallet[c])
             fits == IsCandidate(request.credentials[q], wallet[c])
  <2>1. /\ q \in Queries /\ c \in DOMAIN wallet /\ candidates[q] \in Seq(Candidate)
        /\ candidates \in [1..Len(request.credentials) -> Seq(Candidate)]
        /\ q' = q /\ c' = c + 1 /\ pc' = pc /\ pc = "evaluate"
        /\ request' = request /\ wallet' = wallet
    BY <1>0, <1>1 DEF ConsiderCredential, TInv, TypeOK
  <2>2. ASSUME NEW i \in Queries, NEW n \in DOMAIN candidates[i]
        PROVE  n \in DOMAIN candidates'[i] /\ candidates'[i][n] = candidates[i][n]
    <3>1. CASE fits /\ i = q
      <4>1. candidates'[q] = Append(candidates[q], added)
        BY <1>0, <1>1, <2>1, <3>1 DEF ConsiderCredential, Filtered
      <4>2. n \in 1..Len(candidates[q])
        BY <2>1, <2>2, <3>1
      <4> HIDE DEF added
      <4> QED BY <2>1, <3>1, <4>1, <4>2
    <3>2. CASE ~(fits /\ i = q)
      BY <1>0, <1>1, <2>1, <3>2 DEF ConsiderCredential, Filtered
    <3> QED BY <3>1, <3>2
  <2>3. fits => \E n \in DOMAIN candidates'[q] : candidates'[q][n].credential_id = wallet[c].id
    <3> SUFFICES ASSUME fits
                 PROVE  \E n \in DOMAIN candidates'[q] :
                          candidates'[q][n].credential_id = wallet[c].id
      OBVIOUS
    <3>1. candidates'[q] = Append(candidates[q], added)
      BY <1>0, <1>1, <2>1 DEF ConsiderCredential, Filtered
    <3>2. added.credential_id = wallet[c].id
      BY DEF CandidateOf
    <3> HIDE DEF added
    <3>3. /\ Len(candidates[q]) + 1 \in DOMAIN candidates'[q]
          /\ candidates'[q][Len(candidates[q]) + 1] = added
      BY <2>1, <3>1
    <3> QED BY <3>2, <3>3
  <2>4. ASSUME NEW i \in Queries, NEW w \in DOMAIN wallet, Passed(i, w)',
               IsCandidate(request.credentials[i], wallet[w])
        PROVE  \E n \in DOMAIN candidates'[i] : candidates'[i][n].credential_id = wallet[w].id
    <3>1. CASE Passed(i, w)
      BY <2>2, <2>4, <3>1 DEF EInv
    <3>2. CASE ~Passed(i, w)
      <4>1. i = q /\ w = c
        BY <1>0, <2>1, <2>4, <3>2 DEF Passed
      <4> QED BY <2>3, <2>4, <4>1
    <3> QED BY <3>1, <3>2
  <2>5. Queries' = Queries /\ \A i, w : Passed(i, w)' <=> (i < q' \/ (i = q' /\ w < c'))
    BY <2>1 DEF Queries, Passed
  <2> QED BY <1>0, <2>1, <2>4, <2>5 DEF EInv, Passed
<1>2. CASE NextQuery
  <2>1. /\ q' = q + 1 /\ c' = 1 /\ pc' = pc /\ pc = "evaluate" /\ candidates' = candidates
        /\ request' = request /\ wallet' = wallet /\ c \notin DOMAIN wallet
    BY <1>2 DEF NextQuery
  <2>2. ASSUME NEW i \in Queries, NEW w \in DOMAIN wallet, Passed(i, w)'
        PROVE  Passed(i, w)
    BY <1>0, <2>1, <2>2 DEF Passed, EInv
  <2>3. Queries' = Queries
    BY <2>1 DEF Queries
  <2> QED BY <1>0, <2>1, <2>2, <2>3 DEF EInv
<1>3. CASE pc' # pc \/ pc # "evaluate"
  <2>1. ASSUME ~ConsiderCredential, ~NextQuery
        PROVE  /\ q' = q /\ c' = c /\ candidates' = candidates
               /\ request' = request /\ wallet' = wallet
               /\ pc' # "evaluate" => pc # "evaluate" \/ q \notin Queries
    BY <2>1 DEF EngineNext, engine, Judge, OfferNothing, BeginGroups, SkipOptionalSet, EnterSet, SetsDone,
            NextPartial, LeaveSet, SkipOption, OpenOption, MultiplyWidth, SetDials, ReadDials,
            CloseOption, Returned
  <2> QED BY <1>0, <1>1, <1>2, <2>1 DEF EInv, Passed, Queries
<1>4. CASE pc' = pc /\ pc = "evaluate" /\ ~ConsiderCredential /\ ~NextQuery
  <2>1. UNCHANGED engine
    BY <1>4 DEF EngineNext, Judge, OfferNothing, BeginGroups, SkipOptionalSet, EnterSet, SetsDone,
            NextPartial, LeaveSet, SkipOption, OpenOption, MultiplyWidth, SetDials, ReadDials,
            CloseOption, Returned
  <2> QED BY <2>1 DEF engine, EInv, Passed, Queries
<1> QED BY <1>1, <1>2, <1>3, <1>4

(* No credential that could answer a query is left out of its candidates. *)
THEOREM NobodyLeftOut == EngineSpec => []AbleCredentialsAreCandidates
BY EInvLeavesNobodyOut, InitTInv, NextTInv, InitEInv, NextEInv, PTL DEF EngineSpec

-----------------------------------------------------------------------------
(* Coverage. Inductively: a partial combination answers every required set   *)
(* the loop has left behind, one under construction also the current set.    *)
Covers(combination, s) ==
  \E k \in DOMAIN Sets[s].options : AnswersOption(combination, Sets[s].options[k])

CoversUpTo(combination, n) ==
  \A s \in DOMAIN Sets : s <= n /\ IsRequired(s) => Covers(combination, s)

CInv ==
  /\ pc \in {"evaluate", "combine"} => out = << >>
  /\ Enumerating => \A n \in DOMAIN out : CoversUpTo(out[n], g - 1)
  /\ pc \in {"option", "multiply", "read"} => \A n \in DOMAIN next : CoversUpTo(next[n], g)
  /\ pc = "done" => \A n \in DOMAIN out : satisfiable /\ CoversUpTo(out[n], Len(Sets))

LEMMA CInvIsCoverage == TInv /\ CInv => EveryRequiredSetAnswered
<1> SUFFICES ASSUME TInv, CInv, pc = "done", NEW n \in DOMAIN out,
                    NEW s \in DOMAIN Sets, IsRequired(s)
             PROVE  satisfiable /\ \E k \in DOMAIN Sets[s].options :
                                     AnswersOption(out[n], Sets[s].options[k])
  BY DEF EveryRequiredSetAnswered, CInv
<1>1. s <= Len(Sets)
  BY SetsType DEF TInv
<1> QED BY <1>1 DEF CInv, CoversUpTo, Covers

LEMMA InitCInv == EngineInit => CInv
BY DEF EngineInit, CInv, Enumerating

(* Adding the members of a set keeps what was answered and answers the option. *)
LEMMA ExtendedCovers ==
  ASSUME TInv, LInv, CInv, pc = "read"
  PROVE  CoversUpTo(Extended(out[p]), g)
<1>1. out[p] \in Combination /\ CoversUpTo(out[p], g - 1)
  BY DEF TInv, TypeOK, Cursor, CInv, Enumerating
<1>2. out[p].answers \in Seq(Answer) /\ Reading \in Seq(Answer)
  BY <1>1, ReadingType DEF Combination
<1>3. Extended(out[p]).answers = out[p].answers \o Reading
  BY DEF Extended
<1>4. ASSUME NEW option, AnswersOption(out[p], option)
      PROVE  AnswersOption(Extended(out[p]), option)
  <2>1. \A j \in DOMAIN out[p].answers :
           /\ j \in DOMAIN Extended(out[p]).answers
           /\ Extended(out[p]).answers[j] = out[p].answers[j]
    BY <1>2, <1>3
  <2> QED BY <1>4, <2>1 DEF AnswersOption
<1>5. AnswersOption(Extended(out[p]), Option)
  <2>1. ASSUME NEW k \in DOMAIN Option
        PROVE  \E j \in DOMAIN Extended(out[p]).answers :
                  Extended(out[p]).answers[j].id = Option[k]
    <3> DEFINE j == Len(out[p].answers) + k
    <3>1. k \in DOMAIN Reading /\ Reading[k].id = Option[k]
      BY DEF Reading
    <3>2. k \in 1..Len(Reading)
      BY <1>2, <3>1
    <3>3. j \in 1..(Len(out[p].answers) + Len(Reading))
      BY <1>2, <3>2
    <3>4. j \in DOMAIN (out[p].answers \o Reading) /\ (out[p].answers \o Reading)[j] = Reading[k]
      BY <1>2, <3>2, <3>3
    <3> QED BY <1>3, <3>1, <3>4
  <2> QED BY <2>1 DEF AnswersOption
<1>6. g \in DOMAIN Sets /\ o \in DOMAIN Sets[g].options /\ DOMAIN Sets = 1..Len(Sets)
  BY SetsType DEF TInv, Cursor
<1>7. ASSUME NEW s \in DOMAIN Sets, s <= g, IsRequired(s)
      PROVE  Covers(Extended(out[p]), s)
  <2>1. CASE s = g
    BY <1>5, <1>6, <2>1 DEF Covers, Option
  <2>2. CASE s # g
    <3>1. s <= g - 1
      BY <1>6, <1>7, <2>2
    <3>2. Covers(out[p], s)
      BY <1>1, <1>7, <3>1 DEF CoversUpTo
    <3> QED BY <1>4, <3>2 DEF Covers
  <2> QED BY <2>1, <2>2
<1> QED BY <1>7 DEF CoversUpTo

LEMMA StableCoverage ==
  ASSUME request' = request, candidates' = candidates
  PROVE  /\ \A combination, n : CoversUpTo(combination, n)' <=> CoversUpTo(combination, n)
         /\ Sets' = Sets
BY Stable DEF CoversUpTo, Covers, AnswersOption, IsRequired

LEMMA NextCInv == TInv /\ LInv /\ CInv /\ [EngineNext]_engine => CInv'
<1> SUFFICES ASSUME TInv, LInv, CInv, [EngineNext]_engine PROVE CInv'
  OBVIOUS
<1> USE DEF TInv, inputs, evaluating, products
<1>0. g \in Nat /\ DOMAIN Sets = 1..Len(Sets) /\ Len(Sets) \in Nat
  BY SetsType DEF TypeOK
<1>1. CASE ConsiderCredential
  BY <1>1 DEF ConsiderCredential, CInv, Enumerating
<1>2. CASE NextQuery
  BY <1>2 DEF NextQuery, CInv, Enumerating
<1>3. CASE Judge
  BY <1>3 DEF Judge, CInv, Enumerating
<1>4. CASE OfferNothing
  BY <1>4 DEF OfferNothing, CInv, Enumerating
<1>5. CASE BeginGroups
  <2>1. g = 1 /\ g' = 1
    BY <1>5 DEF BeginGroups, LInv
  <2>2. \A x : CoversUpTo(x, 0)
    BY <1>0 DEF CoversUpTo
  <2>3. g' - 1 = 0
    BY <2>1
  <2> QED BY <1>5, <2>2, <2>3, StableCoverage DEF BeginGroups, CInv, Enumerating
<1>6. CASE SkipOptionalSet
  <2>1. ASSUME NEW x, CoversUpTo(x, g - 1)
        PROVE  CoversUpTo(x, g)
    <3>1. \A s \in DOMAIN Sets : s <= g /\ IsRequired(s) => s <= g - 1
      BY <1>0, <1>6 DEF SkipOptionalSet
    <3> QED BY <2>1, <3>1 DEF CoversUpTo
  <2>2. \A n \in DOMAIN out : CoversUpTo(out[n], g)
    BY <1>6, <2>1 DEF SkipOptionalSet, CInv, Enumerating
  <2>3. g' - 1 = g
    BY <1>0, <1>6 DEF SkipOptionalSet
  <2> QED BY <1>6, <2>2, <2>3, StableCoverage DEF SkipOptionalSet, CInv, Enumerating
<1>7. CASE EnterSet
  BY <1>7, StableCoverage DEF EnterSet, CInv, Enumerating
<1>8. CASE SetsDone
  <2>1. g - 1 >= Len(Sets)
    BY <1>0, <1>8 DEF SetsDone, LInv
  <2>2. \A n \in DOMAIN out : CoversUpTo(out[n], Len(Sets))
    BY <1>0, <1>8, <2>1 DEF SetsDone, CInv, Enumerating, CoversUpTo
  <2> QED BY <1>8, <2>2, StableCoverage DEF SetsDone, CInv, LInv, Enumerating
<1>9. CASE NextPartial
  BY <1>9, StableCoverage DEF NextPartial, CInv, Enumerating
<1>10. CASE LeaveSet
  <2>1. CASE next = << >>
    BY <1>10, <2>1 DEF LeaveSet, CInv, Enumerating
  <2>2. CASE next # << >>
    <3>1. \A n \in DOMAIN out' : CoversUpTo(out'[n], g)
      BY <1>10 DEF LeaveSet, CInv
    <3>2. g' - 1 = g
      BY <1>0, <1>10 DEF LeaveSet
    <3> QED BY <1>10, <2>2, <3>1, <3>2, StableCoverage DEF LeaveSet, CInv, Enumerating
  <2> QED BY <2>1, <2>2
<1>11. CASE SkipOption
  BY <1>11, StableCoverage DEF SkipOption, CInv, Enumerating
<1>12. CASE OpenOption
  BY <1>12, StableCoverage DEF OpenOption, CInv, Enumerating
<1>13. CASE MultiplyWidth
  BY <1>13, StableCoverage DEF MultiplyWidth, CInv, Enumerating
<1>14. CASE SetDials
  BY <1>14, StableCoverage DEF SetDials, CInv, Enumerating
<1>15. CASE ReadDials
  <2>1. /\ next \in Seq(Combination) /\ Extended(out[p]) \in Combination
        /\ CoversUpTo(Extended(out[p]), g)
    BY <1>15, ExtendedType, ExtendedCovers DEF ReadDials, TypeOK
  <2>2. \A n \in DOMAIN next' : (n \in DOMAIN next /\ next'[n] = next[n]) \/ next'[n] = Extended(out[p])
    BY <1>15, <2>1 DEF ReadDials
  <2>3. \A n \in DOMAIN next' : CoversUpTo(next'[n], g)
    BY <1>15, <2>1, <2>2 DEF ReadDials, CInv
  <2> QED BY <1>15, <2>3, StableCoverage DEF ReadDials, CInv, Enumerating
<1>16. CASE CloseOption
  BY <1>16, StableCoverage DEF CloseOption, CInv, Enumerating
<1>17. CASE UNCHANGED engine
  BY <1>17, StableCoverage DEF engine, CInv, Enumerating
<1> QED
  BY <1>1, <1>2, <1>3, <1>4, <1>5, <1>6, <1>7, <1>8, <1>9, <1>10, <1>11, <1>12, <1>13,
     <1>14, <1>15, <1>16, <1>17 DEF EngineNext, Returned

(* Every combination offered satisfies the whole request, and nothing is     *)
(* offered for a request the wallet cannot satisfy (§6.4).                   *)
THEOREM CompleteAnswers == EngineSpec => []EveryRequiredSetAnswered
BY CInvIsCoverage, InitTInv, NextTInv, InitLInv, NextLInv, InitCInv, NextCInv, PTL DEF EngineSpec

-----------------------------------------------------------------------------
(* Order. The reference enumeration, as functions of how far it has gone.    *)

(* The product of the first k widths is one dial's width times the product   *)
(* of the dials before it.                                                   *)
LEMMA ProductsAre ==
  ASSUME NEW widths \in Seq(Nat \ {0})
  PROVE  /\ Products(widths) \in [0..Len(widths) -> Nat \ {0}]
         /\ Products(widths)[0] = 1
         /\ \A k \in 1..Len(widths) :
              Products(widths)[k] = Products(widths)[k - 1] * widths[k]
<1> DEFINE n == Len(widths)
           Pos == Nat \ {0}
           step == [e \in (1..n) \X Pos |-> e[2] * widths[e[1]]]
           IsProduct(f) == f = [k \in 0..n |-> IF k = 0 THEN 1 ELSE f[k - 1] * widths[k]]
           product == CHOOSE f : IsProduct(f)
<1>0. n \in Nat /\ 1 \in Pos
  OBVIOUS
<1>1. step \in [(1..n) \X Pos -> Pos]
  <2>1. \A a \in Pos : \A b \in Pos : a * b \in Pos
    BY SMT
  <2>2. \A i \in 1..n : widths[i] \in Pos
    OBVIOUS
  <2>3. ASSUME NEW e \in (1..n) \X Pos PROVE e[2] * widths[e[1]] \in Pos
    <3>1. e[1] \in 1..n /\ e[2] \in Pos
      OBVIOUS
    <3> HIDE DEF Pos, n
    <3> QED
      BY <2>1, <2>2, <3>1
  <2> HIDE DEF Pos, n
  <2> QED
    BY <2>3
<1>2. PICK f : Iterates(Pos, n, 1, step, f)
  <2> HIDE DEF Pos, step, n
  <2> QED
    BY Zenon, <1>0, <1>1, IterationExists
<1>3. ASSUME NEW k \in 1..n PROVE f[k] = f[k - 1] * widths[k]
  <2>1. f[k - 1] \in Pos
    BY <1>2 DEF Iterates
  <2>2. <<k, f[k - 1]>> \in (1..n) \X Pos
    BY <2>1
  <2> HIDE DEF Pos
  <2> QED
    BY <1>2, <2>2 DEF Iterates
<1>4. IsProduct(f)
  <2>1. \A k \in 0..n : f[k] = IF k = 0 THEN 1 ELSE f[k - 1] * widths[k]
    BY <1>2, <1>3 DEF Iterates
  <2>2. f = [k \in 0..n |-> f[k]]
    BY <1>2 DEF Iterates
  <2> QED
    BY <2>1, <2>2
<1>5. IsProduct(product)
  <2> HIDE DEF IsProduct
  <2> QED
    BY <1>4
<1>6. Products(widths) = product
  BY Zenon DEF Products
<1>7. product = [k \in 0..n |-> product[k]] /\ product[0] = 1
      /\ \A k \in 1..n : product[k] = product[k - 1] * widths[k]
  <2> HIDE DEF product
  <2>1. \A k \in 0..n : product[k] = IF k = 0 THEN 1 ELSE product[k - 1] * widths[k]
    BY <1>5
  <2> QED
    BY <1>0, <1>5, <2>1
<1> HIDE DEF product, IsProduct
<1>8. \A k \in 1..n : product[k - 1] \in Pos => product[k] = step[<<k, product[k - 1]>>]
  <2> SUFFICES ASSUME NEW k \in 1..n, NEW v \in Pos, v = product[k - 1]
               PROVE  product[k] = step[<<k, v>>]
    OBVIOUS
  <2>1. <<k, v>> \in (1..n) \X Pos /\ product[k] = v * widths[k]
    BY <1>7
  <2> HIDE DEF Pos, n
  <2> QED
    BY <2>1
<1>9. Iterates(Pos, n, 1, step, product)
  <2> HIDE DEF Pos, step, n
  <2> QED
    BY <1>0, <1>1, <1>7, <1>8, IterationIs
<1>10. product \in [0..n -> Pos]
  BY <1>9 DEF Iterates
<1> QED
  BY <1>6, <1>7, <1>10

(* All the lower digits are at their last value exactly when the number is   *)
(* one short of a multiple of their product: then one more carries.          *)
LEMMA CarriesAre ==
  ASSUME NEW widths \in Seq(Nat \ {0}), NEW n \in Nat, NEW k \in 1..Len(widths)
  PROVE  (\A j \in 1..(k - 1) : Digit(widths, n, j) = widths[j] - 1)
           <=> n % Products(widths)[k - 1] = Products(widths)[k - 1] - 1
<1> DEFINE P == Products(widths)
           L == Len(widths)
           Carries(i) == (\A j \in 1..(i - 1) : Digit(widths, n, j) = widths[j] - 1)
                           <=> n % P[i - 1] = P[i - 1] - 1
           bad == {i \in 1..L : ~Carries(i)}
<1>0. /\ L \in Nat /\ P \in [0..L -> Nat \ {0}] /\ P[0] = 1
      /\ \A i \in 1..L : P[i] = P[i - 1] * widths[i] /\ widths[i] \in Nat \ {0}
  BY ProductsAre
<1>r. \A a \in Nat \ {0}, w \in Nat \ {0} :
         n % (a * w) = a * w - 1 <=> n % a = a - 1 /\ (n \div a) % w = w - 1
  <2> HIDE DEF P, L, Carries, bad
  <2> QED
    BY Zenon, ProductRemainder
<1> SUFFICES ASSUME bad # {} PROVE FALSE
  OBVIOUS
<1>1. PICK m \in bad : \A i \in bad : m <= i
  <2>1. bad \in SUBSET Nat
    BY <1>0
  <2> HIDE DEF bad
  <2> QED
    BY <2>1, SmallestNat
<1>2. m \in 1..L
  BY <1>1
<1>3. CASE m = 1
  <2>1. n % 1 = 0
    OBVIOUS
  <2> HIDE DEF P
  <2>2. Carries(1)
    BY <1>0, <2>1
  <2> QED
    BY <1>1, <1>3, <2>2
<1>4. CASE m # 1
  <2> DEFINE i == m - 1
  <2>1. i \in 1..L /\ i \notin bad /\ m = i + 1
    <3>1. m \in 1..L /\ i \in 1..L /\ m = i + 1 /\ i < m
      BY <1>0, <1>2, <1>4
    <3>2. i \notin bad
      <4> HIDE DEF bad
      <4> QED
        BY <1>0, <1>1, <3>1
    <3> QED
      BY <3>1, <3>2
  <2> HIDE DEF i
  <2>2. Carries(i)
    BY <2>1
  <2>3. /\ P[i - 1] \in Nat \ {0} /\ widths[i] \in Nat \ {0} /\ P[i] = P[i - 1] * widths[i]
    <3>1. i - 1 \in 0..L
      BY <1>0, <2>1
    <3> HIDE DEF P, L
    <3> QED
      BY <1>0, <2>1, <3>1
  <2>4. Digit(widths, n, i) = (n \div P[i - 1]) % widths[i]
    BY DEF Digit
  <2> HIDE DEF P
  <2>5. n % P[i] = P[i] - 1 <=> n % P[i - 1] = P[i - 1] - 1 /\ Digit(widths, n, i) = widths[i] - 1
    <3> SUFFICES ASSUME NEW a \in Nat \ {0}, a = P[i - 1], NEW w \in Nat \ {0}, w = widths[i]
                 PROVE n % P[i] = P[i] - 1 <=> n % a = a - 1 /\ Digit(widths, n, i) = w - 1
      BY <2>3
    <3>1. P[i] = a * w /\ Digit(widths, n, i) = (n \div a) % w
      BY <2>3, <2>4
    <3>2. n % (a * w) = a * w - 1 <=> n % a = a - 1 /\ (n \div a) % w = w - 1
      BY Zenon, <1>r
    <3> QED
      BY <3>1, <3>2
  <2>6. (\A j \in 1..i : Digit(widths, n, j) = widths[j] - 1)
          <=> (\A j \in 1..(i - 1) : Digit(widths, n, j) = widths[j] - 1)
              /\ Digit(widths, n, i) = widths[i] - 1
    <3>1. /\ i \in 1..i
          /\ \A j \in 1..i : j \in 1..(i - 1) \/ j = i
          /\ \A j \in 1..(i - 1) : j \in 1..i
      <4>1. L \in Nat
        BY <1>0
      <4> HIDE DEF L
      <4> QED
        BY <4>1, <2>1
    <3> QED
      BY <3>1
  <2>7. m - 1 = i
    BY <2>1
  <2>8. Carries(m)
    BY <2>2, <2>5, <2>6, <2>7
  <2> QED
    BY <1>1, <2>8
<1> QED
  BY <1>3, <1>4

(* Turning the dials one step counts one further. *)
LEMMA NextDigit ==
  ASSUME NEW widths \in Seq(Nat \ {0}), NEW n \in Nat, NEW k \in 1..Len(widths)
  PROVE  Digit(widths, n + 1, k) =
           IF \E j \in 1..(k - 1) : Digit(widths, n, j) # widths[j] - 1 THEN Digit(widths, n, k)
           ELSE IF Digit(widths, n, k) = widths[k] - 1 THEN 0 ELSE Digit(widths, n, k) + 1
<1> DEFINE a == Products(widths)[k - 1]
           w == widths[k]
<1>1. a \in Nat \ {0} /\ w \in Nat \ {0}
  <2>1. k - 1 \in 0..Len(widths) /\ w \in Nat \ {0}
    OBVIOUS
  <2>2. Products(widths) \in [0..Len(widths) -> Nat \ {0}]
    BY ProductsAre
  <2> QED
    BY <2>1, <2>2
<1>2. (\A j \in 1..(k - 1) : Digit(widths, n, j) = widths[j] - 1) <=> n % a = a - 1
  BY CarriesAre
<1>3. Digit(widths, n, k) = (n \div a) % w
  BY DEF Digit
<1>4. Digit(widths, n + 1, k) = ((n + 1) \div a) % w
  <2> SUFFICES ASSUME NEW b, b = n + 1 PROVE Digit(widths, b, k) = (b \div a) % w
    OBVIOUS
  <2> QED
    BY DEF Digit
<1> HIDE DEF a, w
<1>5. CASE n % a = a - 1
  <2>1. (n + 1) \div a = (n \div a) + 1 /\ n \div a \in Nat
    BY <1>1, <1>5, NextQuotient
  <2> DEFINE m == n \div a
  <2>2. m \in Nat /\ Digit(widths, n, k) = m % w /\ Digit(widths, n + 1, k) = (m + 1) % w
    BY <1>3, <1>4, <2>1
  <2> HIDE DEF m
  <2>3. /\ m % w = w - 1 => (m + 1) % w = 0
        /\ m % w # w - 1 => (m + 1) % w = (m % w) + 1
    BY <1>1, <2>2, NextQuotient
  <2> QED
    BY <1>2, <1>5, <2>2, <2>3 DEF w
<1>6. CASE n % a # a - 1
  <2>1. (n + 1) \div a = n \div a
    BY <1>1, <1>6, NextQuotient
  <2> QED
    BY <1>2, <1>3, <1>4, <1>6, <2>1
<1> QED
  BY <1>5, <1>6

LEMMA FirstDigits ==
  ASSUME NEW widths \in Seq(Nat \ {0}), NEW k \in 1..Len(widths)
  PROVE  Digit(widths, 0, k) = 0
<1> DEFINE a == Products(widths)[k - 1]
           w == widths[k]
<1>1. a \in Nat \ {0} /\ w \in Nat \ {0}
  <2>1. k - 1 \in 0..Len(widths) /\ w \in Nat \ {0}
    OBVIOUS
  <2>2. Products(widths) \in [0..Len(widths) -> Nat \ {0}]
    BY ProductsAre
  <2> QED
    BY <2>1, <2>2
<1>2. Digit(widths, 0, k) = (0 \div a) % w
  BY DEF Digit
<1> HIDE DEF a, w
<1>3. 0 = a * 0 + 0 /\ 0 = w * 0 + 0 /\ 0 \in 0..(a - 1) /\ 0 \in 0..(w - 1)
  BY <1>1
<1>4. 0 \div a = 0
  BY <1>1, <1>3, QuotientIs
<1>5. 0 % w = 0
  BY <1>1, <1>3, QuotientIs
<1> QED
  BY <1>2, <1>4, <1>5

LEMMA DigitInRange ==
  ASSUME NEW widths \in Seq(Nat \ {0}), NEW n \in Nat, NEW k \in 1..Len(widths)
  PROVE  Digit(widths, n, k) \in 0..(widths[k] - 1)
<1> DEFINE a == Products(widths)[k - 1]
           w == widths[k]
<1>1. a \in Nat \ {0} /\ w \in Nat \ {0}
  <2>1. k - 1 \in 0..Len(widths) /\ w \in Nat \ {0}
    OBVIOUS
  <2>2. Products(widths) \in [0..Len(widths) -> Nat \ {0}]
    BY ProductsAre
  <2> QED
    BY <2>1, <2>2
<1>2. Digit(widths, n, k) = (n \div a) % w
  BY DEF Digit
<1> HIDE DEF a, w
<1>3. n \div a \in Nat
  BY <1>1, NextQuotient
<1> QED
  BY <1>1, <1>2, <1>3 DEF w

-----------------------------------------------------------------------------
(* The ways to answer an option, a set, and the sets before another.         *)
Ways == Seq(Seq(Answer))

LEMMA AfterIs ==
  ASSUME NEW partial \in Seq(Answer), NEW ways \in Ways
  PROVE  /\ After(partial, ways) \in Ways /\ Len(After(partial, ways)) = Len(ways)
         /\ \A n \in 1..Len(ways) : After(partial, ways)[n] = Joined(partial, ways[n])
<1>1. DOMAIN ways = 1..Len(ways) /\ Len(ways) \in Nat /\ \A n \in 1..Len(ways) : ways[n] \in Seq(Answer)
  BY DEF Ways
<1>2. After(partial, ways) = [n \in 1..Len(ways) |-> Joined(partial, ways[n])]
  BY <1>1 DEF After, Joined
<1>3. \A n \in 1..Len(ways) : Joined(partial, ways[n]) \in Seq(Answer)
  BY <1>1, JoinedInAnyOrder
<1>4. After(partial, ways) \in [1..Len(ways) -> Seq(Answer)]
  BY <1>2, <1>3
<1>5. After(partial, ways) \in Seq(Seq(Answer)) /\ Len(After(partial, ways)) = Len(ways)
  BY <1>1, <1>4, FunctionIsSequence
<1> QED
  BY <1>2, <1>5 DEF Ways

LEMMA AfterNothing ==
  ASSUME NEW partial
  PROVE  After(partial, << >>) = << >>
BY DEF After

LEMMA SameSequence ==
  ASSUME NEW S, NEW f \in Seq(S), NEW h \in Seq(S), Len(f) = Len(h),
         \A i \in 1..Len(f) : f[i] = h[i]
  PROVE  f = h
OBVIOUS

LEMMA JoinedWays ==
  ASSUME NEW few \in Ways, NEW more \in Ways
  PROVE  /\ Len(few) \in Nat /\ Len(more) \in Nat
         /\ Joined(few, more) \in Ways /\ Len(Joined(few, more)) = Len(few) + Len(more)
         /\ \A i \in 1..Len(few) : Joined(few, more)[i] = few[i]
         /\ \A i \in 1..Len(more) : Joined(few, more)[Len(few) + i] = more[i]
<1> DEFINE S == Seq(Answer)
<1>1. few \in Seq(S) /\ more \in Seq(S)
  BY DEF Ways
<1> HIDE DEF S
<1>2. /\ Joined(few, more) \in Seq(S) /\ Len(Joined(few, more)) = Len(few) + Len(more)
      /\ \A i \in 1..Len(few) : Joined(few, more)[i] = few[i]
      /\ \A i \in 1..Len(more) : Joined(few, more)[Len(few) + i] = more[i]
  BY <1>1 DEF Joined
<1>3. Joined(few, more) \in Ways
  BY <1>2 DEF Ways, S
<1>4. Len(few) \in Nat /\ Len(more) \in Nat
  BY <1>1
<1> QED
  BY <1>2, <1>3, <1>4

LEMMA SameWays ==
  ASSUME NEW few \in Ways, NEW more \in Ways, Len(few) = Len(more),
         \A i \in 1..Len(few) : few[i] = more[i]
  PROVE  few = more
<1> DEFINE S == Seq(Answer)
<1>1. few \in Seq(S) /\ more \in Seq(S)
  BY DEF Ways
<1> HIDE DEF S
<1> QED
  BY <1>1, SameSequence

LEMMA AfterJoined ==
  ASSUME NEW partial \in Seq(Answer), NEW few \in Ways, NEW more \in Ways
  PROVE  After(partial, Joined(few, more)) = Joined(After(partial, few), After(partial, more))
<1> DEFINE all == Joined(few, more)
           a == After(partial, few)
           b == After(partial, more)
<1>1. /\ all \in Ways /\ Len(all) = Len(few) + Len(more)
      /\ \A i \in 1..Len(few) : all[i] = few[i]
      /\ \A i \in 1..Len(more) : all[Len(few) + i] = more[i]
  BY JoinedWays
<1>2. /\ a \in Ways /\ Len(a) = Len(few)
      /\ \A n \in 1..Len(few) : a[n] = Joined(partial, few[n])
  BY AfterIs
<1>3. /\ b \in Ways /\ Len(b) = Len(more)
      /\ \A n \in 1..Len(more) : b[n] = Joined(partial, more[n])
  BY AfterIs
<1>4. /\ After(partial, all) \in Ways /\ Len(After(partial, all)) = Len(all)
      /\ \A n \in 1..Len(all) : After(partial, all)[n] = Joined(partial, all[n])
  BY <1>1, AfterIs
<1>5. /\ Joined(a, b) \in Ways /\ Len(Joined(a, b)) = Len(a) + Len(b)
      /\ \A i \in 1..Len(a) : Joined(a, b)[i] = a[i]
      /\ \A i \in 1..Len(b) : Joined(a, b)[Len(a) + i] = b[i]
  BY <1>2, <1>3, JoinedWays
<1>6. Len(few) \in Nat /\ Len(more) \in Nat
  BY DEF Ways
<1> HIDE DEF all, a, b
<1>7. ASSUME NEW i \in 1..Len(all)
      PROVE  After(partial, all)[i] = Joined(a, b)[i]
  <2>1. CASE i <= Len(few)
    BY <1>1, <1>2, <1>4, <1>5, <1>6, <2>1
  <2>2. CASE i > Len(few)
    <3> DEFINE j == i - Len(few)
    <3>1. j \in 1..Len(more) /\ i = Len(few) + j
      BY <1>1, <1>6, <2>2
    <3> HIDE DEF j
    <3> QED
      BY <1>1, <1>2, <1>3, <1>4, <1>5, <1>6, <3>1
  <2> QED
    BY <1>1, <1>6, <2>1, <2>2
<1>8. Len(After(partial, all)) = Len(Joined(a, b))
  BY <1>1, <1>2, <1>3, <1>4, <1>5
<1>9. After(partial, all) = Joined(a, b)
  BY <1>1, <1>4, <1>5, <1>7, <1>8, SameWays
<1> QED
  BY <1>9 DEF all, a, b

(* The widths of an option that can be answered. *)
LEMMA WidthsAre ==
  ASSUME TypeOK, NEW option \in Seq(QueryId), OptionSatisfiable(option)
  PROVE  /\ OptionWidths(option) \in Seq(Nat \ {0}) /\ Len(OptionWidths(option)) = Len(option)
         /\ \A k \in 1..Len(option) : OptionWidths(option)[k] = Width(option[k])
<1>1. DOMAIN option = 1..Len(option) /\ Len(option) \in Nat
  OBVIOUS
<1>2. \A k \in 1..Len(option) : Width(option[k]) \in Nat \ {0}
  BY <1>1, DialFacts DEF OptionSatisfiable
<1>3. OptionWidths(option) = [k \in 1..Len(option) |-> Width(option[k])]
  BY <1>1 DEF OptionWidths
<1>4. OptionWidths(option) \in [1..Len(option) -> Nat \ {0}]
  BY <1>2, <1>3
<1> QED
  BY <1>1, <1>3, <1>4, FunctionIsSequence

(* A way to answer an option is one answer per query of it. *)
LEMMA WayType ==
  ASSUME TypeOK, NEW option \in Seq(QueryId), OptionSatisfiable(option), NEW n \in Nat
  PROVE  Way(option, n) \in Seq(Answer)
<1>1. DOMAIN option = 1..Len(option) /\ Len(option) \in Nat
  OBVIOUS
<1>2. ASSUME NEW k \in 1..Len(option)
      PROVE  Way(option, n)[k] \in Answer
  <2>1. /\ CandidatesOf(option[k]) \in Seq(Candidate)
        /\ Width(option[k]) \in Nat \ {0}
        /\ Width(option[k]) <= Len(CandidatesOf(option[k]))
    BY <1>1, DialFacts DEF OptionSatisfiable
  <2> DEFINE i == Digit(OptionWidths(option), n, k) + 1
  <2>2. Digit(OptionWidths(option), n, k) \in 0..(Width(option[k]) - 1)
    <3>1. /\ OptionWidths(option) \in Seq(Nat \ {0}) /\ k \in 1..Len(OptionWidths(option))
          /\ OptionWidths(option)[k] = Width(option[k])
      BY WidthsAre
    <3> QED
      BY <3>1, DigitInRange
  <2>3. i \in 1..Len(CandidatesOf(option[k]))
    BY <2>1, <2>2
  <2> HIDE DEF i
  <2>4. << CandidatesOf(option[k])[i] >> \in Seq(Candidate)
    BY <2>1, <2>3
  <2>5. option[k] \in QueryId
    BY <1>1
  <2>6. Way(option, n)[k] =
          [id |-> option[k],
           picked |-> IF IsMultiple(option[k]) THEN CandidatesOf(option[k])
                      ELSE << CandidatesOf(option[k])[i] >>]
    BY <1>1 DEF Way, i
  <2> QED
    BY <2>1, <2>4, <2>5, <2>6 DEF Answer
<1>3. Way(option, n) \in [1..Len(option) -> Answer]
  BY <1>1, <1>2 DEF Way
<1> QED
  BY <1>1, <1>3, FunctionIsSequence

LEMMA WaysOfOptionAre ==
  ASSUME TypeOK, NEW option \in Seq(QueryId)
  PROVE  /\ WaysOfOption(option) \in Ways
         /\ ~OptionSatisfiable(option) => WaysOfOption(option) = << >>
         /\ OptionSatisfiable(option) =>
              /\ Products(OptionWidths(option))[Len(option)] \in Nat \ {0}
              /\ Len(WaysOfOption(option)) = Products(OptionWidths(option))[Len(option)]
              /\ \A n \in 1..Len(WaysOfOption(option)) : WaysOfOption(option)[n] = Way(option, n - 1)
<1>1. CASE ~OptionSatisfiable(option)
  BY <1>1 DEF WaysOfOption, Ways
<1>2. CASE OptionSatisfiable(option)
  <2> DEFINE m == Products(OptionWidths(option))[Len(option)]
  <2>1. m \in Nat \ {0}
    <3>1. /\ OptionWidths(option) \in Seq(Nat \ {0}) /\ Len(OptionWidths(option)) = Len(option)
      BY <1>2, WidthsAre
    <3>2. Products(OptionWidths(option)) \in [0..Len(option) -> Nat \ {0}]
      BY <3>1, ProductsAre
    <3> QED
      BY <3>2
  <2>2. WaysOfOption(option) = [n \in 1..m |-> Way(option, n - 1)]
    BY <1>2 DEF WaysOfOption
  <2> HIDE DEF m
  <2>3. \A n \in 1..m : Way(option, n - 1) \in Seq(Answer)
    <3> SUFFICES ASSUME NEW n \in 1..m PROVE Way(option, n - 1) \in Seq(Answer)
      OBVIOUS
    <3>1. n - 1 \in Nat
      BY <2>1
    <3> QED
      BY <1>2, <3>1, WayType
  <2>4. WaysOfOption(option) \in [1..m -> Seq(Answer)]
    BY <2>2, <2>3
  <2>5. WaysOfOption(option) \in Seq(Seq(Answer)) /\ Len(WaysOfOption(option)) = m
    BY <2>1, <2>4, FunctionIsSequence
  <2> QED
    BY <1>2, <2>1, <2>2, <2>5 DEF Ways, m
<1> QED
  BY <1>1, <1>2

-----------------------------------------------------------------------------
(* The ways of a set's first options, and of the first partial answers each  *)
(* followed by all the ways of a set.                                        *)
WaysOfFirstOptions(s, n) == FlattenSeq([k \in 1..n |-> WaysOfOption(s.options[k])])

ExtendedFirst(partials, s, n) == FlattenSeq([i \in 1..n |-> After(partials[i], WaysOfSet(s))])

LEMMA OptionsAre ==
  ASSUME TypeOK, NEW s \in CredentialSetQuery, NEW n \in 0..Len(s.options)
  PROVE  /\ WaysOfFirstOptions(s, n) \in Ways
         /\ n = 0 => WaysOfFirstOptions(s, n) = << >>
         /\ n # 0 => WaysOfFirstOptions(s, n) =
                      Joined(WaysOfFirstOptions(s, n - 1), WaysOfOption(s.options[n]))
         /\ n = Len(s.options) => WaysOfFirstOptions(s, n) = WaysOfSet(s)
<1> DEFINE S == Seq(Answer)
           F == [k \in 1..n |-> WaysOfOption(s.options[k])]
           few == [k \in 1..(n - 1) |-> F[k]]
<1>1. s.options \in Seq(Seq(QueryId)) /\ n \in Nat
  BY DEF CredentialSetQuery
<1>2. \A k \in 1..n : s.options[k] \in Seq(QueryId)
  BY <1>1
<1>3. \A k \in 1..n : WaysOfOption(s.options[k]) \in Seq(S)
  BY <1>2, WaysOfOptionAre DEF Ways
<1>4. F \in [1..n -> Seq(S)]
  <2> HIDE DEF S
  <2> QED
    BY <1>3
<1>5. few = [k \in 1..(n - 1) |-> WaysOfOption(s.options[k])]
  BY <1>1
<1>6. WaysOfFirstOptions(s, n) = FlattenSeq(F)
  BY DEF WaysOfFirstOptions
<1>7. WaysOfFirstOptions(s, n - 1) = FlattenSeq(few)
  <2> SUFFICES ASSUME NEW m, m = n - 1 PROVE WaysOfFirstOptions(s, m) = FlattenSeq(few)
    OBVIOUS
  <2> HIDE DEF few
  <2> QED
    BY <1>5 DEF WaysOfFirstOptions
<1>8. n # 0 => F[n] = WaysOfOption(s.options[n])
  BY <1>1
<1>9. n = Len(s.options) => FlattenSeq(F) = WaysOfSet(s)
  <2>1. DOMAIN s.options = 1..Len(s.options)
    BY <1>1
  <2> QED
    BY <2>1 DEF WaysOfSet
<1>10. /\ FlattenSeq(F) \in Seq(S)
       /\ n = 0 => FlattenSeq(F) = << >>
       /\ n # 0 => FlattenSeq(F) = Joined(FlattenSeq(few), F[n])
  <2> HIDE DEF S, F
  <2> QED
    BY <1>1, <1>4, FlattenStep
<1> HIDE DEF F, few
<1> QED
  BY <1>6, <1>7, <1>8, <1>9, <1>10 DEF Ways

LEMMA ExtendedAre ==
  ASSUME NEW partials \in Ways, NEW s, WaysOfSet(s) \in Ways, NEW n \in 0..Len(partials)
  PROVE  /\ ExtendedFirst(partials, s, n) \in Ways
         /\ n = 0 => ExtendedFirst(partials, s, n) = << >>
         /\ n # 0 => ExtendedFirst(partials, s, n) =
                      Joined(ExtendedFirst(partials, s, n - 1), After(partials[n], WaysOfSet(s)))
         /\ n = Len(partials) => ExtendedFirst(partials, s, n) = Extend(partials, s)
<1> DEFINE S == Seq(Answer)
           F == [i \in 1..n |-> After(partials[i], WaysOfSet(s))]
           few == [i \in 1..(n - 1) |-> F[i]]
<1>1. partials \in Seq(S) /\ n \in Nat
  BY DEF Ways
<1>2. \A k \in 1..n : partials[k] \in Seq(Answer)
  BY <1>1
<1>3. \A k \in 1..n : After(partials[k], WaysOfSet(s)) \in Seq(S)
  BY <1>2, AfterIs DEF Ways
<1>4. F \in [1..n -> Seq(S)]
  <2> HIDE DEF S
  <2> QED
    BY <1>3
<1>5. few = [i \in 1..(n - 1) |-> After(partials[i], WaysOfSet(s))]
  BY <1>1
<1>6. ExtendedFirst(partials, s, n) = FlattenSeq(F)
  BY DEF ExtendedFirst
<1>7. ExtendedFirst(partials, s, n - 1) = FlattenSeq(few)
  <2> SUFFICES ASSUME NEW m, m = n - 1 PROVE ExtendedFirst(partials, s, m) = FlattenSeq(few)
    OBVIOUS
  <2> HIDE DEF few
  <2> QED
    BY <1>5 DEF ExtendedFirst
<1>8. n # 0 => F[n] = After(partials[n], WaysOfSet(s))
  BY <1>1
<1>9. n = Len(partials) => FlattenSeq(F) = Extend(partials, s)
  <2>1. DOMAIN partials = 1..Len(partials)
    BY <1>1
  <2> QED
    BY <2>1 DEF Extend
<1>10. /\ FlattenSeq(F) \in Seq(S)
       /\ n = 0 => FlattenSeq(F) = << >>
       /\ n # 0 => FlattenSeq(F) = Joined(FlattenSeq(few), F[n])
  <2> HIDE DEF S, F
  <2> QED
    BY <1>1, <1>4, FlattenStep
<1> HIDE DEF F, few
<1> QED
  BY <1>6, <1>7, <1>8, <1>9, <1>10 DEF Ways

(* Each partial answer adds as many, and what is there stays where it is. *)
LEMMA ExtendedStarts ==
  ASSUME NEW partials \in Ways, NEW s, WaysOfSet(s) \in Ways,
         NEW n \in 0..Len(partials), NEW m \in n..Len(partials)
  PROVE  LET few == ExtendedFirst(partials, s, n)
             many == ExtendedFirst(partials, s, m)
         IN /\ Len(few) = n * Len(WaysOfSet(s))
            /\ Len(few) <= Len(many)
            /\ \A i \in 1..Len(few) : many[i] = few[i]
<1> DEFINE E(i) == ExtendedFirst(partials, s, i)
           L == Len(partials)
           w == Len(WaysOfSet(s))
<1>0. L \in Nat /\ w \in Nat /\ n \in Nat /\ m \in Nat
  BY DEF Ways
<1>1. ASSUME NEW i \in 1..L
      PROVE  /\ E(i - 1) \in Ways /\ E(i) \in Ways /\ Len(E(i - 1)) \in Nat
             /\ Len(E(i)) = Len(E(i - 1)) + w
             /\ \A j \in 1..Len(E(i - 1)) : E(i)[j] = E(i - 1)[j]
  <2> DEFINE added == After(partials[i], WaysOfSet(s))
  <2>1. i \in 0..L /\ i - 1 \in 0..L /\ i # 0
    BY <1>0
  <2>2. E(i - 1) \in Ways
    BY <2>1, ExtendedAre
  <2>3. E(i) \in Ways /\ E(i) = Joined(E(i - 1), added)
    BY <2>1, ExtendedAre
  <2>4. added \in Ways /\ Len(added) = w
    <3>1. partials[i] \in Seq(Answer)
      BY DEF Ways
    <3> QED
      BY <3>1, AfterIs
  <2> HIDE DEF added, E, w
  <2> DEFINE before == E(i - 1)
  <2>5. before \in Ways /\ E(i) = Joined(before, added)
    BY <2>2, <2>3
  <2>6. /\ Len(before) \in Nat
        /\ Len(Joined(before, added)) = Len(before) + Len(added)
        /\ \A j \in 1..Len(before) : Joined(before, added)[j] = before[j]
    <3> HIDE DEF before
    <3> QED
      BY <2>4, <2>5, JoinedWays
  <2> QED
    BY <2>2, <2>3, <2>4, <2>5, <2>6
<1>2. E(0) = << >>
  <2>1. 0 \in 0..L
    BY <1>0
  <2> QED
    BY <2>1, ExtendedAre
<1> HIDE DEF E, w, L
<1>3. ASSUME NEW k \in 0..L
      PROVE  Len(E(k)) = k * w
  <2> DEFINE bad == {i \in 0..L : Len(E(i)) # i * w}
  <2> SUFFICES ASSUME bad # {} PROVE FALSE
    OBVIOUS
  <2>1. PICK i \in bad : \A j \in bad : i <= j
    <3>1. bad \in SUBSET Nat
      BY <1>0
    <3> HIDE DEF bad
    <3> QED
      BY <3>1, SmallestNat
  <2>2. i # 0
    BY <1>0, <1>2, <2>1
  <2>3. i \in 1..L /\ i - 1 \in 0..L /\ i - 1 \notin bad
    BY <1>0, <2>1, <2>2
  <2>4. Len(E(i)) = Len(E(i - 1)) + w /\ Len(E(i - 1)) = (i - 1) * w
    BY <1>1, <2>3
  <2>5. (i - 1) * w + w = i * w
    BY <1>0, <2>3
  <2> QED
    BY <2>1, <2>4, <2>5
<1>4. ASSUME NEW k \in n..L
      PROVE  /\ Len(E(n)) <= Len(E(k))
             /\ \A i \in 1..Len(E(n)) : E(k)[i] = E(n)[i]
  <2> DEFINE Starts(i) == /\ Len(E(n)) <= Len(E(i))
                          /\ \A j \in 1..Len(E(n)) : E(i)[j] = E(n)[j]
             bad == {i \in n..L : ~Starts(i)}
  <2> SUFFICES ASSUME bad # {} PROVE FALSE
    OBVIOUS
  <2>0. Len(E(n)) \in Nat
    <3>1. n \in 0..L /\ n * w \in Nat
      BY <1>0 DEF L
    <3> QED
      BY <1>3, <3>1
  <2>1. PICK i \in bad : \A j \in bad : i <= j
    <3>1. bad \in SUBSET Nat
      BY <1>0
    <3> HIDE DEF bad
    <3> QED
      BY <3>1, SmallestNat
  <2>2. i # n
    BY <1>0, <2>0, <2>1
  <2>3. i \in 1..L /\ i - 1 \in n..L /\ i - 1 \notin bad
    BY <1>0, <2>1, <2>2
  <2>4. Starts(i - 1)
    BY <2>3
  <2>5. /\ Len(E(i - 1)) \in Nat /\ Len(E(i)) = Len(E(i - 1)) + w
        /\ \A j \in 1..Len(E(i - 1)) : E(i)[j] = E(i - 1)[j]
    BY <1>1, <2>3
  <2>6. Starts(i)
    <3>1. Len(E(n)) <= Len(E(i))
      BY <1>0, <2>0, <2>4, <2>5
    <3>2. ASSUME NEW j \in 1..Len(E(n)) PROVE E(i)[j] = E(n)[j]
      <4>1. j \in 1..Len(E(i - 1))
        BY <2>0, <2>4, <2>5
      <4> QED
        BY <2>4, <2>5, <4>1
    <3> QED
      BY <3>1, <3>2
  <2> QED
    BY <2>1, <2>6
<1>5. n \in 0..L /\ m \in n..L
  BY DEF L
<1> QED
  BY <1>3, <1>4, <1>5 DEF E, w

(* The enumeration over the sets, one set at a time. *)
LEMMA WaysAre ==
  ASSUME TypeOK
  PROVE  /\ WaysOfFirst[0] = << << >> >>
         /\ \A k \in 0..Len(Sets) : WaysOfFirst[k] \in Ways
         /\ \A k \in 1..Len(Sets) :
              /\ WaysOfSet(Sets[k]) \in Ways
              /\ WaysOfFirst[k] = IF IsRequired(k) THEN Extend(WaysOfFirst[k - 1], Sets[k])
                                  ELSE WaysOfFirst[k - 1]
<1> DEFINE n == Len(Sets)
           base == << << >> >>
           step == [e \in (1..n) \X Ways |->
                      IF IsRequired(e[1]) THEN Extend(e[2], Sets[e[1]]) ELSE e[2]]
           Lists(f) == f = [k \in 0..n |->
                              IF k = 0 THEN << << >> >>
                              ELSE IF IsRequired(k) THEN Extend(f[k - 1], Sets[k]) ELSE f[k - 1]]
           ways == CHOOSE f : Lists(f)
<1>0. n \in Nat /\ base \in Ways
  BY SetsType DEF Ways
<1>1. ASSUME NEW k \in 1..n
      PROVE  WaysOfSet(Sets[k]) \in Ways
  <2>1. Sets[k] \in CredentialSetQuery
    BY SetsType
  <2>2. Len(Sets[k].options) \in 0..Len(Sets[k].options)
    <3>1. Sets[k].options \in Seq(Seq(QueryId))
      BY <2>1 DEF CredentialSetQuery
    <3> QED
      BY <3>1
  <2> QED
    BY <2>1, <2>2, OptionsAre
<1>2. ASSUME NEW k \in 1..n, NEW partials \in Ways
      PROVE  Extend(partials, Sets[k]) \in Ways
  <2>1. Len(partials) \in 0..Len(partials)
    BY DEF Ways
  <2> QED
    BY <1>1, <2>1, ExtendedAre
<1> HIDE DEF n, base
<1>3. step \in [(1..n) \X Ways -> Ways]
  <2> SUFFICES ASSUME NEW k \in 1..n, NEW v \in Ways
               PROVE  (IF IsRequired(k) THEN Extend(v, Sets[k]) ELSE v) \in Ways
    OBVIOUS
  <2> QED
    BY <1>2
<1>4. PICK f : Iterates(Ways, n, base, step, f)
  <2> HIDE DEF step
  <2> QED
    BY Zenon, <1>0, <1>3, IterationExists
<1>5. Lists(f)
  <2>1. ASSUME NEW k \in 1..n
        PROVE  f[k] = IF IsRequired(k) THEN Extend(f[k - 1], Sets[k]) ELSE f[k - 1]
    <3>1. f[k - 1] \in Ways /\ f[k] = step[<<k, f[k - 1]>>]
      <4>1. k - 1 \in 0..n
        BY <1>0
      <4> HIDE DEF step
      <4> QED
        BY <1>4, <4>1 DEF Iterates
    <3> QED
      BY <3>1
  <2>2. f[0] = base /\ f = [k \in 0..n |-> f[k]]
    BY <1>0, <1>4 DEF Iterates
  <2>3. \A k \in 0..n : k # 0 => k \in 1..n
    BY <1>0
  <2> HIDE DEF step
  <2> QED
    BY <2>1, <2>2, <2>3 DEF base
<1>6. Lists(ways)
  <2> HIDE DEF Lists
  <2> QED
    BY <1>5
<1>7. WaysOfFirst = ways
  BY Zenon DEF WaysOfFirst, n
<1>8. /\ ways = [k \in 0..n |-> ways[k]] /\ ways[0] = base
      /\ \A k \in 1..n : ways[k] = IF IsRequired(k) THEN Extend(ways[k - 1], Sets[k])
                                     ELSE ways[k - 1]
  <2> HIDE DEF ways
  <2>1. \A k \in 0..n : ways[k] = IF k = 0 THEN base
                                   ELSE IF IsRequired(k) THEN Extend(ways[k - 1], Sets[k])
                                   ELSE ways[k - 1]
    BY <1>6 DEF base
  <2>2. ways = [k \in 0..n |-> ways[k]]
    BY <1>6
  <2>3. 0 \in 0..n /\ \A k \in 1..n : k \in 0..n /\ k # 0
    BY <1>0
  <2> HIDE DEF Lists
  <2> QED
    BY <2>1, <2>2, <2>3
<1> HIDE DEF ways, Lists
<1>9. \A k \in 1..n : ways[k - 1] \in Ways => ways[k] = step[<<k, ways[k - 1]>>]
  <2> SUFFICES ASSUME NEW k \in 1..n, NEW v \in Ways, v = ways[k - 1]
               PROVE  ways[k] = step[<<k, v>>]
    OBVIOUS
  <2> QED
    BY <1>8
<1>10. Iterates(Ways, n, base, step, ways)
  <2> HIDE DEF step
  <2> QED
    BY <1>0, <1>3, <1>8, <1>9, IterationIs
<1>11. ways \in [0..n -> Ways]
  BY <1>10 DEF Iterates
<1> HIDE DEF step
<1> QED
  BY <1>1, <1>7, <1>8, <1>11 DEF n, base

(* And its purposes. *)
LEMMA PurposesAre ==
  ASSUME TypeOK
  PROVE  /\ PurposesOfFirst[0] = << >>
         /\ \A k \in 1..Len(Sets) :
              PurposesOfFirst[k] =
                IF IsRequired(k) /\ Sets[k].purpose # None
                THEN Append(PurposesOfFirst[k - 1], Sets[k].purpose) ELSE PurposesOfFirst[k - 1]
<1> DEFINE n == Len(Sets)
           V == Seq(Purpose)
           base == << >>
           step == [e \in (1..n) \X V |->
                      IF IsRequired(e[1]) /\ Sets[e[1]].purpose # None
                      THEN Append(e[2], Sets[e[1]].purpose) ELSE e[2]]
           Lists(f) == f = [k \in 0..n |->
                              IF k = 0 THEN << >>
                              ELSE IF IsRequired(k) /\ Sets[k].purpose # None
                              THEN Append(f[k - 1], Sets[k].purpose) ELSE f[k - 1]]
           purposes == CHOOSE f : Lists(f)
<1>0. n \in Nat /\ base \in V
  BY SetsType
<1>1. ASSUME NEW k \in 1..n, NEW v \in V
      PROVE  (IF IsRequired(k) /\ Sets[k].purpose # None THEN Append(v, Sets[k].purpose) ELSE v) \in V
  <2>1. Sets[k] \in CredentialSetQuery
    BY SetsType
  <2>2. Sets[k].purpose \in {None} \cup Purpose
    BY <2>1 DEF CredentialSetQuery
  <2> QED
    BY <2>2
<1> HIDE DEF n, base, V
<1>3. step \in [(1..n) \X V -> V]
  <2> SUFFICES ASSUME NEW k \in 1..n, NEW v \in V
               PROVE  (IF IsRequired(k) /\ Sets[k].purpose # None
                       THEN Append(v, Sets[k].purpose) ELSE v) \in V
    OBVIOUS
  <2> QED
    BY <1>1
<1>4. PICK f : Iterates(V, n, base, step, f)
  <2> HIDE DEF step
  <2> QED
    BY Zenon, <1>0, <1>3, IterationExists
<1>5. Lists(f)
  <2>1. ASSUME NEW k \in 1..n
        PROVE  f[k] = IF IsRequired(k) /\ Sets[k].purpose # None
                      THEN Append(f[k - 1], Sets[k].purpose) ELSE f[k - 1]
    <3>1. f[k - 1] \in V /\ f[k] = step[<<k, f[k - 1]>>]
      <4>1. k - 1 \in 0..n
        BY <1>0
      <4> HIDE DEF step
      <4> QED
        BY <1>4, <4>1 DEF Iterates
    <3> QED
      BY <3>1
  <2>2. f[0] = base /\ f = [k \in 0..n |-> f[k]]
    BY <1>0, <1>4 DEF Iterates
  <2>3. \A k \in 0..n : k # 0 => k \in 1..n
    BY <1>0
  <2> HIDE DEF step
  <2> QED
    BY <2>1, <2>2, <2>3 DEF base
<1>6. Lists(purposes)
  <2> HIDE DEF Lists
  <2> QED
    BY <1>5
<1>7. PurposesOfFirst = purposes
  BY Zenon DEF PurposesOfFirst, n
<1>8. /\ purposes[0] = base
      /\ \A k \in 1..n : purposes[k] = IF IsRequired(k) /\ Sets[k].purpose # None
                                         THEN Append(purposes[k - 1], Sets[k].purpose)
                                         ELSE purposes[k - 1]
  <2> HIDE DEF purposes
  <2>1. \A k \in 0..n : purposes[k] = IF k = 0 THEN base
                                       ELSE IF IsRequired(k) /\ Sets[k].purpose # None
                                       THEN Append(purposes[k - 1], Sets[k].purpose)
                                       ELSE purposes[k - 1]
    BY <1>6 DEF base
  <2>2. 0 \in 0..n /\ \A k \in 1..n : k \in 0..n /\ k # 0
    BY <1>0
  <2> HIDE DEF Lists
  <2> QED
    BY <2>1, <2>2
<1> HIDE DEF purposes, Lists, step
<1> QED
  BY <1>7, <1>8 DEF n, base

-----------------------------------------------------------------------------
(* What the loops have gone through when they stand at set n, partial i and  *)
(* option j.                                                                 *)
Sofar(n, i, j) ==
  Joined(ExtendedFirst(WaysOfFirst[n - 1], Sets[n], i - 1),
         After(WaysOfFirst[n - 1][i], WaysOfFirstOptions(Sets[n], j - 1)))

(* These combinations, and as many more as are still to be read, are the     *)
(* first ways, all of them unless the limit stops there.                     *)
BuiltTo(combinations, more, ways, n) ==
  /\ Len(combinations) + more <= Len(ways)
  /\ Len(combinations) + more = Len(ways) \/ Len(combinations) + more >= limit
  /\ \A i \in DOMAIN combinations :
       combinations[i] = [answers |-> ways[i], purposes |-> PurposesOfFirst[n]]

(* The product of the first n widths as far as a usize can tell. *)
Multiplied(product, n) ==
  IF product.exact THEN product.count = Products(OptionWidths(Option))[n]
  ELSE product.count = MaxUsize /\ Products(OptionWidths(Option))[n] > MaxUsize

OutInOrder ==
  Enumerating => /\ g \in 1..(Len(Sets) + 1)
                 /\ BuiltTo(out, 0, WaysOfFirst[g - 1], g - 1)

CursorInRange ==
  pc \in {"option", "multiply", "read"} =>
    /\ p \in 1..(Len(out) + 1)
    /\ o \in 1..(Len(Sets[g].options) + 1)
    /\ p = Len(out) + 1 => o = 1

NextInOrder ==
  /\ pc \in {"option", "multiply"} => BuiltTo(next, 0, Sofar(g, p, o), g)
  /\ pc = "read" => BuiltTo(next, left, Sofar(g, p, o + 1), g)

ProductInOrder == pc = "multiply" => d \in 1..(Len(Option) + 1) /\ Multiplied(total, d - 1)

(* The dials show the way after those read so far. *)
DialsInOrder ==
  pc = "read" /\ left > 0 =>
    \E n \in 0..Len(next) :
      /\ Len(next) = Len(Sofar(g, p, o)) + n
      /\ \A k \in DOMAIN Option : dials[k] = Digit(OptionWidths(Option), n, k) + 1

OInv == /\ OutInOrder /\ CursorInRange /\ NextInOrder /\ ProductInOrder /\ DialsInOrder
        /\ FirstWaysInOrder

LEMMA WaysBefore ==
  ASSUME TypeOK, NEW n \in 1..Len(Sets)
  PROVE  /\ n - 1 \in 0..Len(Sets) /\ WaysOfFirst[n - 1] \in Ways
         /\ Len(WaysOfFirst[n - 1]) \in Nat
         /\ WaysOfSet(Sets[n]) \in Ways /\ Len(WaysOfSet(Sets[n])) \in Nat
         /\ Sets[n] \in CredentialSetQuery
         /\ Sets[n].options \in Seq(Seq(QueryId)) /\ Len(Sets[n].options) \in Nat
<1>1. n - 1 \in 0..Len(Sets) /\ Len(Sets) \in Nat
  BY SetsType
<1>2. WaysOfFirst[n - 1] \in Ways /\ WaysOfSet(Sets[n]) \in Ways
  BY <1>1, WaysAre
<1>3. Sets[n] \in CredentialSetQuery
  BY SetsType
<1>4. Sets[n].options \in Seq(Seq(QueryId))
  BY <1>3 DEF CredentialSetQuery
<1>5. Len(WaysOfFirst[n - 1]) \in Nat /\ Len(WaysOfSet(Sets[n])) \in Nat
  BY <1>2 DEF Ways
<1>6. Len(Sets[n].options) \in Nat
  BY <1>4
<1> QED
  BY <1>1, <1>2, <1>3, <1>4, <1>5, <1>6

(* One option further. *)
LEMMA SofarOption ==
  ASSUME TypeOK, NEW n \in 1..Len(Sets), NEW i \in 1..Len(WaysOfFirst[n - 1]),
         NEW j \in 1..Len(Sets[n].options)
  PROVE  /\ Sofar(n, i, j) \in Ways /\ WaysOfFirst[n - 1][i] \in Seq(Answer)
         /\ WaysOfOption(Sets[n].options[j]) \in Ways
         /\ Sofar(n, i, j + 1) =
              Joined(Sofar(n, i, j), After(WaysOfFirst[n - 1][i], WaysOfOption(Sets[n].options[j])))
<1> DEFINE W == WaysOfFirst[n - 1]
           s == Sets[n]
           option == s.options[j]
           before == ExtendedFirst(W, s, i - 1)
           few == WaysOfFirstOptions(s, j - 1)
           all == WaysOfFirstOptions(s, j)
<1>1. /\ W \in Ways /\ s \in CredentialSetQuery /\ WaysOfSet(s) \in Ways
      /\ s.options \in Seq(Seq(QueryId)) /\ Len(W) \in Nat /\ Len(s.options) \in Nat
  BY WaysBefore
<1>2. option \in Seq(QueryId)
  BY <1>1
<1>3. WaysOfOption(option) \in Ways
  <2> HIDE DEF option
  <2> QED
    BY <1>2, WaysOfOptionAre
<1>4. W[i] \in Seq(Answer)
  <2> HIDE DEF W
  <2> QED
    BY <1>1 DEF Ways, W
<1> HIDE DEF W, s
<1>5. before \in Ways
  <2>1. i - 1 \in 0..Len(W)
    BY <1>1 DEF W
  <2> QED
    BY <1>1, <2>1, ExtendedAre
<1>6. few \in Ways /\ all = Joined(few, WaysOfOption(option))
  <2>1. j \in 0..Len(s.options) /\ j - 1 \in 0..Len(s.options) /\ j # 0
    BY <1>1 DEF s
  <2> QED
    BY <1>1, <2>1, OptionsAre
<1>7. Sofar(n, i, j) = Joined(before, After(W[i], few))
  BY DEF Sofar, W, s
<1>8. Sofar(n, i, j + 1) = Joined(before, After(W[i], all))
  <2> SUFFICES ASSUME NEW k, k = j + 1 PROVE Sofar(n, i, k) = Joined(before, After(W[i], all))
    OBVIOUS
  <2>1. k - 1 = j
    BY <1>1 DEF s
  <2> QED
    BY <2>1 DEF Sofar, W, s
<1> DEFINE a == After(W[i], few)
           b == After(W[i], WaysOfOption(option))
<1> HIDE DEF before, few, all, option
<1>9. a \in Ways /\ b \in Ways
  BY <1>3, <1>4, <1>6, AfterIs
<1>10. After(W[i], all) = Joined(a, b)
  BY <1>3, <1>4, <1>6, AfterJoined
<1> HIDE DEF a, b
<1>11. Joined(Joined(before, a), b) = Joined(before, Joined(a, b))
  <2> DEFINE S == Seq(Answer)
  <2>1. before \in Seq(S) /\ a \in Seq(S) /\ b \in Seq(S)
    BY <1>5, <1>9 DEF Ways
  <2> HIDE DEF S
  <2> QED
    BY <2>1, JoinedInAnyOrder
<1>12. Joined(before, a) \in Ways
  BY <1>5, <1>9, JoinedWays
<1> QED
  BY <1>3, <1>4, <1>7, <1>8, <1>10, <1>11, <1>12 DEF W, s, option, a, b

(* One partial answer further. *)
LEMMA SofarPartial ==
  ASSUME TypeOK, NEW n \in 1..Len(Sets), NEW i \in 0..Len(WaysOfFirst[n - 1])
  PROVE  /\ ExtendedFirst(WaysOfFirst[n - 1], Sets[n], i) \in Ways
         /\ i = 0 => ExtendedFirst(WaysOfFirst[n - 1], Sets[n], i) = << >>
         /\ Sofar(n, i + 1, 1) = ExtendedFirst(WaysOfFirst[n - 1], Sets[n], i)
         /\ i # 0 => Sofar(n, i, Len(Sets[n].options) + 1) =
                      ExtendedFirst(WaysOfFirst[n - 1], Sets[n], i)
<1> DEFINE W == WaysOfFirst[n - 1]
           s == Sets[n]
           all == ExtendedFirst(W, s, i)
<1>1. /\ W \in Ways /\ s \in CredentialSetQuery /\ WaysOfSet(s) \in Ways
      /\ s.options \in Seq(Seq(QueryId)) /\ Len(W) \in Nat /\ Len(s.options) \in Nat
  BY WaysBefore
<1> HIDE DEF W, s
<1>2. i \in 0..Len(W) /\ i \in Nat
  BY <1>1 DEF W
<1>3. /\ all \in Ways
      /\ i = 0 => all = << >>
      /\ i # 0 => all = Joined(ExtendedFirst(W, s, i - 1), After(W[i], WaysOfSet(s)))
  BY <1>1, <1>2, ExtendedAre
<1>4. Sofar(n, i + 1, 1) = all
  <2> SUFFICES ASSUME NEW k, k = i + 1, NEW j, j = 1 PROVE Sofar(n, k, j) = all
    OBVIOUS
  <2>1. k - 1 = i /\ j - 1 = 0 /\ 0 \in 0..Len(s.options)
    BY <1>1, <1>2
  <2>2. WaysOfFirstOptions(s, j - 1) = << >>
    BY <1>1, <2>1, OptionsAre
  <2>3. Sofar(n, k, j) = Joined(all, After(W[k], << >>))
    BY <2>1, <2>2 DEF Sofar, W, s
  <2>4. Joined(all, << >>) = all
    <3> DEFINE S == Seq(Answer)
    <3>1. all \in Seq(S)
      BY <1>3 DEF Ways
    <3> HIDE DEF all, S
    <3> QED
      BY <3>1 DEF Joined
  <2> QED
    BY <2>3, <2>4, AfterNothing
<1>5. ASSUME i # 0 PROVE Sofar(n, i, Len(s.options) + 1) = all
  <2> SUFFICES ASSUME NEW j, j = Len(s.options) + 1 PROVE Sofar(n, i, j) = all
    OBVIOUS
  <2>1. j - 1 = Len(s.options) /\ Len(s.options) \in 0..Len(s.options)
    BY <1>1
  <2>2. WaysOfFirstOptions(s, j - 1) = WaysOfSet(s)
    BY <1>1, <2>1, OptionsAre
  <2>3. Sofar(n, i, j) = Joined(ExtendedFirst(W, s, i - 1), After(W[i], WaysOfSet(s)))
    BY <2>2 DEF Sofar, W, s
  <2> QED
    BY <1>3, <1>5, <2>3
<1> QED
  BY Zenon, <1>3, <1>4, <1>5 DEF W, s, all

(* The enumeration depends on the inputs and the candidates alone. *)
LEMMA StableWays ==
  ASSUME request' = request, candidates' = candidates
  PROVE  /\ WaysOfFirst' = WaysOfFirst /\ PurposesOfFirst' = PurposesOfFirst
         /\ \A n, i, j : Sofar(n, i, j)' = Sofar(n, i, j)
         /\ \A option : OptionWidths(option)' = OptionWidths(option)
         /\ satisfiable' = satisfiable => AllWays' = AllWays
<1>1. Queries' = Queries /\ Sets' = Sets
  BY DEF Queries, Sets, Everything
<1>2. \A id : QueryOf(id)' = QueryOf(id)
  BY <1>1 DEF QueryOf
<1>3. \A id : /\ IsMultiple(id)' <=> IsMultiple(id)
              /\ CandidatesOf(id)' = CandidatesOf(id) /\ Width(id)' = Width(id)
  BY <1>2 DEF Width, IsMultiple, CandidatesOf
<1>4. \A option : OptionWidths(option)' = OptionWidths(option)
  BY <1>3 DEF OptionWidths
<1>5. \A option, n : Way(option, n)' = Way(option, n)
  BY <1>3, <1>4 DEF Way
<1>6. \A option : OptionSatisfiable(option)' <=> OptionSatisfiable(option)
  BY Stable
<1>7. \A option : WaysOfOption(option)' = WaysOfOption(option)
  BY <1>4, <1>5, <1>6 DEF WaysOfOption
<1>8. \A s : WaysOfSet(s)' = WaysOfSet(s)
  BY Zenon, <1>7 DEF WaysOfSet
<1>9. \A partials, s : Extend(partials, s)' = Extend(partials, s)
  BY Zenon, <1>8 DEF Extend
<1>10. \A s : IsRequired(s)' <=> IsRequired(s)
  BY Stable
<1>11. WaysOfFirst' = WaysOfFirst
  BY Zenon, <1>1, <1>9, <1>10 DEF WaysOfFirst
<1>12. PurposesOfFirst' = PurposesOfFirst
  BY Zenon, <1>1, <1>10 DEF PurposesOfFirst
<1>13. \A s, n : WaysOfFirstOptions(s, n)' = WaysOfFirstOptions(s, n)
  BY Zenon, <1>7 DEF WaysOfFirstOptions
<1>14. \A partials, s, n : ExtendedFirst(partials, s, n)' = ExtendedFirst(partials, s, n)
  BY Zenon, <1>8 DEF ExtendedFirst
<1>15. \A n, i, j : Sofar(n, i, j)' = Sofar(n, i, j)
  BY <1>1, <1>11, <1>13, <1>14 DEF Sofar
<1>16. satisfiable' = satisfiable => AllWays' = AllWays
  BY <1>1, <1>10, <1>11 DEF AllWays
<1> QED
  BY <1>4, <1>11, <1>12, <1>15, <1>16

LEMMA StableOrder ==
  ASSUME request' = request, candidates' = candidates, limit' = limit
  PROVE  /\ \A combinations, more, ways, n :
              BuiltTo(combinations, more, ways, n)' <=> BuiltTo(combinations, more, ways, n)
         /\ g' = g /\ o' = o =>
              /\ Option' = Option
              /\ \A product, n : Multiplied(product, n)' <=> Multiplied(product, n)
         /\ Sets' = Sets /\ WaysOfFirst' = WaysOfFirst /\ PurposesOfFirst' = PurposesOfFirst
         /\ \A n, i, j : Sofar(n, i, j)' = Sofar(n, i, j)
         /\ \A option : OptionWidths(option)' = OptionWidths(option)
         /\ satisfiable' = satisfiable => AllWays' = AllWays
<1>1. /\ WaysOfFirst' = WaysOfFirst /\ PurposesOfFirst' = PurposesOfFirst
      /\ \A n, i, j : Sofar(n, i, j)' = Sofar(n, i, j)
      /\ \A option : OptionWidths(option)' = OptionWidths(option)
      /\ satisfiable' = satisfiable => AllWays' = AllWays
  BY StableWays
<1>2. Sets' = Sets
  BY Stable
<1>3. \A combinations, more, ways, n :
        BuiltTo(combinations, more, ways, n)' <=> BuiltTo(combinations, more, ways, n)
  BY <1>1 DEF BuiltTo
<1>4. ASSUME g' = g, o' = o
      PROVE  /\ Option' = Option
             /\ \A product, n : Multiplied(product, n)' <=> Multiplied(product, n)
  <2>1. Option' = Option
    BY <1>4, SameOption
  <2> QED
    BY <1>1, <2>1 DEF Multiplied
<1> QED
  BY <1>1, <1>2, <1>3, <1>4

(* Once no way is left, no further set finds one. *)
LEMMA NoWaysLeft ==
  ASSUME TypeOK, NEW n \in 0..Len(Sets), WaysOfFirst[n] = << >>
  PROVE  WaysOfFirst[Len(Sets)] = << >>
<1> DEFINE L == Len(Sets)
           bad == {k \in n..L : WaysOfFirst[k] # << >>}
<1>0. L \in Nat /\ n \in Nat
  BY SetsType
<1>1. bad = {}
  <2> SUFFICES ASSUME bad # {} PROVE FALSE
    OBVIOUS
  <2>1. PICK k \in bad : \A j \in bad : k <= j
    <3>1. bad \in SUBSET Nat
      BY <1>0
    <3> HIDE DEF bad
    <3> QED
      BY <3>1, SmallestNat
  <2>2. k \in 1..L /\ k - 1 \in n..L /\ k - 1 \notin bad
    BY <1>0, <2>1
  <2>3. WaysOfFirst[k - 1] = << >>
    BY <2>2
  <2>4. /\ WaysOfSet(Sets[k]) \in Ways
        /\ WaysOfFirst[k] = IF IsRequired(k) THEN Extend(<< >>, Sets[k]) ELSE << >>
    BY <2>2, <2>3, WaysAre
  <2>5. Extend(<< >>, Sets[k]) = << >>
    <3>1. << >> \in Ways /\ 0 \in 0..Len(<< >>) /\ 0 = Len(<< >>)
      BY DEF Ways
    <3> QED
      BY <2>4, <3>1, ExtendedAre
  <2> QED
    BY <2>1, <2>4, <2>5
<1>2. L \in n..L
  BY <1>0
<1> QED
  BY <1>1, <1>2

(* What is in order when all sets are behind is the answer. *)
LEMMA FinishedInOrder ==
  ASSUME TypeOK, satisfiable, \E s \in DOMAIN Sets : IsRequired(s),
         NEW combinations, Len(combinations) \in Nat, Len(combinations) <= limit,
         BuiltTo(combinations, 0, WaysOfFirst[Len(Sets)], Len(Sets))
  PROVE  /\ Len(combinations) = IF Len(AllWays) < limit THEN Len(AllWays) ELSE limit
         /\ \A n \in DOMAIN combinations :
              combinations[n] = [answers |-> AllWays[n], purposes |-> PurposesOfFirst[Len(Sets)]]
<1>1. AllWays = WaysOfFirst[Len(Sets)]
  BY DEF AllWays
<1>2. Len(Sets) \in 0..Len(Sets)
  BY SetsType
<1>3. Len(AllWays) \in Nat /\ limit \in Nat
  BY <1>1, <1>2, WaysAre, InputsAreWellFormed DEF Ways, TypeOK
<1> QED
  BY <1>1, <1>3 DEF BuiltTo

LEMMA WithinSet ==
  ASSUME TInv, pc \in {"option", "multiply", "read"}
  PROVE  /\ g \in 1..Len(Sets) /\ IsRequired(g) /\ limit \in Nat
         /\ DOMAIN out = 1..Len(out) /\ Len(out) \in Nat /\ Len(next) \in Nat
         /\ DOMAIN Sets[g].options = 1..Len(Sets[g].options) /\ Len(Sets[g].options) \in Nat
         /\ Len(WaysOfFirst[g - 1]) \in Nat
<1>1. g \in 1..Len(Sets) /\ IsRequired(g)
  BY SetsType DEF TInv, Cursor
<1>2. /\ Sets[g].options \in Seq(Seq(QueryId)) /\ Len(Sets[g].options) \in Nat
      /\ Len(WaysOfFirst[g - 1]) \in Nat
  BY <1>1, WaysBefore DEF TInv
<1>3. /\ DOMAIN out = 1..Len(out) /\ Len(out) \in Nat /\ Len(next) \in Nat /\ limit \in Nat
  BY InputsAreWellFormed DEF TInv, TypeOK
<1> QED
  BY <1>1, <1>2, <1>3

(* What has been gone through as the cursors move on. *)
LEMMA NothingSofar ==
  ASSUME TypeOK, NEW n \in 1..Len(Sets)
  PROVE  Sofar(n, 1, 1) = << >>
<1> DEFINE i == 0
<1>1. i \in 0..Len(WaysOfFirst[n - 1])
  BY WaysBefore
<1>2. i = 0 /\ i + 1 = 1
  OBVIOUS
<1> HIDE DEF i
<1>3. Sofar(n, i + 1, 1) = << >>
  BY <1>1, <1>2, SofarPartial
<1> QED
  BY <1>2, <1>3

LEMMA PartialPassed ==
  ASSUME TInv, OInv, NextPartial
  PROVE  Sofar(g, p + 1, 1) = Sofar(g, p, o)
<1>1. /\ g \in 1..Len(Sets) /\ Len(out) \in Nat /\ p \in 1..Len(out)
      /\ Len(Sets[g].options) \in Nat /\ o \notin 1..Len(Sets[g].options)
      /\ Len(WaysOfFirst[g - 1]) \in Nat
  BY WithinSet DEF NextPartial
<1>2. o = Len(Sets[g].options) + 1
  BY <1>1 DEF NextPartial, OInv, CursorInRange
<1>3. p \in 0..Len(WaysOfFirst[g - 1]) /\ p # 0
  BY <1>1 DEF NextPartial, OInv, OutInOrder, Enumerating, BuiltTo
<1> QED
  BY <1>1, <1>2, <1>3, SofarPartial DEF TInv

LEMMA OptionPassed ==
  ASSUME TInv, OInv, SkipOption
  PROVE  Sofar(g, p, o + 1) = Sofar(g, p, o)
<1>1. /\ g \in 1..Len(Sets) /\ Len(out) \in Nat /\ p \in 1..Len(out)
      /\ Len(Sets[g].options) \in Nat /\ o \in 1..Len(Sets[g].options)
      /\ Len(WaysOfFirst[g - 1]) \in Nat
  BY WithinSet DEF SkipOption
<1>2. p \in 1..Len(WaysOfFirst[g - 1])
  BY <1>1 DEF SkipOption, OInv, OutInOrder, Enumerating, BuiltTo
<1>3. WaysOfOption(Option) = << >>
  BY DEF SkipOption, WaysOfOption
<1>4. /\ Sofar(g, p, o) \in Ways
      /\ Sofar(g, p, o + 1) = Joined(Sofar(g, p, o), After(WaysOfFirst[g - 1][p], << >>))
  BY <1>1, <1>2, <1>3, SofarOption DEF TInv, Option
<1> DEFINE S == Seq(Answer)
           f == Sofar(g, p, o)
<1>5. f \in Seq(S) /\ Sofar(g, p, o + 1) = Joined(f, << >>)
  BY <1>4, AfterNothing DEF Ways
<1> HIDE DEF S, f
<1>6. Joined(f, << >>) = f
  BY <1>5 DEF Joined
<1> QED
  BY <1>5, <1>6 DEF f

LEMMA SetPassed ==
  ASSUME TInv, OInv, LeaveSet
  PROVE  Sofar(g, p, o) = ExtendedFirst(WaysOfFirst[g - 1], Sets[g], Len(out))
<1> DEFINE n == Len(out)
<1>1. /\ g \in 1..Len(Sets) /\ n \in Nat /\ p \notin 1..n /\ Len(WaysOfFirst[g - 1]) \in Nat
  BY WithinSet DEF LeaveSet
<1>2. p = n + 1 /\ o = 1
  BY <1>1 DEF LeaveSet, OInv, CursorInRange
<1>3. n \in 0..Len(WaysOfFirst[g - 1])
  BY <1>1 DEF LeaveSet, OInv, OutInOrder, Enumerating, BuiltTo
<1> QED
  BY <1>1, <1>2, <1>3, SofarPartial DEF TInv

LEMMA EntersInOrder ==
  ASSUME TInv, LInv, OInv, EnterSet
  PROVE  OInv'
<1>1. g \in 1..Len(Sets)
  BY SetsType DEF EnterSet, TInv
<1>2. Sofar(g, 1, 1) = << >>
  BY <1>1, NothingSofar DEF TInv
<1>3. BuiltTo(<< >>, 0, Sofar(g, 1, 1), g)
  BY <1>2 DEF BuiltTo
<1>4. /\ Len(out) \in Nat /\ Len(Sets[g].options) \in Nat
  BY <1>1, WaysBefore DEF TInv, TypeOK
<1>5. /\ pc = "group" /\ pc' = "option" /\ p' = 1 /\ o' = 1 /\ next' = << >> /\ g' = g /\ out' = out
      /\ request' = request /\ candidates' = candidates /\ limit' = limit
  BY DEF EnterSet, inputs, evaluating
<1>6. OutInOrder'
  BY <1>5, StableOrder DEF OInv, OutInOrder, Enumerating
<1>7. CursorInRange'
  <2>1. 1 \in 1..(Len(out) + 1) /\ 1 \in 1..(Len(Sets[g].options) + 1)
    BY <1>4
  <2> QED
    BY <1>5, <2>1, StableOrder DEF CursorInRange
<1>8. NextInOrder'
  BY <1>3, <1>5, StableOrder DEF NextInOrder
<1> QED
  BY <1>5, <1>6, <1>7, <1>8 DEF OInv, ProductInOrder, DialsInOrder, FirstWaysInOrder

LEMMA PartialsInOrder ==
  ASSUME TInv, LInv, OInv, NextPartial
  PROVE  OInv'
<1>1. /\ pc = "option" /\ pc' = "option" /\ p' = p + 1 /\ o' = 1 /\ next' = next /\ g' = g
      /\ out' = out /\ request' = request /\ candidates' = candidates /\ limit' = limit
  BY DEF NextPartial, inputs, evaluating
<1>2. /\ g \in 1..Len(Sets) /\ Len(out) \in Nat /\ p \in 1..Len(out)
      /\ Len(Sets[g].options) \in Nat /\ o \notin 1..Len(Sets[g].options)
      /\ Len(WaysOfFirst[g - 1]) \in Nat
  BY <1>1, WithinSet DEF NextPartial
<1>5. Sofar(g, p + 1, 1) = Sofar(g, p, o)
  BY PartialPassed
<1>6. OutInOrder'
  BY <1>1, StableOrder DEF OInv, OutInOrder, Enumerating
<1>7. CursorInRange'
  <2>1. p + 1 \in 1..(Len(out) + 1) /\ 1 \in 1..(Len(Sets[g].options) + 1)
    BY <1>2
  <2> QED
    BY <1>1, <2>1, StableOrder DEF CursorInRange
<1>8. NextInOrder'
  BY <1>1, <1>5, StableOrder DEF OInv, NextInOrder
<1> QED
  BY <1>1, <1>6, <1>7, <1>8 DEF OInv, ProductInOrder, DialsInOrder, FirstWaysInOrder

LEMMA LeavesInOrder ==
  ASSUME TInv, LInv, OInv, LeaveSet
  PROVE  OInv'
<1> DEFINE W == WaysOfFirst[g - 1]
           s == Sets[g]
           n == Len(out)
           w == Len(WaysOfSet(s))
<1>1. /\ pc = "option" /\ out' = next /\ g' = g + 1
      /\ pc' = IF next = << >> THEN "done" ELSE "group"
      /\ request' = request /\ candidates' = candidates /\ limit' = limit
      /\ satisfiable' = satisfiable
  BY DEF LeaveSet, inputs, evaluating
<1>2. /\ g \in 1..Len(Sets) /\ n \in Nat /\ Len(next) \in Nat /\ p \notin 1..n /\ limit \in Nat
      /\ IsRequired(g)
  BY <1>1, WithinSet DEF LeaveSet
<1>4. W \in Ways /\ Len(W) \in Nat /\ WaysOfSet(s) \in Ways /\ w \in Nat /\ Len(Sets) \in Nat
  BY <1>2, WaysBefore, SetsType DEF TInv
<1>5. /\ n <= Len(W)
      /\ n = Len(W) \/ n >= limit
  BY <1>1, <1>2 DEF OInv, OutInOrder, Enumerating, BuiltTo
<1>6. Sofar(g, p, o) = ExtendedFirst(W, s, n)
  BY SetPassed
<1>7. WaysOfFirst[g] = ExtendedFirst(W, s, Len(W)) /\ WaysOfFirst[g] \in Ways
  <2>1. g \in 0..Len(Sets) /\ Len(W) \in 0..Len(W)
    BY <1>2, <1>4
  <2>2. WaysOfFirst[g] = Extend(W, s) /\ WaysOfFirst[g] \in Ways
    BY <1>2, <2>1, WaysAre DEF TInv
  <2>3. ExtendedFirst(W, s, Len(W)) = Extend(W, s)
    <3> HIDE DEF W, s
    <3> QED
      BY <1>4, <2>1, ExtendedAre
  <2> QED
    BY <2>2, <2>3
<1> DEFINE few == ExtendedFirst(W, s, n)
           all == WaysOfFirst[g]
<1>8. /\ Len(few) = n * w /\ Len(few) <= Len(all)
      /\ \A i \in 1..Len(few) : all[i] = few[i]
  <2>1. n \in 0..Len(W) /\ Len(W) \in n..Len(W)
    BY <1>2, <1>4, <1>5
  <2> HIDE DEF W, s, n
  <2>2. /\ Len(ExtendedFirst(W, s, n)) = n * Len(WaysOfSet(s))
        /\ Len(ExtendedFirst(W, s, n)) <= Len(ExtendedFirst(W, s, Len(W)))
        /\ \A i \in 1..Len(ExtendedFirst(W, s, n)) :
             ExtendedFirst(W, s, Len(W))[i] = ExtendedFirst(W, s, n)[i]
    BY <1>4, <2>1, ExtendedStarts
  <2> QED
    BY <1>7, <2>2
<1>9. Len(all) = Len(W) * w
  <2>1. Len(W) \in 0..Len(W) /\ Len(W) \in Len(W)..Len(W)
    BY <1>4
  <2> HIDE DEF W, s
  <2> QED
    BY <1>4, <1>7, <2>1, ExtendedStarts
<1>10. BuiltTo(next, 0, few, g)
  BY <1>1, <1>6 DEF OInv, NextInOrder
<1> HIDE DEF few, all, W, s, n, w
<1>11. BuiltTo(next, 0, all, g)
  <2>1. DOMAIN next = 1..Len(next)
    BY DEF TInv, TypeOK
  <2>2. n * w \in Nat /\ (n = Len(W) => n * w = Len(W) * w)
    BY <1>2, <1>4
  <2>3. n >= limit => (n * w >= limit \/ (n * w = 0 /\ Len(W) * w = 0))
    <3>1. CASE w = 0
      BY <1>2, <1>4, <3>1
    <3>2. CASE w # 0
      <4>1. n * w >= n
        <5>1. PICK z \in Nat : w = z + 1
          <6>1. w - 1 \in Nat /\ w = (w - 1) + 1
            BY <1>4, <3>2
          <6> QED
            BY <6>1
        <5>2. n * w = n * z + n /\ n * z >= 0
          BY <1>2, <5>1
        <5> QED
          BY <1>2, <5>2
      <4> QED
        BY <1>2, <2>2, <4>1
    <3> QED
      BY <3>1, <3>2
  <2>4. /\ Len(next) + 0 <= Len(few)
        /\ Len(next) + 0 = Len(few) \/ Len(next) + 0 >= limit
        /\ \A i \in 1..Len(next) :
             next[i] = [answers |-> few[i], purposes |-> PurposesOfFirst[g]]
    BY <1>10, <2>1 DEF BuiltTo
  <2> DEFINE nw == n * w
             Ww == Len(W) * w
  <2>5. /\ nw \in Nat /\ Len(few) = nw /\ Len(all) = Ww /\ nw <= Ww
        /\ n = Len(W) => nw = Ww
        /\ n >= limit => nw >= limit \/ (nw = 0 /\ Ww = 0)
    BY <1>8, <1>9, <2>2, <2>3
  <2> HIDE DEF nw, Ww
  <2>6. /\ Len(next) + 0 <= Len(all)
        /\ Len(next) + 0 = Len(all) \/ Len(next) + 0 >= limit
    <3>1. Ww \in Nat
      BY <1>4 DEF Ww
    <3> QED
      BY <1>2, <1>5, <2>4, <2>5, <3>1 DEF n
  <2>7. \A i \in 1..Len(next) : next[i] = [answers |-> all[i], purposes |-> PurposesOfFirst[g]]
    <3> SUFFICES ASSUME NEW i \in 1..Len(next)
                 PROVE  next[i] = [answers |-> all[i], purposes |-> PurposesOfFirst[g]]
      OBVIOUS
    <3>1. i \in 1..Len(few)
      BY <1>2, <2>4, <2>5
    <3> QED
      BY <1>8, <2>4, <3>1
  <2> QED
    BY <2>1, <2>6, <2>7 DEF BuiltTo
<1>12. OutInOrder'
  <2>1. g' \in 1..(Len(Sets) + 1) /\ g' - 1 = g
    BY <1>1, <1>2, <1>4
  <2>2. BuiltTo(out', 0, WaysOfFirst[g' - 1], g' - 1)
    BY <1>1, <1>11, <2>1 DEF all
  <2> QED
    BY <1>1, <2>1, <2>2, StableOrder DEF OutInOrder
<1>13. FirstWaysInOrder'
  <2> SUFFICES ASSUME next = << >>
               PROVE  /\ Len(out') = IF Len(AllWays) < limit THEN Len(AllWays) ELSE limit
                      /\ \A i \in DOMAIN out' :
                           out'[i] = [answers |-> AllWays[i], purposes |-> PurposesOfFirst[Len(Sets)]]
    BY <1>1, StableOrder DEF FirstWaysInOrder
  <2>1. AllWays = WaysOfFirst[Len(Sets)]
    BY <1>1 DEF LInv, Enumerating, AllWays
  <2>2. limit = 0 \/ all = << >>
    <3>1. Len(all) = 0 \/ 0 >= limit
      BY <1>11 DEF BuiltTo
    <3>2. Len(all) = 0 => all = << >>
      BY <1>7 DEF Ways, all
    <3> QED
      BY <1>2, <3>1, <3>2
  <2>3. all = << >> => AllWays = << >>
    <3>1. g \in 0..Len(Sets)
      BY <1>2, <1>4
    <3> QED
      BY <2>1, <3>1, NoWaysLeft DEF TInv, all
  <2>4. Len(AllWays) \in Nat
    <3>1. Len(Sets) \in 0..Len(Sets)
      BY <1>4
    <3> QED
      BY <2>1, <3>1, WaysAre DEF Ways, TInv
  <2> QED
    BY <1>1, <1>2, <2>2, <2>3, <2>4
<1> QED
  BY <1>1, <1>12, <1>13 DEF OInv, CursorInRange, NextInOrder, ProductInOrder, DialsInOrder

LEMMA OptionSkippedInOrder ==
  ASSUME TInv, LInv, OInv, SkipOption
  PROVE  OInv'
<1>1. /\ pc = "option" /\ pc' = "option" /\ p' = p /\ o' = o + 1 /\ next' = next /\ g' = g
      /\ out' = out /\ request' = request /\ candidates' = candidates /\ limit' = limit
      /\ ~OptionSatisfiable(Option)
  BY DEF SkipOption, inputs, evaluating
<1>2. /\ g \in 1..Len(Sets) /\ Len(out) \in Nat /\ p \in 1..Len(out)
      /\ Len(Sets[g].options) \in Nat /\ o \in 1..Len(Sets[g].options)
      /\ Len(WaysOfFirst[g - 1]) \in Nat
  BY <1>1, WithinSet DEF SkipOption
<1>4. Sofar(g, p, o + 1) = Sofar(g, p, o)
  BY OptionPassed
<1>5. OutInOrder'
  BY <1>1, StableOrder DEF OInv, OutInOrder, Enumerating
<1>6. CursorInRange'
  <2>1. o + 1 \in 1..(Len(Sets[g].options) + 1) /\ p \in 1..(Len(out) + 1) /\ p # Len(out) + 1
    BY <1>2
  <2> QED
    BY <1>1, <2>1, StableOrder DEF CursorInRange
<1>7. NextInOrder'
  BY <1>1, <1>4, StableOrder DEF OInv, NextInOrder
<1> QED
  BY <1>1, <1>5, <1>6, <1>7 DEF OInv, ProductInOrder, DialsInOrder, FirstWaysInOrder

(* The product, as far as a usize can tell, after one more width. *)
LEMMA ProductGoesOn ==
  ASSUME NEW product \in Dropped, NEW w \in Nat \ {0}, NEW a \in Nat \ {0},
         IF product.exact THEN product.count = a ELSE product.count = MaxUsize /\ a > MaxUsize
  PROVE  LET more == CheckedMul(product, w)
         IN IF more.exact THEN more.count = a * w ELSE more.count = MaxUsize /\ a * w > MaxUsize
<1> DEFINE b == product.count
           m == MaxUsize
<1>1. m \in Nat \ {0} /\ b \in 0..m /\ product.exact \in BOOLEAN
  BY InputsAreWellFormed DEF Dropped
<1>2. CheckedMul(product, w) = IF b * w > m THEN [count |-> m, exact |-> FALSE]
                               ELSE [count |-> b * w, exact |-> product.exact]
  BY DEF CheckedMul
<1>3. b * w \in Nat /\ a * w \in Nat /\ a * w >= a /\ b * w >= b /\ (w = 1 => a * w = a)
  <2>1. PICK z \in Nat : w = z + 1
    <3>1. w - 1 \in Nat /\ w = (w - 1) + 1
      OBVIOUS
    <3> QED
      BY <3>1
  <2>2. a * w = a * z + a /\ a * z \in Nat
    BY <2>1
  <2>3. b * w = b * z + b /\ b * z \in Nat
    <3> HIDE DEF b, m
    <3> QED
      BY <1>1, <2>1
  <2> QED
    BY <1>1, <2>2, <2>3
<1>4. CASE product.exact
  BY <1>1, <1>2, <1>3, <1>4
<1>5. CASE ~product.exact
  <2>1. b = m /\ a > m
    BY <1>5
  <2>2. b * w <= m => b * w = m
    BY <1>1, <1>3, <2>1
  <2> HIDE DEF b, m
  <2>3. a * w > m
    BY <1>1, <1>3, <2>1
  <2> QED
    BY <1>2, <1>5, <2>2, <2>3, <1>3, <1>1 DEF m
<1> QED
  BY <1>4, <1>5

LEMMA AtOption ==
  ASSUME TInv, pc \in {"multiply", "read"}
  PROVE  /\ Option \in Seq(QueryId) /\ OptionSatisfiable(Option)
         /\ Option = Sets[g].options[o] /\ o \in 1..Len(Sets[g].options)
         /\ p \in 1..Len(out)
         /\ DOMAIN Option = 1..Len(Option) /\ Len(Option) \in Nat
         /\ OptionWidths(Option) \in Seq(Nat \ {0}) /\ Len(OptionWidths(Option)) = Len(Option)
         /\ \A k \in 1..Len(Option) : OptionWidths(Option)[k] = Width(Option[k])
<1>1. Option \in Seq(QueryId) /\ OptionSatisfiable(Option)
  BY OptionType DEF TInv, Cursor
<1>2. DOMAIN Option = 1..Len(Option) /\ Len(Option) \in Nat
  BY <1>1
<1>3. o \in 1..Len(Sets[g].options) /\ p \in 1..Len(out)
  BY WithinSet DEF TInv, Cursor
<1> QED
  BY <1>1, <1>2, <1>3, WidthsAre DEF TInv, Option

LEMMA OpensInOrder ==
  ASSUME TInv, LInv, OInv, OpenOption
  PROVE  OInv'
<1>1. /\ pc = "option" /\ pc' = "multiply" /\ p' = p /\ o' = o /\ next' = next /\ g' = g
      /\ out' = out /\ request' = request /\ candidates' = candidates /\ limit' = limit
      /\ OptionSatisfiable(Option) /\ d' = 1 /\ total' = [count |-> 1, exact |-> TRUE]
      /\ o \in DOMAIN Sets[g].options
  BY DEF OpenOption, inputs, evaluating
<1>2. Option \in Seq(QueryId)
  BY <1>1, OptionType DEF TInv, Cursor
<1>3. 1 \in 1..(Len(Option) + 1)
  BY <1>2
<1>4. Multiplied(total', 0)
  <2>1. Products(OptionWidths(Option))[0] = 1
    BY <1>1, <1>2, WidthsAre, ProductsAre DEF TInv
  <2> QED
    BY <1>1, <2>1 DEF Multiplied
<1>5. OutInOrder'
  BY <1>1, StableOrder DEF OInv, OutInOrder, Enumerating
<1>6. CursorInRange'
  BY <1>1, StableOrder DEF OInv, CursorInRange
<1>7. NextInOrder'
  BY <1>1, StableOrder DEF OInv, NextInOrder
<1>8. ProductInOrder'
  <2>1. d' - 1 = 0
    BY <1>1
  <2>2. Multiplied(total', d' - 1)
    BY <1>4, <2>1
  <2> QED
    BY <1>1, <1>3, <2>2, StableOrder DEF ProductInOrder
<1> QED
  BY <1>1, <1>5, <1>6, <1>7, <1>8 DEF OInv, DialsInOrder, FirstWaysInOrder

LEMMA MultipliesInOrder ==
  ASSUME TInv, LInv, OInv, MultiplyWidth
  PROVE  OInv'
<1>1. /\ pc = "multiply" /\ pc' = "multiply" /\ p' = p /\ o' = o /\ next' = next /\ g' = g
      /\ out' = out /\ request' = request /\ candidates' = candidates /\ limit' = limit
      /\ d \in DOMAIN Option /\ d' = d + 1 /\ total' = CheckedMul(total, Width(Option[d]))
  BY DEF MultiplyWidth, inputs, evaluating
<1>2. /\ DOMAIN Option = 1..Len(Option) /\ Len(Option) \in Nat
      /\ OptionWidths(Option) \in Seq(Nat \ {0}) /\ Len(OptionWidths(Option)) = Len(Option)
      /\ OptionWidths(Option)[d] = Width(Option[d])
  BY <1>1, AtOption
<1> DEFINE P == Products(OptionWidths(Option))
           w == Width(Option[d])
<1>3. P[d - 1] \in Nat \ {0} /\ P[d] = P[d - 1] * w /\ w \in Nat \ {0}
  <2>1. d \in 1..Len(OptionWidths(Option)) /\ d - 1 \in 0..Len(OptionWidths(Option))
    BY <1>1, <1>2
  <2>2. OptionWidths(Option)[d] \in Nat \ {0}
    BY <1>2, <2>1
  <2> QED
    BY <1>2, <2>1, <2>2, ProductsAre
<1>4. Multiplied(total', d)
  <2>1. total \in Dropped
    BY DEF TInv, TypeOK
  <2>2. IF total.exact THEN total.count = P[d - 1] ELSE total.count = MaxUsize /\ P[d - 1] > MaxUsize
    BY <1>1 DEF OInv, ProductInOrder, Multiplied
  <2> HIDE DEF P, w
  <2>3. IF CheckedMul(total, w).exact THEN CheckedMul(total, w).count = P[d - 1] * w
        ELSE CheckedMul(total, w).count = MaxUsize /\ P[d - 1] * w > MaxUsize
    BY <1>3, <2>1, <2>2, ProductGoesOn
  <2> QED
    BY <1>1, <1>3, <2>3 DEF Multiplied, P, w
<1>5. OutInOrder'
  BY <1>1, StableOrder DEF OInv, OutInOrder, Enumerating
<1>6. CursorInRange'
  BY <1>1, StableOrder DEF OInv, CursorInRange
<1>7. NextInOrder'
  BY <1>1, StableOrder DEF OInv, NextInOrder
<1>8. ProductInOrder'
  <2>1. d' - 1 = d /\ d' \in 1..(Len(Option) + 1)
    BY <1>1, <1>2
  <2>2. Multiplied(total', d' - 1)
    BY <1>4, <2>1
  <2> QED
    BY <1>1, <2>1, <2>2, StableOrder DEF ProductInOrder
<1> QED
  BY <1>1, <1>5, <1>6, <1>7, <1>8 DEF OInv, DialsInOrder, FirstWaysInOrder

(* What the option under the cursor adds to what came before it. *)
LEMMA OptionAdds ==
  ASSUME TInv, OInv, pc \in {"multiply", "read"}
  PROVE  LET before == Sofar(g, p, o)
             with   == Sofar(g, p, o + 1)
             more   == Products(OptionWidths(Option))[Len(Option)]
         IN /\ Len(before) \in Nat /\ more \in Nat \ {0} /\ Len(with) = Len(before) + more
            /\ \A i \in 1..Len(before) : with[i] = before[i]
            /\ \A i \in 1..more :
                 with[Len(before) + i] = Joined(out[p].answers, Way(Option, i - 1))
            /\ out[p].purposes = PurposesOfFirst[g - 1]
<1> DEFINE W == WaysOfFirst[g - 1]
           before == Sofar(g, p, o)
           with == Sofar(g, p, o + 1)
           ways == WaysOfOption(Option)
           added == After(W[p], ways)
           more == Products(OptionWidths(Option))[Len(Option)]
<1>1. /\ g \in 1..Len(Sets) /\ Len(out) \in Nat /\ DOMAIN out = 1..Len(out)
      /\ Len(W) \in Nat /\ p \in 1..Len(out) /\ o \in 1..Len(Sets[g].options)
      /\ Option \in Seq(QueryId) /\ OptionSatisfiable(Option) /\ Option = Sets[g].options[o]
  BY WithinSet, AtOption
<1>2. /\ p \in 1..Len(W)
      /\ out[p] = [answers |-> W[p], purposes |-> PurposesOfFirst[g - 1]]
  BY <1>1 DEF OInv, OutInOrder, Enumerating, BuiltTo
<1>3. /\ before \in Ways /\ W[p] \in Seq(Answer) /\ ways \in Ways
      /\ with = Joined(before, added)
  BY <1>1, <1>2, SofarOption DEF TInv
<1>4. /\ more \in Nat \ {0} /\ Len(ways) = more
      /\ \A n \in 1..more : ways[n] = Way(Option, n - 1)
  <2>1. TypeOK
    BY DEF TInv
  <2> HIDE DEF TInv
  <2> QED
    BY <1>1, <2>1, WaysOfOptionAre
<1> HIDE DEF W, before, with, ways, more
<1>5. /\ added \in Ways /\ Len(added) = more
      /\ \A n \in 1..more : added[n] = Joined(W[p], Way(Option, n - 1))
  BY <1>3, <1>4, AfterIs
<1> HIDE DEF added
<1>6. /\ Len(before) \in Nat /\ Len(with) = Len(before) + more
      /\ \A i \in 1..Len(before) : with[i] = before[i]
      /\ \A i \in 1..more : with[Len(before) + i] = added[i]
  BY <1>3, <1>5, JoinedWays
<1>7. out[p].answers = W[p] /\ out[p].purposes = PurposesOfFirst[g - 1]
  BY <1>2
<1> QED
  BY <1>4, <1>5, <1>6, <1>7 DEF before, with, more

LEMMA DialsSetInOrder ==
  ASSUME TInv, LInv, OInv, SetDials
  PROVE  OInv'
<1> DEFINE before == Sofar(g, p, o)
           with == Sofar(g, p, o + 1)
           more == Products(OptionWidths(Option))[Len(Option)]
<1>1. /\ pc = "multiply" /\ pc' = "read" /\ p' = p /\ o' = o /\ next' = next /\ g' = g
      /\ out' = out /\ request' = request /\ candidates' = candidates /\ limit' = limit
      /\ d \notin DOMAIN Option /\ left' = Take
      /\ dials' = [k \in DOMAIN Option |-> 1]
  BY DEF SetDials, inputs, evaluating
<1>2. /\ DOMAIN Option = 1..Len(Option) /\ Len(Option) \in Nat
      /\ OptionWidths(Option) \in Seq(Nat \ {0}) /\ Len(OptionWidths(Option)) = Len(Option)
      /\ Len(next) \in Nat /\ limit \in Nat
  BY <1>1, AtOption, WithinSet
<1>3. Multiplied(total, Len(Option))
  <2>1. d - 1 = Len(Option)
    BY <1>1, <1>2 DEF OInv, ProductInOrder
  <2> QED
    BY <1>1, <2>1 DEF OInv, ProductInOrder
<1>4. /\ Len(before) \in Nat /\ more \in Nat \ {0} /\ Len(with) = Len(before) + more
      /\ \A i \in 1..Len(before) : with[i] = before[i]
  BY <1>1, OptionAdds
<1>5. BuiltTo(next, 0, before, g)
  BY <1>1 DEF OInv, NextInOrder
<1>6. /\ total.count \in 0..MaxUsize /\ total.exact \in BOOLEAN /\ limit <= MaxUsize
      /\ MaxUsize \in Nat /\ Len(next) <= limit
  BY InputsAreWellFormed DEF TInv, TypeOK, Dropped, LInv
<1>7. IF total.exact THEN total.count = more ELSE total.count = MaxUsize /\ more > MaxUsize
  BY <1>3 DEF Multiplied
<1> HIDE DEF before, with, more
<1>8. /\ Len(next) + Take <= Len(with)
      /\ Len(next) + Take = Len(with) \/ Len(next) + Take >= limit
      /\ Take > 0 => Len(next) = Len(before)
      /\ Len(next) <= Len(before)
  <2>1. Budget = limit - Len(next)
    BY <1>2, <1>6 DEF Budget
  <2>2. /\ Len(next) <= Len(before)
        /\ Len(next) = Len(before) \/ Len(next) >= limit
    BY <1>2, <1>5 DEF BuiltTo
  <2>3. Take = IF total.count <= limit - Len(next) THEN total.count ELSE limit - Len(next)
    BY <2>1 DEF Take
  <2> DEFINE b == Len(before)
             n == Len(next)
             t == Take
             count == total.count
  <2>4. /\ b \in Nat /\ more \in Nat \ {0} /\ n \in Nat /\ limit \in Nat /\ n <= limit
        /\ count \in 0..MaxUsize /\ limit <= MaxUsize /\ MaxUsize \in Nat
        /\ n <= b
        /\ n = b \/ n >= limit
        /\ t = IF count <= limit - n THEN count ELSE limit - n
        /\ count = more \/ (count = MaxUsize /\ more > MaxUsize)
    BY <1>2, <1>4, <1>6, <1>7, <2>2, <2>3
  <2> HIDE DEF b, n, t, count
  <2>5. /\ n + t <= b + more
        /\ n + t = b + more \/ n + t >= limit
        /\ t > 0 => n = b
    <3>1. CASE count <= limit - n
      <4>1. t = count
        BY <2>4, <3>1
      <4>2. CASE count = more
        BY <2>4, <3>1, <4>1, <4>2
      <4>3. CASE count = MaxUsize /\ more > MaxUsize
        BY <2>4, <3>1, <4>1, <4>3
      <4> QED
        BY <2>4, <4>2, <4>3
    <3>2. CASE ~ (count <= limit - n)
      <4>1. t = limit - n /\ limit - n < count /\ count <= more
        BY <2>4, <3>2
      <4> QED
        BY <2>4, <4>1
    <3> QED
      BY <3>1, <3>2
  <2> QED
    BY <1>4, <2>4, <2>5 DEF b, n, t
<1>9. BuiltTo(next, Take, with, g)
  <2>1. DOMAIN next = 1..Len(next)
    BY DEF TInv, TypeOK
  <2>2. \A i \in 1..Len(next) : next[i] = [answers |-> before[i], purposes |-> PurposesOfFirst[g]]
    BY <1>5, <2>1 DEF BuiltTo
  <2>3. \A i \in 1..Len(next) : with[i] = before[i]
    BY <1>2, <1>4, <1>8
  <2> QED
    BY <1>8, <2>1, <2>2, <2>3 DEF BuiltTo
<1>10. OutInOrder'
  BY <1>1, StableOrder DEF OInv, OutInOrder, Enumerating
<1>11. CursorInRange'
  BY <1>1, StableOrder DEF OInv, CursorInRange
<1>12. NextInOrder'
  BY <1>1, <1>9, StableOrder DEF NextInOrder, with
<1>13. DialsInOrder'
  <2> SUFFICES ASSUME Take > 0
               PROVE  \E n \in 0..Len(next) :
                        /\ Len(next) = Len(before) + n
                        /\ \A k \in DOMAIN Option :
                             dials'[k] = Digit(OptionWidths(Option), n, k) + 1
    BY <1>1, StableOrder DEF DialsInOrder, before
  <2>1. Len(next) = Len(before) + 0 /\ 0 \in 0..Len(next)
    BY <1>2, <1>4, <1>8
  <2>2. \A k \in DOMAIN Option : dials'[k] = Digit(OptionWidths(Option), 0, k) + 1
    BY <1>1, <1>2, FirstDigits
  <2> QED
    BY <2>1, <2>2
<1> QED
  BY <1>1, <1>10, <1>11, <1>12, <1>13 DEF OInv, ProductInOrder, FirstWaysInOrder

LEMMA ReadsInOrder ==
  ASSUME TInv, LInv, OInv, ReadDials
  PROVE  OInv'
<1> DEFINE before == Sofar(g, p, o)
           with == Sofar(g, p, o + 1)
           more == Products(OptionWidths(Option))[Len(Option)]
           widths == OptionWidths(Option)
<1>1. /\ pc = "read" /\ pc' = "read" /\ p' = p /\ o' = o /\ g' = g
      /\ out' = out /\ request' = request /\ candidates' = candidates /\ limit' = limit
      /\ left > 0 /\ left' = left - 1 /\ dials' = Turned
      /\ next' = Append(next, Extended(out[p]))
  BY DEF ReadDials, inputs, evaluating
<1>2. /\ DOMAIN Option = 1..Len(Option) /\ Len(Option) \in Nat
      /\ widths \in Seq(Nat \ {0}) /\ Len(widths) = Len(Option)
      /\ \A k \in 1..Len(Option) : widths[k] = Width(Option[k])
      /\ Len(next) \in Nat /\ limit \in Nat /\ g \in 1..Len(Sets) /\ IsRequired(g)
  BY <1>1, AtOption, WithinSet
<1>3. /\ Len(before) \in Nat /\ more \in Nat \ {0} /\ Len(with) = Len(before) + more
      /\ \A i \in 1..more : with[Len(before) + i] = Joined(out[p].answers, Way(Option, i - 1))
      /\ out[p].purposes = PurposesOfFirst[g - 1]
  BY <1>1, OptionAdds
<1>4. PICK n \in 0..Len(next) :
        /\ Len(next) = Len(before) + n
        /\ \A k \in DOMAIN Option : dials[k] = Digit(widths, n, k) + 1
  BY <1>1 DEF OInv, DialsInOrder
<1>5. BuiltTo(next, left, with, g)
  BY <1>1 DEF OInv, NextInOrder
<1>6. left \in Nat /\ next \in Seq(Combination) /\ Extended(out[p]) \in Combination
  BY <1>1, ExtendedType, InputsAreWellFormed DEF TInv, TypeOK
<1>7. Reading = Way(Option, n)
  BY <1>4 DEF Reading, Way
<1>8. Extended(out[p]) = [answers |-> with[Len(next) + 1], purposes |-> PurposesOfFirst[g]]
  <2>1. n + 1 \in 1..more /\ Len(next) + 1 = Len(before) + (n + 1) /\ n + 1 - 1 = n
    <3> HIDE DEF before, with, more
    <3> QED
      BY <1>1, <1>2, <1>3, <1>4, <1>5, <1>6 DEF BuiltTo
  <2>2. with[Len(next) + 1] = Joined(out[p].answers, Way(Option, n))
    <3> HIDE DEF before, with, more
    <3> SUFFICES ASSUME NEW i \in 1..more, i = n + 1
                 PROVE  with[Len(before) + i] = Joined(out[p].answers, Way(Option, n))
      BY <2>1
    <3>1. i - 1 = n
      BY <1>4
    <3>2. with[Len(before) + i] = Joined(out[p].answers, Way(Option, i - 1))
      BY <1>3
    <3> QED
      BY <3>1, <3>2
  <2>3. Extended(out[p]).answers = with[Len(next) + 1]
    BY <1>7, <2>2 DEF Extended, Joined
  <2>4. Extended(out[p]).purposes = PurposesOfFirst[g]
    <3>1. PurposesOfFirst[g] = IF Sets[g].purpose # None
                               THEN Append(PurposesOfFirst[g - 1], Sets[g].purpose)
                               ELSE PurposesOfFirst[g - 1]
      BY <1>2, PurposesAre DEF TInv
    <3> QED
      BY <1>3, <3>1 DEF Extended
  <2>5. Extended(out[p]) = [answers |-> Extended(out[p]).answers, purposes |-> Extended(out[p]).purposes]
    BY DEF Extended
  <2> QED
    BY <2>3, <2>4, <2>5
<1> HIDE DEF before, with, more
<1>9. BuiltTo(next', left', with, g)
  <2>1. /\ DOMAIN next = 1..Len(next) /\ DOMAIN next' = 1..(Len(next) + 1) /\ Len(next') = Len(next) + 1
        /\ \A i \in 1..Len(next) : next'[i] = next[i]
        /\ next'[Len(next) + 1] = Extended(out[p])
    <3> DEFINE e == Extended(out[p])
    <3> HIDE DEF e
    <3>1. next \in Seq(Combination) /\ e \in Combination /\ next' = Append(next, e)
      BY <1>1, <1>6 DEF e
    <3>2. /\ DOMAIN next = 1..Len(next) /\ DOMAIN next' = 1..(Len(next) + 1)
          /\ Len(next') = Len(next) + 1
          /\ \A i \in 1..Len(next) : next'[i] = next[i]
          /\ next'[Len(next) + 1] = e
      BY <3>1
    <3> QED
      BY <3>2 DEF e
  <2>2. Len(next') + left' = Len(next) + left
    BY <1>1, <1>2, <1>6, <2>1
  <2>3. \A i \in 1..Len(next) : next[i] = [answers |-> with[i], purposes |-> PurposesOfFirst[g]]
    BY <1>5, <2>1 DEF BuiltTo
  <2>4. \A i \in DOMAIN next' : i \in 1..Len(next) \/ i = Len(next) + 1
    BY <1>2, <2>1
  <2>5. \A i \in DOMAIN next' : next'[i] = [answers |-> with[i], purposes |-> PurposesOfFirst[g]]
    BY <1>8, <2>1, <2>3, <2>4
  <2> QED
    BY <1>5, <2>2, <2>5 DEF BuiltTo
<1>10. OutInOrder'
  BY <1>1, StableOrder DEF OInv, OutInOrder, Enumerating
<1>11. CursorInRange'
  BY <1>1, StableOrder DEF OInv, CursorInRange
<1>12. NextInOrder'
  BY <1>1, <1>9, StableOrder DEF NextInOrder, with
<1>13. DialsInOrder'
  <2> DEFINE m == n + 1
  <2>1. m \in 0..Len(next') /\ Len(next') = Len(before) + m
    <3>1. Len(next') = Len(next) + 1
      BY <1>1, <1>6
    <3> QED
      BY <1>2, <1>3, <1>4, <3>1
  <2>2. ASSUME NEW k \in DOMAIN Option
        PROVE  Turned[k] = Digit(widths, m, k) + 1
    <3> DEFINE digit(j) == Digit(widths, n, j)
    <3>1. k \in 1..Len(widths) /\ n \in Nat
      BY <1>2, <1>4
    <3>2. \A j \in 1..Len(Option) : /\ dials[j] = digit(j) + 1
                                     /\ digit(j) \in 0..(widths[j] - 1) /\ widths[j] \in Nat \ {0}
                                     /\ Width(Option[j]) = widths[j]
      <4> SUFFICES ASSUME NEW j \in 1..Len(Option)
                   PROVE  /\ dials[j] = digit(j) + 1
                          /\ digit(j) \in 0..(widths[j] - 1) /\ widths[j] \in Nat \ {0}
                          /\ Width(Option[j]) = widths[j]
        OBVIOUS
      <4>1. dials[j] = digit(j) + 1 /\ Width(Option[j]) = widths[j]
        BY <1>2, <1>4
      <4> HIDE DEF widths
      <4>2. j \in 1..Len(widths) /\ widths \in Seq(Nat \ {0})
        BY <1>2
      <4>3. widths[j] \in Nat \ {0}
        BY <4>2
      <4>4. digit(j) \in 0..(widths[j] - 1)
        BY <3>1, <4>2, DigitInRange
      <4> QED
        BY <4>1, <4>3, <4>4
    <3>3. Digit(widths, m, k) =
             IF \E j \in 1..(k - 1) : digit(j) # widths[j] - 1 THEN digit(k)
             ELSE IF digit(k) = widths[k] - 1 THEN 0 ELSE digit(k) + 1
      BY <1>2, <3>1, NextDigit
    <3> HIDE DEF digit, m, widths
    <3>4. \A j \in 1..Len(Option) : dials[j] = Width(Option[j]) <=> digit(j) = widths[j] - 1
      BY <3>2
    <3>5. \A j \in 1..(k - 1) : j \in 1..Len(Option)
      BY <1>2
    <3>6. k \in 1..Len(Option)
      BY <1>2
    <3>7. (\E j \in 1..(k - 1) : dials[j] # Width(Option[j]))
            <=> \E j \in 1..(k - 1) : digit(j) # widths[j] - 1
      BY <3>4, <3>5
    <3>8. Turned[k] = IF \E j \in 1..(k - 1) : dials[j] # Width(Option[j]) THEN dials[k]
                      ELSE IF dials[k] = Width(Option[k]) THEN 1 ELSE dials[k] + 1
      BY DEF Turned
    <3> QED
      BY <3>2, <3>3, <3>4, <3>6, <3>7, <3>8
  <2> HIDE DEF m
  <2>3. /\ Len(Sofar(g, p, o)') = Len(before) /\ Option' = Option
        /\ OptionWidths(Option)' = widths
    BY <1>1, StableOrder DEF before
  <2>4. \E i \in 0..Len(next') :
          /\ Len(next') = Len(before) + i
          /\ \A k \in DOMAIN Option : dials'[k] = Digit(widths, i, k) + 1
    BY <1>1, <2>1, <2>2
  <2> QED
    BY <1>1, <2>3, <2>4, StableOrder DEF DialsInOrder, before
<1> QED
  BY <1>1, <1>10, <1>11, <1>12, <1>13 DEF OInv, ProductInOrder, FirstWaysInOrder

LEMMA ClosesInOrder ==
  ASSUME TInv, LInv, OInv, CloseOption
  PROVE  OInv'
<1>1. /\ pc = "read" /\ pc' = "option" /\ p' = p /\ o' = o + 1 /\ next' = next /\ g' = g
      /\ out' = out /\ request' = request /\ candidates' = candidates /\ limit' = limit
      /\ left = 0
  BY DEF CloseOption, inputs, evaluating
<1>2. /\ Len(out) \in Nat /\ p \in 1..Len(out)
      /\ Len(Sets[g].options) \in Nat /\ o \in 1..Len(Sets[g].options)
  BY <1>1, WithinSet, AtOption
<1>3. OutInOrder'
  BY <1>1, StableOrder DEF OInv, OutInOrder, Enumerating
<1>4. CursorInRange'
  <2>1. o + 1 \in 1..(Len(Sets[g].options) + 1) /\ p \in 1..(Len(out) + 1) /\ p # Len(out) + 1
    BY <1>2
  <2> QED
    BY <1>1, <2>1, StableOrder DEF CursorInRange
<1>5. NextInOrder'
  BY <1>1, StableOrder DEF OInv, NextInOrder
<1> QED
  BY <1>1, <1>3, <1>4, <1>5 DEF OInv, ProductInOrder, DialsInOrder, FirstWaysInOrder

LEMMA NothingInOrder ==
  ASSUME TInv, LInv, OInv, OfferNothing
  PROVE  OInv'
<1>1. /\ pc = "combine" /\ pc' = "done" /\ out' = out /\ out = << >>
      /\ request' = request /\ candidates' = candidates /\ limit' = limit
      /\ satisfiable' = satisfiable
      /\ satisfiable => \A s \in DOMAIN Sets : ~IsRequired(s)
  BY DEF OfferNothing, LInv, inputs, evaluating
<1>2. AllWays = << >>
  BY <1>1 DEF AllWays
<1>3. limit \in Nat
  BY InputsAreWellFormed DEF TInv, TypeOK
<1>4. FirstWaysInOrder'
  BY <1>1, <1>2, <1>3, StableOrder DEF FirstWaysInOrder
<1> QED
  BY <1>1, <1>4 DEF OInv, OutInOrder, CursorInRange, NextInOrder, ProductInOrder, DialsInOrder,
                    Enumerating

LEMMA BeginsInOrder ==
  ASSUME TInv, LInv, OInv, BeginGroups
  PROVE  OInv'
<1>1. /\ pc = "combine" /\ pc' = "group" /\ out' = << [answers |-> << >>, purposes |-> << >>] >>
      /\ request' = request /\ candidates' = candidates /\ limit' = limit /\ g' = g /\ g = 1
  BY DEF BeginGroups, LInv, inputs, evaluating
<1>2. WaysOfFirst[0] = << << >> >> /\ PurposesOfFirst[0] = << >> /\ Len(Sets) \in Nat
  BY WaysAre, PurposesAre, SetsType DEF TInv
<1>3. BuiltTo(out', 0, WaysOfFirst[0], 0)
  BY <1>1, <1>2 DEF BuiltTo
<1>4. OutInOrder'
  <2>1. g' \in 1..(Len(Sets) + 1) /\ g' - 1 = 0
    BY <1>1, <1>2
  <2>2. BuiltTo(out', 0, WaysOfFirst[g' - 1], g' - 1)
    BY <1>3, <2>1
  <2> QED
    BY <1>1, <2>1, <2>2, StableOrder DEF OutInOrder
<1> QED
  BY <1>1, <1>4 DEF OInv, CursorInRange, NextInOrder, ProductInOrder, DialsInOrder, FirstWaysInOrder

LEMMA SkipsInOrder ==
  ASSUME TInv, LInv, OInv, SkipOptionalSet
  PROVE  OInv'
<1>1. /\ pc = "group" /\ pc' = "group" /\ out' = out /\ g' = g + 1
      /\ request' = request /\ candidates' = candidates /\ limit' = limit
      /\ g \in 1..Len(Sets) /\ ~IsRequired(g) /\ Len(Sets) \in Nat
  BY SetsType DEF SkipOptionalSet, inputs, evaluating, TInv
<1>2. WaysOfFirst[g] = WaysOfFirst[g - 1] /\ PurposesOfFirst[g] = PurposesOfFirst[g - 1]
  BY <1>1, WaysAre, PurposesAre DEF TInv
<1>3. BuiltTo(out, 0, WaysOfFirst[g], g)
  BY <1>1, <1>2 DEF OInv, OutInOrder, Enumerating, BuiltTo
<1>4. OutInOrder'
  <2>1. g' \in 1..(Len(Sets) + 1) /\ g' - 1 = g
    BY <1>1
  <2>2. BuiltTo(out', 0, WaysOfFirst[g' - 1], g' - 1)
    BY <1>1, <1>3, <2>1
  <2> QED
    BY <1>1, <2>1, <2>2, StableOrder DEF OutInOrder
<1> QED
  BY <1>1, <1>4 DEF OInv, CursorInRange, NextInOrder, ProductInOrder, DialsInOrder, FirstWaysInOrder

LEMMA EndsInOrder ==
  ASSUME TInv, LInv, LInv', OInv, SetsDone
  PROVE  OInv'
<1>1. /\ pc = "group" /\ pc' = "done" /\ out' = out
      /\ request' = request /\ candidates' = candidates /\ limit' = limit
      /\ satisfiable' = satisfiable /\ g \notin DOMAIN Sets
  BY DEF SetsDone, inputs, evaluating
<1>2. g = Len(Sets) + 1 /\ g - 1 = Len(Sets)
  <2>1. DOMAIN Sets = 1..Len(Sets) /\ Len(Sets) \in Nat
    BY SetsType DEF TInv
  <2> QED
    BY <1>1, <2>1 DEF OInv, OutInOrder, Enumerating
<1>3. satisfiable /\ \E s \in DOMAIN Sets : IsRequired(s)
  BY <1>1 DEF LInv, Enumerating
<1>4. BuiltTo(out, 0, WaysOfFirst[Len(Sets)], Len(Sets))
  BY <1>1, <1>2 DEF OInv, OutInOrder, Enumerating
<1>5. Len(out) <= limit /\ Len(out) \in Nat
  BY <1>1 DEF LInv, TInv, TypeOK
<1>6. /\ Len(out) = IF Len(AllWays) < limit THEN Len(AllWays) ELSE limit
      /\ \A n \in DOMAIN out :
           out[n] = [answers |-> AllWays[n], purposes |-> PurposesOfFirst[Len(Sets)]]
  BY <1>3, <1>4, <1>5, FinishedInOrder DEF TInv
<1>7. FirstWaysInOrder'
  BY <1>1, <1>6, StableOrder DEF FirstWaysInOrder
<1> QED
  BY <1>1, <1>7 DEF OInv, OutInOrder, CursorInRange, NextInOrder, ProductInOrder, DialsInOrder,
                    Enumerating

LEMMA InitOInv == EngineInit => OInv
BY DEF EngineInit, OInv, OutInOrder, CursorInRange, NextInOrder, ProductInOrder, DialsInOrder,
       FirstWaysInOrder, Enumerating

LEMMA NextOInv == TInv /\ LInv /\ LInv' /\ OInv /\ [EngineNext]_engine => OInv'
<1> SUFFICES ASSUME TInv, LInv, LInv', OInv, [EngineNext]_engine PROVE OInv'
  OBVIOUS
<1>1. CASE ConsiderCredential
  BY <1>1 DEF ConsiderCredential, OInv, OutInOrder, CursorInRange, NextInOrder, ProductInOrder,
              DialsInOrder, FirstWaysInOrder, Enumerating
<1>2. CASE NextQuery
  BY <1>2 DEF NextQuery, OInv, OutInOrder, CursorInRange, NextInOrder, ProductInOrder,
              DialsInOrder, FirstWaysInOrder, Enumerating
<1>3. CASE Judge
  BY <1>3 DEF Judge, OInv, OutInOrder, CursorInRange, NextInOrder, ProductInOrder,
              DialsInOrder, FirstWaysInOrder, Enumerating
<1>4. CASE UNCHANGED engine
  <2>1. /\ request' = request /\ candidates' = candidates /\ limit' = limit
        /\ pc' = pc /\ g' = g /\ p' = p /\ o' = o /\ out' = out /\ next' = next /\ left' = left
        /\ satisfiable' = satisfiable /\ d' = d /\ total' = total /\ dials' = dials
    BY <1>4 DEF engine, inputs, evaluating, products
  <2>2. OutInOrder' /\ CursorInRange'
    BY <2>1, StableOrder DEF OInv, OutInOrder, CursorInRange, Enumerating
  <2>3. NextInOrder' /\ ProductInOrder'
    BY <2>1, StableOrder DEF OInv, NextInOrder, ProductInOrder
  <2>4. DialsInOrder' /\ FirstWaysInOrder'
    BY <2>1, StableOrder DEF OInv, DialsInOrder, FirstWaysInOrder
  <2> QED
    BY <2>2, <2>3, <2>4 DEF OInv
<1> QED
  BY <1>1, <1>2, <1>3, <1>4, NothingInOrder, BeginsInOrder, SkipsInOrder, EntersInOrder,
     EndsInOrder, PartialsInOrder, LeavesInOrder, OptionSkippedInOrder, OpensInOrder,
     MultipliesInOrder, DialsSetInOrder, ReadsInOrder, ClosesInOrder DEF EngineNext, Returned

(* The result is the beginning of the mixed-radix enumeration: nothing is    *)
(* skipped, reordered or repeated, each set's purpose goes with it, and only *)
(* the limit cuts it short, for every request, wallet and limit.             *)
THEOREM AnswersInOrder == EngineSpec => []FirstWaysInOrder
<1>1. OInv => FirstWaysInOrder
  BY DEF OInv
<1> QED
  BY <1>1, InitTInv, NextTInv, InitLInv, NextLInv, InitOInv, NextOInv, PTL DEF EngineSpec

-----------------------------------------------------------------------------
(* The number of ways that are not shown. Where ids are unique, what execute *)
(* lets pass has a way to answer each required set.                          *)
LEMMA MatchedIsSatisfiable ==
  ASSUME TypeOK, UniqueIds, NEW option, OptionMatched(option)
  PROVE  OptionSatisfiable(option)
<1> SUFFICES ASSUME NEW k \in DOMAIN option
             PROVE  HasQuery(option[k]) /\ IsSatisfied(QueryOf(option[k]))
  BY DEF OptionSatisfiable
<1>1. PICK i \in Queries : request.credentials[i].id = option[k] /\ IsSatisfied(i)
  BY DEF OptionMatched
<1>2. HasQuery(option[k])
  BY <1>1 DEF HasQuery
<1>3. QueryOf(option[k]) \in Queries /\ request.credentials[QueryOf(option[k])].id = option[k]
  BY <1>2, QueryOfId
<1>4. QueryOf(option[k]) = i
  BY <1>1, <1>3 DEF UniqueIds
<1> QED
  BY <1>1, <1>2, <1>4

LEMMA SetHasWays ==
  ASSUME TypeOK, UniqueIds, RequiredSetsMet, NEW n \in 1..Len(Sets), IsRequired(n)
  PROVE  Len(WaysOfSet(Sets[n])) \in Nat \ {0}
<1> DEFINE s == Sets[n]
           L == Len(s.options)
           F(m) == WaysOfFirstOptions(s, m)
<1>1. s \in CredentialSetQuery /\ s.options \in Seq(Seq(QueryId)) /\ L \in Nat
  BY WaysBefore
<1>2. PICK k \in 1..L : OptionSatisfiable(s.options[k])
  <2>1. CASE request.credential_sets = None
    <3>1. Sets = << Everything >> /\ n = 1
      BY <2>1 DEF Sets
    <3>2. s = Everything
      BY <3>1
    <3>3. s.options = << [i \in Queries |-> request.credentials[i].id] >>
      BY <3>2 DEF Everything
    <3>4. 1 \in 1..L /\ s.options[1] = [i \in Queries |-> request.credentials[i].id]
      BY <1>1, <3>3
    <3>5. \A i \in Queries : IsSatisfied(i)
      BY <2>1 DEF RequiredSetsMet
    <3>6. OptionMatched([i \in Queries |-> request.credentials[i].id])
      BY <3>5 DEF OptionMatched
    <3>7. OptionSatisfiable(s.options[1])
      BY <3>4, <3>6, MatchedIsSatisfiable
    <3> QED
      BY <3>4, <3>7
  <2>2. CASE request.credential_sets # None
    <3>1. Sets = request.credential_sets
      BY <2>2 DEF Sets
    <3>2. n \in DOMAIN Sets /\ DOMAIN s.options = 1..L
      BY <1>1, SetsType
    <3>3. \E k \in DOMAIN s.options : OptionMatched(s.options[k])
      BY <2>2, <3>1, <3>2 DEF RequiredSetsMet, IsRequired
    <3> QED
      BY <3>2, <3>3, MatchedIsSatisfiable
  <2> QED
    BY <2>1, <2>2
<1> HIDE DEF s
<1>3. ASSUME NEW m \in 0..L
      PROVE  F(m) \in Ways /\ Len(F(m)) \in Nat
  <2>1. F(m) \in Ways
    BY <1>1, OptionsAre
  <2> HIDE DEF F
  <2> QED
    BY <2>1 DEF Ways
<1>4. ASSUME NEW m \in 1..L
      PROVE  /\ WaysOfOption(s.options[m]) \in Ways /\ Len(WaysOfOption(s.options[m])) \in Nat
             /\ Len(F(m)) = Len(F(m - 1)) + Len(WaysOfOption(s.options[m]))
  <2>1. m \in 0..L /\ m - 1 \in 0..L /\ m # 0
    BY <1>1
  <2>2. WaysOfOption(s.options[m]) \in Ways
    <3> DEFINE option == s.options[m]
    <3>1. option \in Seq(QueryId)
      BY <1>1
    <3> HIDE DEF option
    <3>2. WaysOfOption(option) \in Ways
      BY <3>1, WaysOfOptionAre
    <3> QED
      BY <3>2 DEF option
  <2>3. F(m) = Joined(F(m - 1), WaysOfOption(s.options[m])) /\ F(m - 1) \in Ways
    BY <1>1, <2>1, OptionsAre
  <2> HIDE DEF F
  <2> QED
    BY <2>2, <2>3, JoinedWays
<1>5. Len(WaysOfOption(s.options[k])) \in Nat \ {0}
  <2> DEFINE option == s.options[k]
  <2>1. option \in Seq(QueryId) /\ OptionSatisfiable(option)
    BY <1>1, <1>2
  <2> HIDE DEF option
  <2>2. Len(WaysOfOption(option)) \in Nat \ {0}
    BY <2>1, WaysOfOptionAre
  <2> QED
    BY <2>2 DEF option
<1> DEFINE bad == {m \in k..L : Len(F(m)) = 0}
<1>6. bad = {}
  <2> SUFFICES ASSUME bad # {} PROVE FALSE
    OBVIOUS
  <2>1. PICK m \in bad : \A j \in bad : m <= j
    <3>1. bad \in SUBSET Nat
      BY <1>1
    <3> HIDE DEF bad
    <3> QED
      BY <3>1, SmallestNat
  <2>2. m \in 1..L /\ m - 1 \in 0..L /\ Len(F(m)) = 0
    BY <1>1, <2>1
  <2>3. Len(F(m)) = Len(F(m - 1)) + Len(WaysOfOption(s.options[m]))
    BY <1>4, <2>2
  <2>4. Len(F(m - 1)) \in Nat /\ Len(WaysOfOption(s.options[m])) \in Nat
    BY <1>3, <1>4, <2>2
  <2>5. Len(F(m - 1)) = 0 /\ Len(WaysOfOption(s.options[m])) = 0
    BY <2>2, <2>3, <2>4
  <2>6. m # k
    BY <1>5, <2>5
  <2>7. m - 1 \in bad
    BY <1>1, <2>1, <2>5, <2>6
  <2> QED
    BY <1>1, <2>1, <2>2, <2>7
<1>7. L \in k..L /\ L \in 0..L
  BY <1>1
<1>8. F(L) = WaysOfSet(s)
  BY <1>1, <1>7, OptionsAre
<1>9. Len(F(L)) # 0
  BY <1>6, <1>7
<1> QED
  BY <1>3, <1>7, <1>8, <1>9 DEF s

(* A required set multiplies the ways, an optional one adds nothing. *)
LEMMA WaysMultiply ==
  ASSUME TypeOK, NEW n \in 1..Len(Sets)
  PROVE  Len(WaysOfFirst[n]) = IF IsRequired(n)
                               THEN Len(WaysOfFirst[n - 1]) * Len(WaysOfSet(Sets[n]))
                               ELSE Len(WaysOfFirst[n - 1])
<1> DEFINE W == WaysOfFirst[n - 1]
           s == Sets[n]
<1>1. W \in Ways /\ Len(W) \in Nat /\ WaysOfSet(s) \in Ways /\ Len(WaysOfSet(s)) \in Nat
  BY WaysBefore
<1>2. WaysOfFirst[n] = IF IsRequired(n) THEN Extend(W, s) ELSE W
  BY WaysAre
<1> HIDE DEF W, s
<1>3. Len(Extend(W, s)) = Len(W) * Len(WaysOfSet(s))
  <2>1. Len(W) \in 0..Len(W) /\ Len(W) \in Len(W)..Len(W)
    BY <1>1
  <2>2. ExtendedFirst(W, s, Len(W)) = Extend(W, s)
    BY <1>1, <2>1, ExtendedAre
  <2>3. Len(ExtendedFirst(W, s, Len(W))) = Len(W) * Len(WaysOfSet(s))
    BY <1>1, <2>1, ExtendedStarts
  <2> QED
    BY <2>2, <2>3
<1> QED
  BY <1>2, <1>3 DEF W, s

(* So the sets to come never make the ways fewer. *)
LEMMA WaysGrow ==
  ASSUME TypeOK, UniqueIds, RequiredSetsMet, NEW n \in 0..Len(Sets)
  PROVE  Len(WaysOfFirst[n]) <= Len(WaysOfFirst[Len(Sets)])
<1> DEFINE L == Len(Sets)
           w(k) == Len(WaysOfFirst[k])
           bad == {k \in n..L : w(k) < w(n)}
<1>0. L \in Nat /\ n \in Nat
  BY SetsType
<1>1. \A k \in 0..L : w(k) \in Nat
  BY WaysAre DEF Ways
<1>2. bad = {}
  <2> SUFFICES ASSUME bad # {} PROVE FALSE
    OBVIOUS
  <2>1. PICK k \in bad : \A j \in bad : k <= j
    <3>1. bad \in SUBSET Nat
      BY <1>0
    <3> HIDE DEF bad
    <3> QED
      BY <3>1, SmallestNat
  <2>2. k \in n..L /\ w(k) < w(n)
    OBVIOUS
  <2>3. k # n
    BY <1>0, <1>1, <2>2
  <2>4. k \in 1..L /\ k - 1 \in n..L /\ k - 1 \in 0..L /\ k \in 0..L
    BY <1>0, <2>2, <2>3
  <2>5. w(k) >= w(k - 1)
    <3>1. CASE IsRequired(k)
      <4> DEFINE a == w(k - 1)
                 b == Len(WaysOfSet(Sets[k]))
      <4>1. w(k) = a * b
        BY <2>4, <3>1, WaysMultiply
      <4>2. b \in Nat \ {0} /\ a \in Nat
        BY <1>1, <2>4, <3>1, SetHasWays
      <4> HIDE DEF a, b
      <4>3. a * b >= a
        <5>1. PICK z \in Nat : b = z + 1
          <6>1. b - 1 \in Nat /\ b = (b - 1) + 1
            BY <4>2
          <6> QED
            BY <6>1
        <5>2. a * b = a * z + a /\ a * z \in Nat
          BY <4>2, <5>1
        <5> QED
          BY <4>2, <5>2
      <4> QED
        BY <4>1, <4>3 DEF a
    <3>2. CASE ~IsRequired(k)
      <4>1. w(k) = w(k - 1)
        BY <2>4, <3>2, WaysMultiply
      <4> QED
        BY <1>1, <2>4, <4>1
    <3> QED
      BY <3>1, <3>2
  <2>6. w(k) \in Nat /\ w(k - 1) \in Nat /\ w(n) \in Nat
    BY <1>1, <2>4
  <2>7. w(k - 1) < w(n)
    <3> HIDE DEF w
    <3> QED
      BY <2>2, <2>5, <2>6
  <2>8. k - 1 \in bad
    BY <2>4, <2>7
  <2> QED
    BY <1>0, <2>1, <2>4, <2>8
<1>3. L \in n..L /\ L \in 0..L
  BY <1>0
<1>4. ~ (w(L) < w(n))
  BY <1>2, <1>3
<1> HIDE DEF w
<1>5. w(n) <= w(L)
  BY <1>1, <1>3, <1>4
<1> QED
  BY <1>5 DEF w

(* And sets that are all optional change nothing. *)
LEMMA OptionalSetsAddNothing ==
  ASSUME TypeOK, NEW n \in 0..Len(Sets), \A s \in (n + 1)..Len(Sets) : ~IsRequired(s)
  PROVE  WaysOfFirst[Len(Sets)] = WaysOfFirst[n]
<1> DEFINE L == Len(Sets)
           bad == {k \in n..L : WaysOfFirst[k] # WaysOfFirst[n]}
<1>0. L \in Nat /\ n \in Nat
  BY SetsType
<1>1. bad = {}
  <2> SUFFICES ASSUME bad # {} PROVE FALSE
    OBVIOUS
  <2>1. PICK k \in bad : \A j \in bad : k <= j
    <3>1. bad \in SUBSET Nat
      BY <1>0
    <3> HIDE DEF bad
    <3> QED
      BY <3>1, SmallestNat
  <2>2. k # n
    BY <2>1
  <2>3. k \in 1..L /\ k - 1 \in n..L /\ k \in (n + 1)..L /\ k - 1 \notin bad
    BY <1>0, <2>1, <2>2
  <2>4. WaysOfFirst[k] = WaysOfFirst[k - 1]
    BY <2>3, WaysAre
  <2> QED
    BY <2>1, <2>3, <2>4
<1>2. L \in n..L
  BY <1>0
<1> QED
  BY <1>1, <1>2

(* What is shown and what is counted as left out account for these ways, or  *)
(* the count was given up because the ways to answer this set or those       *)
(* before it do not fit a usize.                                             *)
Counted(shown, ways) ==
  /\ UniqueIds => dropped.count + shown <= ways
  /\ OnlyOneRequired /\ dropped.exact => dropped.count + shown = ways
  /\ UniqueIds /\ ~dropped.exact => ways > MaxUsize \/ Len(WaysOfFirst[g - 1]) > MaxUsize

(* The partial answers the limit has cut off are never extended. *)
CutOff == Len(WaysOfFirst[g - 1]) - Len(out)

NothingDropped ==
  pc \in {"evaluate", "combine"} => dropped = [count |-> 0, exact |-> TRUE]

Judged == pc # "evaluate" /\ satisfiable => RequiredSetsMet

CountKept ==
  /\ pc = "group" => Counted(Len(out), Len(WaysOfFirst[g - 1]))
  /\ pc \in {"option", "multiply"} => Counted(Len(next), CutOff + Len(Sofar(g, p, o)))
  /\ pc = "read" => Counted(Len(next) + left, CutOff + Len(Sofar(g, p, o + 1)))

(* Before the first required set there is one answer, to nothing. *)
NoneYet ==
  Enumerating /\ (\A s \in 1..(g - 1) : ~IsRequired(s)) =>
    Len(out) = 1 /\ Len(WaysOfFirst[g - 1]) = 1

DInv == NothingDropped /\ Judged /\ CountKept /\ NoneYet /\ DroppedIsHonest

LEMMA StableCount ==
  ASSUME request' = request, candidates' = candidates
  PROVE  /\ UniqueIds' <=> UniqueIds
         /\ OnlyOneRequired' <=> OnlyOneRequired
         /\ RequiredSetsMet' <=> RequiredSetsMet
         /\ g' = g /\ dropped' = dropped =>
              \A shown, ways : Counted(shown, ways)' <=> Counted(shown, ways)
         /\ g' = g /\ out' = out => CutOff' = CutOff
         /\ \A s : IsRequired(s)' <=> IsRequired(s)
         /\ WaysOfFirst' = WaysOfFirst
         /\ \A n, i, j : Sofar(n, i, j)' = Sofar(n, i, j)
         /\ satisfiable' = satisfiable => AllWays' = AllWays
<1>1. /\ WaysOfFirst' = WaysOfFirst /\ \A n, i, j : Sofar(n, i, j)' = Sofar(n, i, j)
      /\ satisfiable' = satisfiable => AllWays' = AllWays
  BY StableWays
<1>2. Sets' = Sets /\ \A s : IsRequired(s)' <=> IsRequired(s)
  BY Stable
<1>3. Queries' = Queries
  BY DEF Queries
<1>4. UniqueIds' <=> UniqueIds
  BY <1>3 DEF UniqueIds
<1>5. OnlyOneRequired' <=> OnlyOneRequired
  BY <1>2 DEF OnlyOneRequired
<1>6. \A option : OptionMatched(option)' <=> OptionMatched(option)
  BY <1>3 DEF OptionMatched, IsSatisfied
<1>7. RequiredSetsMet' <=> RequiredSetsMet
  <2>1. \A i : IsSatisfied(i)' <=> IsSatisfied(i)
    BY DEF IsSatisfied
  <2> QED
    BY Zenon, <1>3, <1>6, <2>1 DEF RequiredSetsMet
<1>8. g' = g /\ dropped' = dropped =>
        \A shown, ways : Counted(shown, ways)' <=> Counted(shown, ways)
  BY <1>1, <1>4, <1>5 DEF Counted
<1>9. g' = g /\ out' = out => CutOff' = CutOff
  BY <1>1 DEF CutOff
<1> QED
  BY <1>1, <1>2, <1>4, <1>5, <1>7, <1>8, <1>9

(* A step within a set that leaves all these alone keeps the rest. *)
LEMMA RestKept ==
  ASSUME DInv, Enumerating, pc' \in {"group", "option", "multiply", "read"},
         request' = request, candidates' = candidates, satisfiable' = satisfiable,
         g' = g, out' = out
  PROVE  NothingDropped' /\ Judged' /\ NoneYet' /\ DroppedIsHonest'
<1>1. NothingDropped' /\ DroppedIsHonest'
  BY DEF NothingDropped, DroppedIsHonest
<1>2. Judged'
  BY StableCount DEF DInv, Judged, Enumerating
<1>3. NoneYet'
  BY StableCount DEF DInv, NoneYet
<1> QED
  BY <1>1, <1>2, <1>3

LEMMA JudgeCounts ==
  ASSUME DInv, Judge
  PROVE  DInv'
<1>1. Judged'
  <2>1. satisfiable' => RequiredSetsMet
    BY DEF Judge, Verdict
  <2> QED
    BY <2>1, StableCount DEF Judge, Judged, inputs
<1> QED
  BY <1>1 DEF Judge, DInv, NothingDropped, CountKept, NoneYet, DroppedIsHonest, Enumerating

LEMMA NothingCounts ==
  ASSUME TInv, LInv, DInv, OfferNothing
  PROVE  DInv'
<1>1. /\ pc = "combine" /\ pc' = "done" /\ out' = out /\ out = << >> /\ dropped' = dropped
      /\ request' = request /\ candidates' = candidates /\ satisfiable' = satisfiable
      /\ satisfiable => \A s \in DOMAIN Sets : ~IsRequired(s)
      /\ dropped = [count |-> 0, exact |-> TRUE]
  BY DEF OfferNothing, LInv, DInv, NothingDropped, inputs, evaluating
<1>2. AllWays = << >>
  BY <1>1 DEF AllWays
<1>3. DroppedIsHonest'
  <2>1. dropped'.count = 0 /\ dropped'.exact /\ Len(out') = 0 /\ Len(AllWays') = 0
    BY <1>1, <1>2, StableCount
  <2> QED
    BY <2>1 DEF DroppedIsHonest
<1>4. Judged'
  BY <1>1, StableCount DEF DInv, Judged
<1> QED
  BY <1>1, <1>3, <1>4 DEF DInv, NothingDropped, CountKept, NoneYet, Enumerating

LEMMA BeginCounts ==
  ASSUME TInv, LInv, DInv, BeginGroups
  PROVE  DInv'
<1>1. /\ pc = "combine" /\ pc' = "group" /\ out' = << [answers |-> << >>, purposes |-> << >>] >>
      /\ request' = request /\ candidates' = candidates /\ g' = g /\ g = 1
      /\ satisfiable' = satisfiable /\ dropped' = dropped
      /\ dropped = [count |-> 0, exact |-> TRUE]
  BY DEF BeginGroups, LInv, DInv, NothingDropped, inputs, evaluating
<1>2. WaysOfFirst'[0] = << << >> >>
  BY <1>1, WaysAre, StableCount DEF TInv
<1>3. g' - 1 = 0 /\ Len(out') = 1
  BY <1>1
<1>4. Len(WaysOfFirst'[g' - 1]) = 1
  <2>1. Len(<< << >> >>) = 1
    OBVIOUS
  <2>2. WaysOfFirst'[g' - 1] = << << >> >>
    BY <1>2, <1>3
  <2> QED
    BY <2>1, <2>2
<1>5. CountKept'
  <2>1. dropped'.count = 0 /\ dropped'.exact
    BY <1>1
  <2>2. dropped'.count + Len(out') = Len(WaysOfFirst'[g' - 1])
    BY <1>3, <1>4, <2>1
  <2>3. Counted(Len(out), Len(WaysOfFirst[g - 1]))'
    BY <1>3, <1>4, <2>1, <2>2 DEF Counted
  <2> QED
    BY <1>1, <2>3 DEF CountKept
<1>6. Judged'
  BY <1>1, StableCount DEF DInv, Judged
<1>7. NoneYet'
  BY <1>3, <1>4 DEF NoneYet
<1> QED
  BY <1>1, <1>5, <1>6, <1>7 DEF DInv, NothingDropped, DroppedIsHonest

LEMMA SkipSetCounts ==
  ASSUME TInv, LInv, DInv, SkipOptionalSet
  PROVE  DInv'
<1>1. /\ pc = "group" /\ pc' = "group" /\ out' = out /\ g' = g + 1 /\ dropped' = dropped
      /\ request' = request /\ candidates' = candidates /\ satisfiable' = satisfiable
      /\ g \in 1..Len(Sets) /\ ~IsRequired(g) /\ Len(Sets) \in Nat
  BY SetsType DEF SkipOptionalSet, inputs, evaluating, TInv
<1>2. WaysOfFirst[g] = WaysOfFirst[g - 1]
  BY <1>1, WaysAre DEF TInv
<1>3. g' - 1 = g /\ WaysOfFirst'[g' - 1] = WaysOfFirst[g - 1]
  BY <1>1, <1>2, StableCount
<1>4. CountKept'
  <2>1. Counted(Len(out), Len(WaysOfFirst[g - 1]))
    BY <1>1 DEF DInv, CountKept
  <2>2. Counted(Len(out), Len(WaysOfFirst[g - 1]))'
    BY <1>1, <1>3, <2>1, StableCount DEF Counted
  <2> QED
    BY <1>1, <2>2 DEF CountKept
<1>5. Judged'
  BY <1>1, StableCount DEF DInv, Judged
<1>6. NoneYet'
  <2> SUFFICES ASSUME (\A s \in 1..(g - 1) : ~IsRequired(s))'
               PROVE  Len(out') = 1 /\ Len(WaysOfFirst'[g' - 1]) = 1
    BY <1>1 DEF NoneYet
  <2>1. \A s \in 1..(g - 1) : s \in 1..(g' - 1)
    BY <1>1, <1>3
  <2>2. \A s \in 1..(g - 1) : ~IsRequired(s)
    BY <1>1, <2>1, StableCount
  <2> QED
    BY <1>1, <1>3, <2>2 DEF DInv, NoneYet, Enumerating
<1> QED
  BY <1>1, <1>4, <1>5, <1>6 DEF DInv, NothingDropped, DroppedIsHonest

LEMMA EnterCounts ==
  ASSUME TInv, DInv, EnterSet
  PROVE  DInv'
<1>1. /\ pc = "group" /\ pc' = "option" /\ p' = 1 /\ o' = 1 /\ next' = << >> /\ g' = g
      /\ out' = out /\ dropped' = dropped
      /\ request' = request /\ candidates' = candidates /\ satisfiable' = satisfiable
  BY DEF EnterSet, inputs, evaluating
<1>2. g \in 1..Len(Sets) /\ Len(out) \in Nat /\ Len(WaysOfFirst[g - 1]) \in Nat
  <2>1. g \in 1..Len(Sets)
    BY SetsType DEF EnterSet, TInv
  <2> QED
    BY <2>1, WaysBefore DEF TInv, TypeOK
<1>3. Len(Sofar(g, 1, 1)) = 0
  BY <1>2, NothingSofar DEF TInv
<1>4. Counted(0, CutOff + Len(Sofar(g, 1, 1)))
  <2>1. Counted(Len(out), Len(WaysOfFirst[g - 1]))
    BY <1>1 DEF DInv, CountKept
  <2>2. dropped.count \in Nat
    BY InputsAreWellFormed DEF TInv, TypeOK, Dropped
  <2> QED
    BY <1>2, <1>3, <2>1, <2>2 DEF Counted, CutOff
<1>5. CountKept'
  <2>1. Len(next') = 0
    BY <1>1
  <2> QED
    BY <1>1, <1>4, <2>1, StableCount DEF CountKept
<1> QED
  BY <1>1, <1>5, RestKept DEF DInv, Enumerating

LEMMA PartialCounts ==
  ASSUME TInv, OInv, DInv, NextPartial
  PROVE  DInv'
<1>1. /\ pc = "option" /\ pc' = "option" /\ p' = p + 1 /\ o' = 1 /\ next' = next /\ g' = g
      /\ out' = out /\ dropped' = dropped
      /\ request' = request /\ candidates' = candidates /\ satisfiable' = satisfiable
  BY DEF NextPartial, inputs, evaluating
<1>2. Counted(Len(next), CutOff + Len(Sofar(g, p + 1, 1)))
  BY <1>1, PartialPassed DEF DInv, CountKept
<1>3. CountKept'
  BY <1>1, <1>2, StableCount DEF CountKept
<1> QED
  BY <1>1, <1>3, RestKept DEF DInv, Enumerating

LEMMA SkipOptionCounts ==
  ASSUME TInv, OInv, DInv, SkipOption
  PROVE  DInv'
<1>1. /\ pc = "option" /\ pc' = "option" /\ p' = p /\ o' = o + 1 /\ next' = next /\ g' = g
      /\ out' = out /\ dropped' = dropped
      /\ request' = request /\ candidates' = candidates /\ satisfiable' = satisfiable
  BY DEF SkipOption, inputs, evaluating
<1>2. Counted(Len(next), CutOff + Len(Sofar(g, p, o + 1)))
  BY <1>1, OptionPassed DEF DInv, CountKept
<1>3. CountKept'
  BY <1>1, <1>2, StableCount DEF CountKept
<1> QED
  BY <1>1, <1>3, RestKept DEF DInv, Enumerating

LEMMA MultiplyCounts ==
  ASSUME TInv, DInv, OpenOption \/ MultiplyWidth
  PROVE  DInv'
<1>1. /\ pc \in {"option", "multiply"} /\ pc' = "multiply" /\ p' = p /\ o' = o /\ next' = next
      /\ g' = g /\ out' = out /\ dropped' = dropped
      /\ request' = request /\ candidates' = candidates /\ satisfiable' = satisfiable
  BY DEF OpenOption, MultiplyWidth, inputs, evaluating
<1>2. CountKept'
  BY <1>1, StableCount DEF DInv, CountKept
<1> QED
  BY <1>1, <1>2, RestKept DEF DInv, Enumerating

LEMMA ReadCounts ==
  ASSUME TInv, DInv, ReadDials
  PROVE  DInv'
<1>1. /\ pc = "read" /\ pc' = "read" /\ p' = p /\ o' = o /\ g' = g
      /\ out' = out /\ dropped' = dropped /\ left' = left - 1
      /\ next' = Append(next, Extended(out[p]))
      /\ request' = request /\ candidates' = candidates /\ satisfiable' = satisfiable
  BY DEF ReadDials, inputs, evaluating
<1>2. Len(next') + left' = Len(next) + left
  <2>1. next \in Seq(Combination) /\ left \in Int
    BY InputsAreWellFormed DEF TInv, TypeOK
  <2>2. Len(next') = Len(next) + 1 /\ Len(next) \in Nat
    BY <1>1, <2>1
  <2> QED
    BY <1>1, <2>1, <2>2
<1>3. CountKept'
  BY <1>1, <1>2, StableCount DEF DInv, CountKept
<1> QED
  BY <1>1, <1>3, RestKept DEF DInv, Enumerating

LEMMA CloseCounts ==
  ASSUME TInv, DInv, CloseOption
  PROVE  DInv'
<1>1. /\ pc = "read" /\ pc' = "option" /\ p' = p /\ o' = o + 1 /\ next' = next /\ g' = g
      /\ out' = out /\ dropped' = dropped /\ left = 0
      /\ request' = request /\ candidates' = candidates /\ satisfiable' = satisfiable
  BY DEF CloseOption, inputs, evaluating
<1>2. Len(next) + left = Len(next)
  <2>1. Len(next) \in Nat
    BY DEF TInv, TypeOK
  <2> QED
    BY <1>1, <2>1
<1>3. CountKept'
  BY <1>1, <1>2, StableCount DEF DInv, CountKept
<1> QED
  BY <1>1, <1>3, RestKept DEF DInv, Enumerating

(* What is not taken of an option is added to the count, clamped when either *)
(* of the two does not fit.                                                  *)
LEMMA DialsCount ==
  ASSUME TInv, LInv, OInv, DInv, SetDials
  PROVE  DInv'
<1> DEFINE before == Len(Sofar(g, p, o))
           with == Len(Sofar(g, p, o + 1))
           more == Products(OptionWidths(Option))[Len(Option)]
           n == Len(next)
           m == MaxUsize
           dc == dropped.count
           tc == total.count
           w == Len(WaysOfFirst[g - 1])
<1>1. /\ pc = "multiply" /\ pc' = "read" /\ p' = p /\ o' = o /\ next' = next /\ g' = g
      /\ out' = out /\ left' = Take /\ dropped' = AddDropped(dropped, Skipped)
      /\ request' = request /\ candidates' = candidates /\ satisfiable' = satisfiable
      /\ d \notin DOMAIN Option
  BY DEF SetDials, inputs, evaluating
<1>2. /\ before \in Nat /\ more \in Nat /\ with = before + more
      /\ n \in Nat /\ Len(out) \in Nat /\ w \in Nat /\ Len(out) <= w
  <2>1. Len(out) <= w
    BY <1>1 DEF OInv, OutInOrder, Enumerating, BuiltTo
  <2> QED
    BY <1>1, <2>1, OptionAdds, WithinSet
<1>3. /\ m \in Nat /\ dc \in 0..m /\ tc \in 0..m /\ dropped.exact \in BOOLEAN
      /\ total.exact \in BOOLEAN /\ Take \in Nat /\ Take <= tc
  <2>1. limit \in Nat /\ Take \in 0..Budget /\ Budget \in 0..limit /\ Take <= tc
    BY TakeType, InputsAreWellFormed DEF TInv, TypeOK
  <2> QED
    BY <2>1, InputsAreWellFormed DEF TInv, TypeOK, Dropped
<1>4. IF total.exact THEN tc = more ELSE tc = m /\ more > m
  <2>1. d - 1 = Len(Option)
    <3>1. DOMAIN Option = 1..Len(Option) /\ Len(Option) \in Nat
      BY <1>1, AtOption
    <3> QED
      BY <1>1, <3>1 DEF OInv, ProductInOrder
  <2>2. Multiplied(total, Len(Option))
    BY <1>1, <2>1 DEF OInv, ProductInOrder
  <2> QED
    BY <2>2 DEF Multiplied
<1>5. Counted(n, CutOff + before) /\ CutOff = w - Len(out)
  BY <1>1 DEF DInv, CountKept, CutOff
<1> DEFINE dc1 == dropped'.count
           e1 == dropped'.exact
           skipped == tc - Take
<1>6. IF dc + skipped > m THEN dc1 = m /\ ~e1
      ELSE dc1 = dc + skipped /\ (e1 <=> dropped.exact /\ total.exact)
  BY <1>1 DEF AddDropped, Skipped
<1> DEFINE cutoff == w - Len(out)
<1>7. /\ UniqueIds => dc + n <= cutoff + before
      /\ OnlyOneRequired /\ dropped.exact => dc + n = cutoff + before
      /\ UniqueIds /\ ~dropped.exact => cutoff + before > m \/ w > m
  BY <1>5 DEF Counted
<1>8. cutoff \in Nat
  BY <1>2
<1> DEFINE t == Take
<1> HIDE DEF before, with, more, n, m, dc, tc, w, dc1, e1, skipped, cutoff, t
<1>9. skipped = tc - t /\ t \in Nat /\ t <= tc
  BY <1>3 DEF skipped, t
<1>10. UniqueIds => dc1 + (n + t) <= cutoff + with
  BY <1>2, <1>3, <1>4, <1>6, <1>7, <1>8, <1>9
<1>11. OnlyOneRequired /\ e1 => dc1 + (n + t) = cutoff + with
  BY <1>2, <1>3, <1>4, <1>6, <1>7, <1>8, <1>9
<1>12. UniqueIds /\ ~e1 => cutoff + with > m \/ w > m
  BY <1>2, <1>3, <1>4, <1>6, <1>7, <1>8, <1>9
<1>13. CountKept'
  <2>1. /\ Len(next') + left' = n + t
        /\ (CutOff + Len(Sofar(g, p, o + 1)))' = cutoff + with
        /\ Len(WaysOfFirst[g - 1])' = w
    BY <1>1, <1>5, StableCount DEF n, t, with, cutoff, w
  <2>2. Counted(Len(next) + left, CutOff + Len(Sofar(g, p, o + 1)))'
    BY <1>1, <1>10, <1>11, <1>12, <2>1, StableCount DEF Counted, dc1, e1, m
  <2> QED
    BY <1>1, <2>2 DEF CountKept
<1> QED
  BY <1>1, <1>13, RestKept DEF DInv, Enumerating

(* Ways that were cut off and never extended are still fewer than all. *)
LEMMA CutOffIsLess ==
  ASSUME NEW n \in Nat, NEW w \in Nat, n <= w, NEW more \in Nat \ {0}
  PROVE  (w - n) + n * more <= w * more /\ w <= w * more
<1>1. PICK z \in Nat : more = z + 1
  <2>1. more - 1 \in Nat /\ more = (more - 1) + 1
    OBVIOUS
  <2> QED
    BY <2>1
<1>2. PICK x \in Nat : w = n + x
  <2>1. w - n \in Nat /\ w = n + (w - n)
    OBVIOUS
  <2> QED
    BY <2>1
<1>3. n * more = n * z + n /\ w * more = w * z + w /\ w * z = n * z + x * z
  BY <1>1, <1>2
<1>4. n * z \in Nat /\ x * z \in Nat /\ w * z \in Nat
  BY <1>1, <1>2
<1> QED
  BY <1>2, <1>3, <1>4

LEMMA LeaveCounts ==
  ASSUME TInv, LInv, OInv, DInv, LeaveSet
  PROVE  DInv'
<1> DEFINE W == WaysOfFirst[g - 1]
           s == Sets[g]
           n == Len(out)
           w == Len(W)
           more == Len(WaysOfSet(s))
           all == Len(WaysOfFirst[g])
           shown == Len(next)
           m == MaxUsize
           dc == dropped.count
<1>1. /\ pc = "option" /\ out' = next /\ g' = g + 1 /\ dropped' = dropped
      /\ pc' = IF next = << >> THEN "done" ELSE "group"
      /\ request' = request /\ candidates' = candidates /\ satisfiable' = satisfiable
  BY DEF LeaveSet, inputs, evaluating
<1>2. /\ g \in 1..Len(Sets) /\ IsRequired(g) /\ Len(Sets) \in Nat
      /\ n \in Nat /\ shown \in Nat /\ w \in Nat /\ n <= w
      /\ W \in Ways /\ WaysOfSet(s) \in Ways /\ more \in Nat
      /\ dc \in Nat /\ m \in Nat
  <2>1. g \in 1..Len(Sets) /\ IsRequired(g) /\ n \in Nat /\ shown \in Nat
    BY <1>1, WithinSet
  <2>2. n <= w
    BY <1>1 DEF OInv, OutInOrder, Enumerating, BuiltTo
  <2>3. W \in Ways /\ w \in Nat /\ WaysOfSet(s) \in Ways /\ more \in Nat /\ Len(Sets) \in Nat
    BY <2>1, WaysBefore, SetsType DEF TInv
  <2>4. dc \in Nat /\ m \in Nat
    BY InputsAreWellFormed DEF TInv, TypeOK, Dropped
  <2> QED
    BY <2>1, <2>2, <2>3, <2>4
<1>3. satisfiable /\ \E t \in DOMAIN Sets : IsRequired(t)
  BY <1>1 DEF LInv, Enumerating
<1>4. RequiredSetsMet
  BY <1>1, <1>3 DEF DInv, Judged
<1>5. UniqueIds => more # 0
  BY <1>2, <1>4, SetHasWays DEF TInv
<1>6. OnlyOneRequired => n = 1 /\ w = 1 /\ \A t \in (g + 1)..Len(Sets) : ~IsRequired(t)
  <2> SUFFICES ASSUME OnlyOneRequired
               PROVE  n = 1 /\ w = 1 /\ \A t \in (g + 1)..Len(Sets) : ~IsRequired(t)
    OBVIOUS
  <2>1. \A t \in DOMAIN Sets : IsRequired(t) <=> t = g
    <3>1. g \in DOMAIN Sets
      BY <1>2, SetsType
    <3> QED
      BY <1>2, <3>1 DEF OnlyOneRequired
  <2>2. DOMAIN Sets = 1..Len(Sets)
    BY SetsType DEF TInv
  <2>3. \A t \in 1..(g - 1) : ~IsRequired(t)
    BY <1>2, <2>1, <2>2
  <2>4. \A t \in (g + 1)..Len(Sets) : ~IsRequired(t)
    BY <1>2, <2>1, <2>2
  <2> QED
    BY <1>1, <2>3, <2>4 DEF DInv, NoneYet, Enumerating
<1>7. all = w * more
  BY <1>2, WaysMultiply DEF TInv
<1>8. Len(Sofar(g, p, o)) = n * more
  <2>1. Sofar(g, p, o) = ExtendedFirst(W, s, n)
    BY SetPassed
  <2> HIDE DEF W, s
  <2>2. n \in 0..Len(W) /\ Len(W) \in n..Len(W)
    BY <1>2 DEF w
  <2>3. Len(ExtendedFirst(W, s, n)) = n * more
    <3> HIDE DEF n
    <3> QED
      BY <1>2, <2>2, ExtendedStarts
  <2> QED
    BY <2>1, <2>3
<1>9. /\ UniqueIds => dc + shown <= (w - n) + n * more
      /\ OnlyOneRequired /\ dropped.exact => dc + shown = (w - n) + n * more
      /\ UniqueIds /\ ~dropped.exact => (w - n) + n * more > m \/ w > m
  BY <1>1, <1>8 DEF DInv, CountKept, CutOff, Counted
<1> HIDE DEF W, s, n, w, more, all, shown, m, dc
<1>10. all \in Nat
  BY <1>2, <1>7
<1>11. UniqueIds => (w - n) + n * more <= all /\ w <= all
  BY <1>2, <1>5, <1>7, CutOffIsLess
<1>12. UniqueIds => dc + shown <= all
  <2>1. n * more \in Nat
    BY <1>2
  <2> QED
    BY <1>2, <1>9, <1>10, <1>11, <2>1
<1>13. OnlyOneRequired /\ dropped.exact => dc + shown = all
  <2> SUFFICES ASSUME OnlyOneRequired, dropped.exact PROVE dc + shown = all
    OBVIOUS
  <2>1. n = 1 /\ w = 1
    BY <1>6
  <2> QED
    BY <1>2, <1>7, <1>9, <2>1
<1>14. UniqueIds /\ ~dropped.exact => all > m
  <2>1. n * more \in Nat
    BY <1>2
  <2> QED
    BY <1>2, <1>9, <1>10, <1>11, <2>1
<1>15. Judged'
  BY <1>1, StableCount DEF DInv, Judged
<1>16. CASE next # << >>
  <2>1. pc' = "group" /\ g' - 1 = g
    BY <1>1, <1>2, <1>16
  <2>2. Len(out') = shown /\ Len(WaysOfFirst[g - 1])' = all
    BY <1>1, <2>1, StableCount DEF shown, all
  <2>3. Counted(Len(out), Len(WaysOfFirst[g - 1]))'
    BY <1>1, <1>12, <1>13, <1>14, <2>2, StableCount DEF Counted, dc, m
  <2>4. CountKept'
    BY <2>1, <2>3 DEF CountKept
  <2>5. NoneYet'
    <3>1. g \in 1..(g' - 1) /\ IsRequired(g)
      BY <1>2, <2>1
    <3>2. ~(\A t \in 1..(g - 1) : ~IsRequired(t))'
      BY <1>1, <3>1, StableCount
    <3> QED
      BY <3>2 DEF NoneYet
  <2> QED
    BY <1>15, <2>1, <2>4, <2>5 DEF DInv, NothingDropped, DroppedIsHonest
<1>17. CASE next = << >>
  <2> DEFINE final == Len(WaysOfFirst[Len(Sets)])
  <2>1. pc' = "done" /\ g \in 0..Len(Sets) /\ Len(Sets) \in 0..Len(Sets)
    BY <1>1, <1>2, <1>17
  <2>2. AllWays = WaysOfFirst[Len(Sets)]
    BY <1>3 DEF AllWays
  <2>3. Len(out') = shown /\ Len(AllWays)' = final /\ final \in Nat
    <3>1. final \in Nat
      BY <2>1, WaysAre DEF TInv, Ways
    <3> QED
      BY <1>1, <2>2, <3>1, StableCount DEF shown
  <2>4. UniqueIds => all <= final
    BY <1>4, <2>1, WaysGrow DEF all, TInv
  <2>5. OnlyOneRequired => all = final
    BY <1>6, <2>1, OptionalSetsAddNothing DEF all, TInv
  <2> HIDE DEF final
  <2>6. /\ UniqueIds => dc + shown <= final
        /\ OnlyOneRequired /\ dropped.exact => dc + shown = final
        /\ UniqueIds /\ ~dropped.exact => final > m
    BY <1>2, <1>10, <1>12, <1>13, <1>14, <2>3, <2>4, <2>5
  <2>7. DroppedIsHonest'
    BY <1>1, <2>3, <2>6, StableCount DEF DroppedIsHonest, dc, m
  <2> QED
    BY <1>15, <2>1, <2>7 DEF DInv, NothingDropped, CountKept, NoneYet, Enumerating
<1> QED
  BY <1>16, <1>17

LEMMA EndCounts ==
  ASSUME TInv, LInv, OInv, DInv, SetsDone
  PROVE  DInv'
<1>1. /\ pc = "group" /\ pc' = "done" /\ out' = out /\ dropped' = dropped
      /\ request' = request /\ candidates' = candidates
      /\ satisfiable' = satisfiable /\ g \notin DOMAIN Sets
  BY DEF SetsDone, inputs, evaluating
<1>2. g - 1 = Len(Sets)
  <2>1. DOMAIN Sets = 1..Len(Sets) /\ Len(Sets) \in Nat
    BY SetsType DEF TInv
  <2> QED
    BY <1>1, <2>1 DEF OInv, OutInOrder, Enumerating
<1>3. AllWays = WaysOfFirst[g - 1]
  BY <1>1, <1>2 DEF LInv, Enumerating, AllWays
<1>4. Counted(Len(out), Len(AllWays))
  BY <1>1, <1>3 DEF DInv, CountKept
<1>5. DroppedIsHonest'
  BY <1>1, <1>3, <1>4, StableCount DEF Counted, DroppedIsHonest
<1>6. Judged'
  BY <1>1, StableCount DEF DInv, Judged
<1> QED
  BY <1>1, <1>5, <1>6 DEF DInv, NothingDropped, CountKept, NoneYet, Enumerating

LEMMA InitDInv == EngineInit => DInv
BY DEF EngineInit, DInv, NothingDropped, Judged, CountKept, NoneYet, DroppedIsHonest, Enumerating

LEMMA NextDInv == TInv /\ LInv /\ OInv /\ DInv /\ [EngineNext]_engine => DInv'
<1> SUFFICES ASSUME TInv, LInv, OInv, DInv, [EngineNext]_engine PROVE DInv'
  OBVIOUS
<1>1. CASE ConsiderCredential
  BY <1>1 DEF ConsiderCredential, DInv, NothingDropped, Judged, CountKept, NoneYet,
              DroppedIsHonest, Enumerating
<1>2. CASE NextQuery
  BY <1>2 DEF NextQuery, DInv, NothingDropped, Judged, CountKept, NoneYet, DroppedIsHonest,
              Enumerating
<1>3. CASE UNCHANGED engine
  <2>1. /\ request' = request /\ candidates' = candidates /\ satisfiable' = satisfiable
        /\ pc' = pc /\ g' = g /\ p' = p /\ o' = o /\ out' = out /\ next' = next /\ left' = left
        /\ dropped' = dropped
    BY <1>3 DEF engine, inputs, evaluating, products
  <2>2. NothingDropped' /\ Judged'
    BY <2>1, StableCount DEF DInv, NothingDropped, Judged
  <2>3. CountKept'
    BY <2>1, StableCount DEF DInv, CountKept
  <2>4. NoneYet'
    BY <2>1, StableCount DEF DInv, NoneYet, Enumerating
  <2>5. DroppedIsHonest'
    BY <2>1, StableCount DEF DInv, DroppedIsHonest
  <2> QED
    BY <2>2, <2>3, <2>4, <2>5 DEF DInv
<1> QED
  BY <1>1, <1>2, <1>3, JudgeCounts, NothingCounts, BeginCounts, SkipSetCounts, EnterCounts,
     EndCounts, PartialCounts, LeaveCounts, SkipOptionCounts, MultiplyCounts, DialsCount,
     ReadCounts, CloseCounts DEF EngineNext, Returned

(* The count of what is not shown never says more than was left out; with a  *)
(* single required set it says how many, unless it says that it cannot; and  *)
(* it says so only of ways that do not fit a usize, for every request,       *)
(* wallet, limit and usize::MAX.                                             *)
THEOREM CountIsHonest == EngineSpec => []DroppedIsHonest
<1>1. DInv => DroppedIsHonest
  BY DEF DInv
<1> QED
  BY <1>1, InitTInv, NextTInv, InitLInv, NextLInv, InitOInv, NextOInv, InitDInv, NextDInv,
     PTL DEF EngineSpec

-----------------------------------------------------------------------------
(* Refinement: the loops, seen from outside, are one step.                   *)

(* The abstract specification speaks of the same candidates and combinations. *)
LEMMA SameVocabulary ==
  /\ Call!Combination = Combination
  /\ \A query, credential :
       /\ Call!IsCandidate(query, credential) <=> IsCandidate(query, credential)
       /\ Call!CandidateOf(query, credential) = CandidateOf(query, credential)
<1>1. Call!Combination = Combination
  BY DEF Call!Combination, Combination, Call!Answer, Answer, Call!Candidate, Candidate,
         Call!ClaimsQuery, ClaimsQuery
<1>2. ASSUME NEW query, NEW credential
      PROVE  /\ Call!IsCandidate(query, credential) <=> IsCandidate(query, credential)
             /\ Call!CandidateOf(query, credential) = CandidateOf(query, credential)
  BY DEF Call!IsCandidate, IsCandidate, Call!CandidateOf, CandidateOf, Call!Selectable, Selectable,
         Call!SelectClaims, SelectClaims, Call!IsPreferred, IsPreferred, Call!Deliverable,
         Deliverable, Call!Claim, Claim, Call!HasClaim, HasClaim, Call!Resolves, Resolves
<1> QED BY <1>1, <1>2

Offered ==
  pc = "done" => /\ out \in Seq(Combination)
                 /\ Len(out) <= limit
                 /\ \A n \in DOMAIN out :
                      /\ Call!Complete(out[n])
                      /\ \A k \in DOMAIN out[n].answers : Call!Honest(out[n].answers[k])

LEMMA CompleteOffer ==
  ASSUME TypeOK, EveryRequiredSetAnswered, pc = "done", NEW n \in DOMAIN out
  PROVE  Call!Complete(out[n])
<1>1. CASE request.credential_sets = None
  <2>1. /\ Sets = << Everything >>
        /\ Everything.required
        /\ Everything.options = << [i \in Queries |-> request.credentials[i].id] >>
    BY <1>1 DEF Sets, Everything
  <2>2. 1 \in DOMAIN Sets /\ Sets[1] = Everything /\ IsRequired(1)
    BY <2>1 DEF IsRequired
  <2>3. AnswersOption(out[n], [i \in Queries |-> request.credentials[i].id])
    <3>1. PICK k \in DOMAIN Sets[1].options : AnswersOption(out[n], Sets[1].options[k])
      BY <2>2 DEF EveryRequiredSetAnswered
    <3>2. k = 1 /\ Sets[1].options[1] = [i \in Queries |-> request.credentials[i].id]
      BY <2>1, <2>2
    <3> QED BY <3>1, <3>2
  <2> QED BY <1>1, <2>3 DEF AnswersOption, Call!Complete, Call!Queries, Call!Answered, Queries
<1>2. CASE request.credential_sets # None
  <2>1. Sets = request.credential_sets
    BY <1>2 DEF Sets
  <2> QED BY <1>2, <2>1 DEF EveryRequiredSetAnswered, IsRequired, AnswersOption,
                             Call!Complete, Call!Answered
<1> QED BY <1>1, <1>2

LEMMA HonestOffer ==
  ASSUME NEW answer, NEW i \in Queries, Honours(answer, i)
  PROVE  Call!Honest(answer)
<1>1. i \in Call!Queries
  BY DEF Call!Queries, Queries
<1>2. /\ request.credentials[i].id = answer.id
      /\ answer.picked # << >>
      /\ ~request.credentials[i].multiple => Len(answer.picked) = 1
  BY DEF Honours
<1>3. \A n \in DOMAIN answer.picked :
        \E w \in DOMAIN wallet :
          /\ IsCandidate(request.credentials[i], wallet[w])
          /\ answer.picked[n] = CandidateOf(request.credentials[i], wallet[w])
  BY DEF Honours
<1> QED BY <1>1, <1>2, <1>3, SameVocabulary DEF Call!Honest

LEMMA WhatIsOffered ==
  TypeOK /\ WithinLimit /\ OnlyHonouredAnswers /\ EveryRequiredSetAnswered => Offered
<1> SUFFICES ASSUME TypeOK, WithinLimit, OnlyHonouredAnswers, EveryRequiredSetAnswered,
                    pc = "done"
             PROVE  /\ out \in Seq(Combination)
                    /\ Len(out) <= limit
                    /\ \A n \in DOMAIN out :
                         /\ Call!Complete(out[n])
                         /\ \A k \in DOMAIN out[n].answers : Call!Honest(out[n].answers[k])
  BY DEF Offered
<1>1. ASSUME NEW n \in DOMAIN out, NEW k \in DOMAIN out[n].answers
      PROVE  Call!Honest(out[n].answers[k])
  <2>1. PICK i \in Queries : Honours(out[n].answers[k], i)
    BY DEF OnlyHonouredAnswers, TypeOK, ToSet
  <2> QED BY <2>1, HonestOffer
<1> QED BY <1>1, CompleteOffer DEF TypeOK, WithinLimit

LEMMA InitMaps == EngineInit => Call!Init
BY DEF EngineInit, Call!Init

LEMMA NextMaps == Offered' /\ [EngineNext]_engine => [Call!Return]_(Call!vars)
<1> SUFFICES ASSUME Offered', [EngineNext]_engine PROVE [Call!Return]_(Call!vars)
  OBVIOUS
<1> USE DEF EngineNext, engine, ConsiderCredential, NextQuery, Judge, OfferNothing, BeginGroups,
            SkipOptionalSet, EnterSet, SetsDone, NextPartial, LeaveSet, SkipOption, OpenOption,
            MultiplyWidth, SetDials, ReadDials, CloseOption, Returned
<1>1. UNCHANGED inputs
  BY DEF inputs
<1>2. pc = "done" => UNCHANGED << pc, out >>
  OBVIOUS
<1> HIDE DEF EngineNext, engine, ConsiderCredential, NextQuery, Judge, OfferNothing, BeginGroups,
            SkipOptionalSet, EnterSet, SetsDone, NextPartial, LeaveSet, SkipOption, OpenOption,
            MultiplyWidth, SetDials, ReadDials, CloseOption, Returned
<1>3. CASE pc = "done" \/ pc' # "done"
  BY <1>1, <1>2, <1>3 DEF inputs, Call!vars
<1>4. CASE pc # "done" /\ pc' = "done"
  <2>1. /\ out' \in Seq(Combination) /\ Len(out') <= limit
        /\ \A n \in DOMAIN out' :
             /\ Call!Complete(out'[n])
             /\ \A k \in DOMAIN out'[n].answers : Call!Honest(out'[n].answers[k])
    BY <1>1, <1>4 DEF inputs, Offered, Call!Complete, Call!Honest, Call!Queries, Call!Answered
  <2> QED BY <1>1, <1>4, <2>1, SameVocabulary DEF inputs, Call!Return
<1> QED BY <1>3, <1>4

(* The whole enumeration implements the one-step answer of DcqlAnswer: its   *)
(* caller sees nothing, then at most `limit` honest, complete combinations,  *)
(* which never change again.                                                 *)
THEOREM EngineImplementsAnswer == EngineSpec => ImplementsAnswer
BY TypeCorrect, LimitRespected, AnswersAreHonoured, CompleteAnswers, WhatIsOffered,
   InitMaps, NextMaps, PTL DEF EngineSpec, ImplementsAnswer, Call!Spec
=============================================================================
