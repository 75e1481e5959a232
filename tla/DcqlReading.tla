---------------------------- MODULE DcqlReading ----------------------------
(***************************************************************************)
(* How a `dcql_query` becomes a query to match: parse_dcql_or_zkp_req and  *)
(* RequestContext::matching_query (request.rs), and the identifier checks  *)
(* of DcqlQuery::validate (siros-dcql: query.rs).                          *)
(*                                                                         *)
(* What serde makes of a credential query is given with it: `parses` says  *)
(* whether it has DCQL's typed form "as_sent", only "without_claims" (the  *)
(* `claims` object of the zkp_req rulebook example), or "never".           *)
(***************************************************************************)
EXTENDS Basics

CONSTANT Id

ASSUME NoneIsNoId == None \notin Id

(* A member of `credentials`. An id may be empty; `claims` holds the ids of   *)
(* its claims queries.                                                        *)
CredentialQuery ==
  [id : Id, empty : BOOLEAN, zkp : BOOLEAN, claims : Seq(Id \cup {None}),
   parses : {"as_sent", "without_claims", "never"}]

(* `rest`: whether everything but `credentials` has its typed form. Without   *)
(* an array of credentials nothing has.                                       *)
RawQuery == [credentials : {None} \cup Seq(CredentialQuery), rest : BOOLEAN]

-----------------------------------------------------------------------------
IsTyped(raw) ==
  /\ raw.credentials # None /\ raw.rest
  /\ \A i \in DOMAIN raw.credentials : raw.credentials[i].parses = "as_sent"

IsZkpReq(credential) == credential.zkp

(* The typed parse failed, and only because of its zkp_req credentials.       *)
IsForThePlanner(raw) ==
  /\ ~IsTyped(raw)
  /\ raw.credentials # None
  /\ \E i \in DOMAIN raw.credentials : IsZkpReq(raw.credentials[i])
  /\ IsTyped([raw EXCEPT !.credentials = SelectSeq(@, LAMBDA c : ~IsZkpReq(c))])

IsMalformed(raw) == ~IsTyped(raw) /\ ~IsForThePlanner(raw)

(* Mutant: every credential query loses its claims. *)
WithoutClaimsOfAny(credential) ==
  [credential EXCEPT !.claims = << >>, !.parses = IF @ = "without_claims" THEN "as_sent" ELSE @]

WithoutClaims(credential) ==
  IF IsZkpReq(credential)
  THEN [credential EXCEPT !.claims = << >>,
                          !.parses = IF @ = "without_claims" THEN "as_sent" ELSE @]
  ELSE credential

(* The query the engine runs over, or None.                                   *)
MatchingQuery(raw) ==
  IF IsTyped(raw) THEN raw
  ELSE LET stripped == [raw EXCEPT !.credentials = [i \in DOMAIN @ |-> WithoutClaims(@[i])]]
       IN IF IsTyped(stripped) THEN stripped ELSE None

-----------------------------------------------------------------------------
HasDuplicate(ids) == \E i, j \in DOMAIN ids : i < j /\ ids[i] = ids[j] /\ ids[i] # None

(* Mutant: only neighbours are compared. *)
CredentialErrorOfNeighbours(query, n) ==
  IF query.credentials[n].empty THEN "EmptyCredentialId"
  ELSE IF n > 1 /\ query.credentials[n - 1].id = query.credentials[n].id
       THEN "DuplicateCredentialId"
  ELSE IF HasDuplicate(query.credentials[n].claims) THEN "DuplicateClaimId"
  ELSE "none"

(* What validate finds at credential query n, all before it being sound.      *)
CredentialError(query, n) ==
  IF query.credentials[n].empty THEN "EmptyCredentialId"
  ELSE IF \E i \in 1..(n - 1) : query.credentials[i].id = query.credentials[n].id
       THEN "DuplicateCredentialId"
  ELSE IF HasDuplicate(query.credentials[n].claims) THEN "DuplicateClaimId"
  ELSE "none"
=============================================================================
