-------------------------------- MODULE Dcql --------------------------------
(***************************************************************************)
(* The DCQL query model (siros-dcql, query.rs), the wallet it is evaluated *)
(* against, which claims of a credential a query discloses, and when the   *)
(* credential is a candidate for it (eval.rs: select_claims, resolve).     *)
(*                                                                         *)
(* A path is an opaque value; what a credential has at it is the set of    *)
(* values its resolution selects, the empty set standing for every         *)
(* PathError. A claims query without `values` accepts all of Value.        *)
(***************************************************************************)
EXTENDS Basics

CONSTANTS
  Path,     \* claims path pointers
  Value,    \* claim values, compared by type and value together
  ClaimId   \* ids of claims queries

ASSUME NoneIsAbsent == None \notin ClaimId

(* One requested claim. *)
ClaimsQuery == [id : ClaimId \cup {None}, path : Path, values : SUBSET Value]

(* What a credential holds, path by path. *)
Content == [Path -> SUBSET Value]

-----------------------------------------------------------------------------
(* Mutant: every value of the claim has to be an expected one. *)
ResolvesToAll(claim, content) ==
  content[claim.path] # {} /\ content[claim.path] \subseteq claim.values

(* The claim is there, and one of its values is among the expected ones. *)
Resolves(claim, content) == content[claim.path] \cap claim.values # {}

HasClaim(query, id) == \E i \in DOMAIN query.claims : query.claims[i].id = id

(* The first claims query with that id. *)
Claim(query, id) ==
  query.claims[CHOOSE i \in DOMAIN query.claims :
                 /\ query.claims[i].id = id
                 /\ \A j \in 1..(i - 1) : query.claims[j].id # id]

(* Every claim an option names is listed by the query and resolves. *)
Deliverable(query, option, content) ==
  \A k \in DOMAIN option :
    HasClaim(query, option[k]) /\ Resolves(Claim(query, option[k]), content)

(* Mutant: the least preferred deliverable option wins. *)
IsLeastPreferred(query, content, i) ==
  /\ Deliverable(query, query.claim_sets[i], content)
  /\ \A j \in (i + 1)..Len(query.claim_sets) :
       ~Deliverable(query, query.claim_sets[j], content)

(* The verifier's most preferred option among those the credential can deliver. *)
IsPreferred(query, content, i) ==
  /\ Deliverable(query, query.claim_sets[i], content)
  /\ \A j \in 1..(i - 1) : ~Deliverable(query, query.claim_sets[j], content)

(* Whether the credential can answer the query's claims at all. `claim_sets` *)
(* without `claims` cannot be answered by anything.                          *)
Selectable(query, content) ==
  \/ /\ query.claim_sets = None
     /\ \A i \in DOMAIN query.claims : Resolves(query.claims[i], content)
  \/ /\ query.claim_sets # None
     /\ query.claims # << >>
     /\ \E i \in DOMAIN query.claim_sets : IsPreferred(query, content, i)

(* The claims disclosed by a credential that can, in the order of the option. *)
SelectClaims(query, content) ==
  IF query.claim_sets = None THEN query.claims
  ELSE LET option == query.claim_sets[CHOOSE i \in DOMAIN query.claim_sets :
                                        IsPreferred(query, content, i)]
       IN [k \in DOMAIN option |-> Claim(query, option[k])]

-----------------------------------------------------------------------------
CONSTANTS
  QueryId,         \* ids of credential queries
  CredentialId,    \* ids of stored credentials
  Format,          \* credential formats
  Purpose,         \* purposes of credential sets
  Matches(_, _),   \* Policy::matches(query, credential)
  Requests,        \* the requests considered
  Wallets,         \* the wallets considered
  Limits,          \* the limits a caller passes to combinations
  MaxUsize         \* usize::MAX

(* The query model: see query.rs. An absent `credential_sets` is None. *)
CredentialQuery ==
  [id : QueryId, format : Format, multiple : BOOLEAN, require_binding : BOOLEAN,
   claims : Seq(ClaimsQuery), claim_sets : {None} \cup Seq(Seq(ClaimId))]

CredentialSetQuery ==
  [options : Seq(Seq(QueryId)), required : BOOLEAN, purpose : {None} \cup Purpose]

DcqlQuery ==
  [credentials : Seq(CredentialQuery), credential_sets : {None} \cup Seq(CredentialSetQuery)]

Credential == [id : CredentialId, format : Format, bound : BOOLEAN, content : Content]

Candidate == [credential_id : CredentialId, claims : Seq(ClaimsQuery)]

(* What one dial adds to a combination. *)
Answer == [id : QueryId, picked : Seq(Candidate)]

Combination == [answers : Seq(Answer), purposes : Seq(Purpose)]

(* Dropped::Exact(count) or Dropped::AtLeast(count). *)
Dropped == [count : 0..MaxUsize, exact : BOOLEAN]

ASSUME InputsAreWellFormed ==
  /\ Requests \subseteq DcqlQuery
  /\ Wallets \subseteq Seq(Credential)
  /\ MaxUsize \in Nat \ {0}
  /\ Limits \subseteq 0..MaxUsize

-----------------------------------------------------------------------------
(* A credential is a candidate of a query when it is bound if it has to be, *)
(* fits its format and metadata, and can deliver its claims.                *)
IsCandidate(query, credential) ==
  /\ query.require_binding => credential.bound
  /\ Matches(query, credential)
  /\ Selectable(query, credential.content)

CandidateOf(query, credential) ==
  [credential_id |-> credential.id, claims |-> SelectClaims(query, credential.content)]
=============================================================================
