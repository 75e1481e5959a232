--------------------------- MODULE DcqlProperties ---------------------------
(***************************************************************************)
(* What the DCQL engine promises, stated over DcqlEval.                    *)
(***************************************************************************)
EXTENDS DcqlEval, SequencesExt

TypeOK ==
  /\ request \in DcqlQuery /\ wallet \in Seq(Credential) /\ limit \in 0..MaxUsize
  /\ pc \in {"evaluate", "combine", "group", "option", "multiply", "read", "done"}
  /\ q \in Nat /\ c \in Nat
  /\ candidates \in [1..Len(request.credentials) -> Seq(Candidate)]
  /\ satisfiable \in BOOLEAN
  /\ g \in Nat /\ p \in Nat /\ o \in Nat
  /\ out \in Seq(Combination) /\ next \in Seq(Combination)
  /\ dropped \in Dropped /\ total \in Dropped
  /\ d \in Nat /\ dials \in Seq(Nat) /\ left \in 0..MaxUsize

-----------------------------------------------------------------------------
(* The limit holds at every moment, so no more than `limit` combinations of a *)
(* set are ever materialised, however large the product (eval.rs: the budget  *)
(* of each option is what the options before it left).                        *)
WithinLimit == Len(next) <= limit /\ (pc = "done" => Len(out) <= limit)

(* An answer to query i that the wallet can honour: candidates of that very   *)
(* query, each still bound when it must be and able to deliver its claims,    *)
(* one of them, or all of them for a `multiple` query (§6.1, §6.4.1).         *)
Honours(answer, i) ==
  /\ request.credentials[i].id = answer.id
  /\ answer.picked # << >>
  /\ \A n \in DOMAIN answer.picked :
       \E w \in DOMAIN wallet :
         /\ IsCandidate(request.credentials[i], wallet[w])
         /\ answer.picked[n] = CandidateOf(request.credentials[i], wallet[w])
  /\ IF request.credentials[i].multiple THEN answer.picked = candidates[i]
     ELSE Len(answer.picked) = 1

(* No combination, finished or partial, ever holds a credential the query it  *)
(* is filed under did not accept.                                             *)
OnlyHonouredAnswers ==
  \A combination \in ToSet(out) \cup ToSet(next) :
    \A k \in DOMAIN combination.answers :
      \E i \in Queries : Honours(combination.answers[k], i)

AnswersOption(combination, option) ==
  \A k \in DOMAIN option :
    \E j \in DOMAIN combination.answers : combination.answers[j].id = option[k]

(* What is offered satisfies the whole request: every required set has an     *)
(* option all of whose queries the combination answers. Without sets that is  *)
(* every query (§6.4); an unsatisfiable request offers nothing.               *)
EveryRequiredSetAnswered ==
  pc = "done" =>
    \A n \in DOMAIN out :
      /\ satisfiable
      /\ \A s \in DOMAIN Sets : IsRequired(s) =>
           \E k \in DOMAIN Sets[s].options : AnswersOption(out[n], Sets[s].options[k])

(* To its caller the engine is one step that answers the request.             *)
Call == INSTANCE DcqlAnswer WITH
  returned <- pc = "done",
  offered  <- IF pc = "done" THEN out ELSE << >>

ImplementsAnswer == Call!Spec

-----------------------------------------------------------------------------
(* A reference enumeration, built whole and by arithmetic rather than by      *)
(* turning dials: the nth way to answer an option is the mixed-radix reading  *)
(* of n across the widths, the first query's digit the least significant.     *)

(* How many readings the first k dials have.                                  *)
Products(widths) ==
  LET product[k \in 0..Len(widths)] == IF k = 0 THEN 1 ELSE product[k - 1] * widths[k]
  IN product

OptionWidths(option) == [k \in DOMAIN option |-> Width(option[k])]

Digit(widths, n, k) == (n \div Products(widths)[k - 1]) % widths[k]

Way(option, n) ==
  [k \in DOMAIN option |->
     [id |-> option[k],
      picked |-> IF IsMultiple(option[k]) THEN CandidatesOf(option[k])
                 ELSE << CandidatesOf(option[k])[Digit(OptionWidths(option), n, k) + 1] >>]]

WaysOfOption(option) ==
  IF OptionSatisfiable(option)
  THEN [n \in 1..Products(OptionWidths(option))[Len(option)] |-> Way(option, n - 1)]
  ELSE << >>

WaysOfSet(s) == FlattenSeq([k \in DOMAIN s.options |-> WaysOfOption(s.options[k])])

(* Every way to answer the first k sets: set by set, each partial answer      *)
(* followed by all the ways of the next required set.                         *)
After(partial, ways) == [n \in DOMAIN ways |-> partial \o ways[n]]

Extend(partials, s) == FlattenSeq([i \in DOMAIN partials |-> After(partials[i], WaysOfSet(s))])

WaysOfFirst ==
  LET ways[k \in 0..Len(Sets)] ==
        IF k = 0 THEN << << >> >>
        ELSE IF IsRequired(k) THEN Extend(ways[k - 1], Sets[k]) ELSE ways[k - 1]
  IN ways

AllWays ==
  IF satisfiable /\ \E s \in DOMAIN Sets : IsRequired(s) THEN WaysOfFirst[Len(Sets)] ELSE << >>

(* The purposes of the sets a combination satisfies, in set order.            *)
PurposesOfFirst ==
  LET purposes[k \in 0..Len(Sets)] ==
        IF k = 0 THEN << >>
        ELSE IF IsRequired(k) /\ Sets[k].purpose # None
        THEN Append(purposes[k - 1], Sets[k].purpose) ELSE purposes[k - 1]
  IN purposes

(* The result is exactly the beginning of that enumeration: nothing is        *)
(* skipped, reordered or repeated, each set's reason goes with it, and the    *)
(* limit is the only thing that cuts the list short (§6.4; eval.rs            *)
(* "in wallet order", products.rs "mixed-radix reading of n").                *)
FirstWaysInOrder ==
  pc = "done" =>
    /\ Len(out) = IF Len(AllWays) < limit THEN Len(AllWays) ELSE limit
    /\ \A n \in DOMAIN out :
         out[n] = [answers |-> AllWays[n], purposes |-> PurposesOfFirst[Len(Sets)]]

-----------------------------------------------------------------------------
(* No two queries share an id: what DcqlQuery::validate guarantees. *)
UniqueIds ==
  \A i, j \in Queries : request.credentials[i].id = request.credentials[j].id => i = j

OnlyOneRequired == \E s \in DOMAIN Sets : \A t \in DOMAIN Sets : IsRequired(t) <=> t = s

(* The wallet can say how many ways it does not show (eval.rs: Dropped).  The *)
(* count is never more than was left out; with a single required set it is    *)
(* the number left out; and it is given up as a mere bound only when the ways *)
(* really do not fit a usize, however the products and sums on the way to it  *)
(* overflow.  Where ids repeat, a later set may turn out to have no ways.     *)
DroppedIsHonest ==
  pc = "done" =>
    /\ UniqueIds => dropped.count + Len(out) <= Len(AllWays)
    /\ OnlyOneRequired /\ dropped.exact => dropped.count + Len(out) = Len(AllWays)
    /\ UniqueIds /\ ~dropped.exact => Len(AllWays) > MaxUsize

-----------------------------------------------------------------------------
(* Claims (§6.4.1). *)

Holds(content, claim) == \E v \in content[claim.path] : v \in claim.values

Ids(claims) == [n \in DOMAIN claims |-> claims[n].id]

(* No two claims queries share an id: what DcqlQuery::validate guarantees. *)
UniqueClaimIds(query) ==
  \A m, n \in DOMAIN query.claims :
    query.claims[m].id = query.claims[n].id /\ query.claims[m].id # None => m = n

CanDeliver(query, content, option) ==
  \A k \in DOMAIN option :
    \E n \in DOMAIN query.claims :
      query.claims[n].id = option[k] /\ Holds(content, query.claims[n])

(* A candidate is a credential of the wallet and discloses only claims it     *)
(* has, all of them when the verifier gave no options, else exactly the first *)
(* option it can deliver (select_claims).                                     *)
DisclosesPreferredOption ==
  \A i \in Queries : \A n \in DOMAIN candidates[i] : \E w \in DOMAIN wallet :
    LET query == request.credentials[i]
        claims == candidates[i][n].claims
    IN /\ wallet[w].id = candidates[i][n].credential_id
       /\ query.require_binding => wallet[w].bound
       /\ \A m \in DOMAIN claims : Holds(wallet[w].content, claims[m])
       /\ IF query.claim_sets = None THEN claims = query.claims
          ELSE \E k \in DOMAIN query.claim_sets :
                 /\ Ids(claims) = query.claim_sets[k]
                 /\ UniqueClaimIds(query) =>
                      \A j \in 1..(k - 1) :
                        ~CanDeliver(query, wallet[w].content, query.claim_sets[j])

(* And no credential that could answer the query is left out of it: one with  *)
(* every claim, or with those of some option. `claim_sets` without `claims`   *)
(* is the exception, which matches nothing.                                   *)
AbleCredentialsAreCandidates ==
  pc = "combine" =>
    \A i \in Queries : \A w \in DOMAIN wallet :
      LET query == request.credentials[i]
          able == IF query.claim_sets = None
                  THEN \A n \in DOMAIN query.claims : Holds(wallet[w].content, query.claims[n])
                  ELSE /\ query.claims # << >>
                       /\ UniqueClaimIds(query)
                       /\ \E k \in DOMAIN query.claim_sets :
                            CanDeliver(query, wallet[w].content, query.claim_sets[k])
      IN /\ Matches(query, wallet[w])
         /\ query.require_binding => wallet[w].bound
         /\ able
         => \E n \in DOMAIN candidates[i] : candidates[i][n].credential_id = wallet[w].id

-----------------------------------------------------------------------------
(* Claims of the documentation that the engine does not keep.                 *)

(* eval.rs, Dropped::Exact: "Exactly this many were not built."               *)
ExactMeansExact ==
  pc = "done" /\ dropped.exact => dropped.count + Len(out) = Len(AllWays)

(* eval.rs, combinations: an empty combination "would hand the picker an      *)
(* option containing no credentials at all".                                  *)
NoEmptyCombination ==
  pc = "done" => \A n \in DOMAIN out : out[n].answers # << >>

(* query.rs, CredentialQuery::multiple: "Whether more than one credential may *)
(* be returned for this query."                                               *)
OneCredentialUnlessMultiple ==
  pc = "done" =>
    \A n \in DOMAIN out : \A j, k \in DOMAIN out[n].answers :
      LET a == out[n].answers[j]  b == out[n].answers[k]
      IN a.id = b.id /\ ~IsMultiple(a.id) => a.picked = b.picked
=============================================================================
