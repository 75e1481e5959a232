----------------------- MODULE ZkpExchangeProperties -----------------------
(***************************************************************************)
(* What a verifier may rely on once a response has passed, what a prover   *)
(* that keeps to the rulebook may rely on, and which rule is named when a  *)
(* response breaks several.                                                *)
(***************************************************************************)
EXTENDS ZkpExchange

Shaped == phase \in {"shaped", "verified", "stale"}

-----------------------------------------------------------------------------
(* The value a function must have, from the rulebook's table. *)
IsResultOf(function, value) ==
  IF function.function_id = "age_check" THEN value = Bool(TRUE)
  ELSE /\ function.function_id = "pseudonym"
       /\ value = Bytes(IF function.params["prf"].text = "sha-256" THEN 32 ELSE 48)

(* The results that arrived, and what is handed on of them.                   *)
AnswersAll(arrived, handed) ==
  /\ Len(arrived) = Len(plan.functions)
  /\ \A f \in DOMAIN plan.functions :
       \E r \in DOMAIN arrived :
         /\ arrived[r][1] = Text(plan.functions[f].handle)
         /\ IsResultOf(plan.functions[f], arrived[r][2])
         /\ handed[f] = <<plan.functions[f].handle, arrived[r][2]>>

(* A response that passes answers every function asked, once, with a value of *)
(* its kind, and nothing else, in every presentation, under a system the      *)
(* verifier listed, and there are several only by its leave.  The members are *)
(* those that arrived, in whatever order they arrived.  Of a response that is *)
(* refused nothing is accepted, whatever of it had passed before.             *)
PassedAnswersAll ==
  /\ phase = "refused" => accepted = << >>
  /\ Shaped =>
       \E m \in DOMAIN token.members :
         LET arrived == token.members[m][2].items
         IN /\ token.members[m][1] = request.query.id.text
            /\ Len(arrived) > 1 => request.query.multiple = Flag(TRUE)
            /\ Len(accepted) = Len(arrived)
            /\ \A i \in DOMAIN arrived :
                 /\ \E e \in DOMAIN arrived[i].decoded.entries :
                      LET entry == arrived[i].decoded.entries[e]
                      IN entry[1] = Text("results") /\ AnswersAll(entry[2].entries, accepted[i].results)
                 /\ \E e \in DOMAIN arrived[i].decoded.entries :
                      LET entry == arrived[i].decoded.entries[e]
                      IN entry[1] = Text("system_id") /\ entry[2].text \in plan.system_filter.system_ids

-----------------------------------------------------------------------------
(* The order of the rules in docs/zkp_req_response.md, "Order of checks". *)
DocumentedOrder ==
  <<{"response_not_parseable", "duplicate_member", "query_id_missing", "presentations_not_array",
     "presentations_empty", "presentations_multiple_not_allowed"},
    {"presentation_not_string", "presentation_not_base64url"},
    {"cbor_malformed", "cbor_indefinite_length", "cbor_trailing_bytes", "cbor_duplicate_key"},
    {"presentation_not_map"}, {"presentation_key_not_text"}, {"presentation_unknown_member"},
    {"presentation_member_missing"}, {"presentation_member_wrong_type"},
    {"system_id_not_offered"}, {"proof_empty"},
    {"issuer_key_set_empty", "issuer_key_set_too_many", "issuer_key_not_bytes", "issuer_key_empty",
     "issuer_key_too_large"},
    {"proof_time_missing", "proof_time_not_tdate", "proof_time_form"},
    {"result_key_not_text"}, {"result_handle_unexpected"}, {"result_handle_missing"},
    {"result_function_unknown", "pseudonym_prf_unknown", "result_wrong_type", "result_not_satisfied",
     "pseudonym_wrong_length"}>>

Rank(code) == CHOOSE r \in DOMAIN DocumentedOrder : code \in DocumentedOrder[r]

(* What an answer is refused for. *)
AnswerDefect(value) ==
  LET Defect(element) == PresentationDefect(plan, element)
  IN IF EnvelopeDefect(plan, value) # None THEN EnvelopeDefect(plan, value)
     ELSE FirstDefect(PresentationsOf(plan, value), Defect)

(* And what it would be refused for if this were the only change of it. *)
Alone(change) == AnswerDefect(Alteration(honest, change))

(* Where its rule stands: the presentation, the rule, the function asked. *)
Standing(change) ==
  LET rank == Rank(Alone(change))
      asked == {f \in DOMAIN plan.functions : change.within = "results" /\ change.key = Text(plan.functions[f].handle)}
  IN <<IF rank = 1 THEN 0 ELSE change.at, rank, IF asked = {} THEN 0 ELSE FirstIndex(asked)>>

StandsBefore(a, b) ==
  \E i \in 1..3 : a[i] < b[i] /\ \A j \in 1..(i - 1) : a[j] = b[j]

ListsASystem == plan.system_filter.system_ids \notin {None, {}}

(* When the rulebook lets an honest prover answer as it did: it may use a     *)
(* system, the request can be satisfied, the clock shows a date that can be   *)
(* written, and there is one presentation, or leave for several.              *)
HonestIsGood ==
  /\ ListsASystem /\ Unsatisfiable(plan) = None /\ proved + request.drift \in 0..MaxSecs
  /\ Len(honest.members[1][2].items) > 1 => request.query.multiple = Flag(TRUE)

(* However many places of an answer are wrong, the code returned is that of   *)
(* the rule the documentation puts first, in the first presentation that      *)
(* breaks one; and an answer passes only if each of its changes would have    *)
(* passed by itself.                                                          *)
FirstRuleIsNamed ==
  phase \in {"refused", "shaped", "verified", "stale"} /\ HonestIsGood =>
    LET wrong == {change \in altered : Alone(change) # None}
    IN IF wrong = {} THEN phase # "refused"
       ELSE /\ phase = "refused"
            /\ \E first \in wrong :
                 /\ verdict = Alone(first)
                 /\ \A other \in wrong : ~ StandsBefore(Standing(other), Standing(first))

-----------------------------------------------------------------------------
(* A proof is taken exactly while it is fresh, counted in seconds between two *)
(* clocks: its time is rendered by the one side and read back by the other,   *)
(* across the ends of days, months and years.                                 *)
FreshProofsOnly ==
  [][phase = "shaped" /\ phase' # "shaped" /\ altered = {} =>
       (phase' = "verified") = (proved + request.drift \in (clock - MaxAge)..(clock + Skew))]_vars

-----------------------------------------------------------------------------
(* The days of the calendar from one date to another, both counted. *)
NotAfter(a, b) == ~ StandsBefore(b, a)
DaysWithin(from, to) ==
  Cardinality({date \in (from[1]..to[1]) \X (1..12) \X (1..31) :
                 IsDay(date) /\ NotAfter(from, date) /\ NotAfter(date, to)})

(* An age range with two bounds is declined for its width exactly if it spans *)
(* less than 365 days, counted on the calendar: a range of a single day would *)
(* tell the date of birth.                                                    *)
NarrowRangesAreDeclined ==
  plan # None =>
    \A i \in DOMAIN plan.functions :
      LET function == plan.functions[i]
          verdictOf == FunctionRule(plan, i)
      IN function.function_id = "age_check" /\ {"ge", "le"} \subseteq DOMAIN function.params =>
           LET days == DaysWithin(DateOf[function.params["ge"].text], DateOf[function.params["le"].text])
           IN /\ verdictOf = None => days >= 365
              /\ verdictOf = "age_check_span_too_short" => days \in 1..364
              /\ verdictOf = "age_check_inverted" => days = 0

-----------------------------------------------------------------------------
(* What texts of the code say, which it does not do. *)

(* "Offering an entry the wallet cannot honour walks the user through a       *)
(* consent screen and then fails" (profile.rs): a request that is planned and *)
(* satisfiable, and so is offered, has an answer the verifier's check takes.  *)
OfferCanBeAnswered ==
  phase = "refused" /\ altered = {} /\ Len(honest.members[1][2].items) = 1 => Unsatisfiable(plan) # None

(* "In either rulebook shape" (matching.rs): a query whose items are in an    *)
(* object under `claims` is planned.                                          *)
EitherShapeIsPlanned == verdict # "claims_present"
=============================================================================
