---------------------------- MODULE ZkpResponse ----------------------------
(***************************************************************************)
(* The shape check of `zkp_req` responses (zkp_req_response.rs): the first *)
(* rule a presentation breaks, None when it breaks none.  The order of the *)
(* checks is the order of the IFs; a loop is its first element with a      *)
(* defect.                                                                 *)
(*                                                                         *)
(* An array element that is a string carries what its text decodes to: a   *)
(* CBOR item, or the failure of base64url or of the CBOR reader.  A byte   *)
(* string is its length; a map the sequence of its <<key, value>> pairs.   *)
(***************************************************************************)
EXTENDS ZkpRequest, ProofTime

(* What makes the text of a presentation unreadable: it is not base64url, or  *)
(* not CBOR.                                                                  *)
ReadFailures ==
  {"presentation_not_base64url", "cbor_malformed", "cbor_indefinite_length", "cbor_trailing_bytes",
   "cbor_duplicate_key"}

(* And the codes of the checks below. *)
ASSUME NoneIsNoDefect ==
  None \notin ReadFailures \cup
              {"response_not_parseable", "duplicate_member", "query_id_missing", "presentations_not_array",
               "presentations_empty", "presentations_multiple_not_allowed", "presentation_not_string",
               "presentation_not_map", "presentation_key_not_text", "presentation_unknown_member",
               "presentation_member_missing", "presentation_member_wrong_type", "system_id_not_offered",
               "proof_empty", "issuer_key_set_empty", "issuer_key_set_too_many", "issuer_key_not_bytes",
               "issuer_key_empty", "issuer_key_too_large",
               "proof_time_missing", "proof_time_not_tdate", "proof_time_form",
               "result_key_not_text", "result_handle_unexpected", "result_handle_missing", "result_wrong_type",
               "result_not_satisfied", "result_function_unknown", "pseudonym_prf_unknown",
               "pseudonym_wrong_length"}

Bytes(len) == [cbor |-> "bytes", len |-> len]
Text(text) == [cbor |-> "text", text |-> text]
List(items) == [cbor |-> "array", items |-> items]
Map(entries) == [cbor |-> "map", entries |-> entries]
Tag(number, inner) == [cbor |-> "tag", number |-> number, inner |-> inner]
Bool(flag) == [cbor |-> "bool", flag |-> flag]
OtherItem == [cbor |-> "other"]

Encoded(item) == [is |-> "string", decoded |-> item]
Undecodable(code) == [is |-> "string", failure |-> code]

IsA(item, kind) == item.cbor = kind

(* A time that is there is not taken for one that is not. *)
ASSUME NoneIsNoTime == None \notin Seq(Int)

(* Whether there is a value under a text key, and the first there is. *)
PlacesOf(entries, name) == {i \in DOMAIN entries : entries[i][1] = Text(name)}
Has(entries, name) == PlacesOf(entries, name) # {}
Find(entries, name) == entries[FirstIndex(PlacesOf(entries, name))][2]

FirstDefect(seq, Defect(_)) ==
  LET broken == {i \in DOMAIN seq : Defect(seq[i]) # None}
  IN IF broken = {} THEN None ELSE Defect(seq[FirstIndex(broken)])

MemberNames == {"system_id", "proof", "issuer_key_set", "proof_time", "results"}
KindOf == [system_id |-> "text", proof |-> "bytes", issuer_key_set |-> "array", results |-> "map"]

KeySetMax == 8
KeyMaxBytes == 4096

KeyDefect(key) ==
  IF ~ IsA(key, "bytes") THEN "issuer_key_not_bytes"
  ELSE IF key.len = 0 THEN "issuer_key_empty"
  ELSE IF key.len > KeyMaxBytes THEN "issuer_key_too_large" ELSE None

(* check_issuer_key_set *)
KeySetDefect(keys) ==
  IF keys = << >> THEN "issuer_key_set_empty"
  ELSE IF Len(keys) > KeySetMax THEN "issuer_key_set_too_many"
  ELSE FirstDefect(keys, KeyDefect)

TdateDefect(item) ==
  IF ~ IsA(item, "tag") \/ item.number # 0 \/ ~ IsA(item.inner, "text") THEN "proof_time_not_tdate"
  ELSE IF IsWrong(Parse(item.inner.text)) THEN "proof_time_form" ELSE None

(* check_proof_time *)
TimeDefect(plan, entries) ==
  IF Has(entries, "proof_time") THEN TdateDefect(Find(entries, "proof_time"))
  ELSE IF plan.source_format = "mso_mdoc" THEN "proof_time_missing" ELSE None

PseudonymLength == [prf \in {"sha-256", "hashdh-bls12381g1"} |-> IF prf = "sha-256" THEN 32 ELSE 48]

ASSUME NoneIsNoFunction == None \notin DOMAIN PseudonymLength

(* The body of the second loop of check_results. *)
ValueDefect(function, value) ==
  IF function.function_id = "age_check"
  THEN IF ~ IsA(value, "bool") THEN "result_wrong_type"
       ELSE IF value.flag THEN None ELSE "result_not_satisfied"
  ELSE IF function.function_id # "pseudonym" THEN "result_function_unknown"
  ELSE IF ParamText(function.params, "prf") \notin DOMAIN PseudonymLength THEN "pseudonym_prf_unknown"
  ELSE IF ~ IsA(value, "bytes") THEN "result_wrong_type"
  ELSE IF value.len # PseudonymLength[ParamText(function.params, "prf")] THEN "pseudonym_wrong_length"
  ELSE None

Handles(plan) == {plan.functions[i].handle : i \in DOMAIN plan.functions}

(* Mutant: a handle nobody asked for is passed over. *)
ResultsDefectOfAsked(plan, results) ==
  LET ValueOf(function) == ValueDefect(function, Find(results, function.handle))
  IN IF \E i \in DOMAIN results : ~ IsA(results[i][1], "text") THEN "result_key_not_text"
     ELSE IF \E handle \in Handles(plan) : ~ Has(results, handle) THEN "result_handle_missing"
     ELSE FirstDefect(plan.functions, ValueOf)

(* check_results *)
ResultsDefect(plan, results) ==
  LET ValueOf(function) == ValueDefect(function, Find(results, function.handle))
  IN IF \E i \in DOMAIN results : ~ IsA(results[i][1], "text") THEN "result_key_not_text"
     ELSE IF \E i \in DOMAIN results : results[i][1].text \notin Handles(plan) THEN "result_handle_unexpected"
     ELSE IF \E handle \in Handles(plan) : ~ Has(results, handle) THEN "result_handle_missing"
     ELSE FirstDefect(plan.functions, ValueOf)

(* The names and the types of the members. *)
MembersDefect(entries) ==
  IF \E i \in DOMAIN entries : ~ IsA(entries[i][1], "text") THEN "presentation_key_not_text"
  ELSE IF \E i \in DOMAIN entries : entries[i][1].text \notin MemberNames THEN "presentation_unknown_member"
  ELSE IF \E name \in DOMAIN KindOf : ~ Has(entries, name) THEN "presentation_member_missing"
  ELSE IF \E name \in DOMAIN KindOf : ~ IsA(Find(entries, name), KindOf[name])
       THEN "presentation_member_wrong_type" ELSE None

Offered(plan, systemId) ==
  plan.system_filter.system_ids # None /\ systemId \in plan.system_filter.system_ids

(* Mutant: the results looked at before the time they are for. *)
ContentDefectReordered(plan, entries) ==
  IF ~ Offered(plan, Find(entries, "system_id").text) THEN "system_id_not_offered"
  ELSE IF Find(entries, "proof").len = 0 THEN "proof_empty"
  ELSE IF KeySetDefect(Find(entries, "issuer_key_set").items) # None
       THEN KeySetDefect(Find(entries, "issuer_key_set").items)
  ELSE IF ResultsDefect(plan, Find(entries, "results").entries) # None
       THEN ResultsDefect(plan, Find(entries, "results").entries)
  ELSE TimeDefect(plan, entries)

ContentDefect(plan, entries) ==
  IF ~ Offered(plan, Find(entries, "system_id").text) THEN "system_id_not_offered"
  ELSE IF Find(entries, "proof").len = 0 THEN "proof_empty"
  ELSE IF KeySetDefect(Find(entries, "issuer_key_set").items) # None
       THEN KeySetDefect(Find(entries, "issuer_key_set").items)
  ELSE IF TimeDefect(plan, entries) # None
       THEN TimeDefect(plan, entries)
  ELSE ResultsDefect(plan, Find(entries, "results").entries)

(* check_presentation *)
PresentationDefect(plan, element) ==
  IF ~ HasType(element, "string") THEN "presentation_not_string"
  ELSE IF "failure" \in DOMAIN element THEN element.failure
  ELSE IF ~ IsA(element.decoded, "map") THEN "presentation_not_map"
  ELSE IF MembersDefect(element.decoded.entries) # None THEN MembersDefect(element.decoded.entries)
  ELSE ContentDefect(plan, element.decoded.entries)

(* parse_response, before the presentations. *)
EnvelopeDefect(plan, token) ==
  IF ~ HasType(token, "object") THEN "response_not_parseable"
  ELSE IF \E i, j \in DOMAIN token.members : i # j /\ token.members[i][1] = token.members[j][1]
       THEN "duplicate_member"
  ELSE IF ~ Is(plan.raw.id, "string") THEN "query_id_missing"
  ELSE LET entries == {i \in DOMAIN token.members : token.members[i][1] = plan.raw.id.text}
       IN IF entries = {} THEN "query_id_missing"
          ELSE LET entry == token.members[FirstIndex(entries)][2]
               IN IF ~ HasType(entry, "array") THEN "presentations_not_array"
                  ELSE IF entry.items = << >> THEN "presentations_empty"
                  ELSE IF Len(entry.items) > 1 /\ plan.raw.multiple # Flag(TRUE)
                       THEN "presentations_multiple_not_allowed" ELSE None

PresentationsOf(plan, token) ==
  token.members[FirstIndex({i \in DOMAIN token.members : token.members[i][1] = plan.raw.id.text})][2].items

(* Presentation: results by handle, in the order the request returns them. *)
Decoded(plan, element) ==
  LET entries == element.decoded.entries
  IN [system_id |-> Find(entries, "system_id").text,
      proof_time |-> IF Has(entries, "proof_time") THEN Find(entries, "proof_time").inner.text ELSE None,
      results |-> [i \in DOMAIN plan.functions |->
        <<plan.functions[i].handle, Find(Find(entries, "results").entries, plan.functions[i].handle)>>]]
=============================================================================
