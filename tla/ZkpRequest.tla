----------------------------- MODULE ZkpRequest -----------------------------
(***************************************************************************)
(* The planner of `zkp_req` credential queries (zkp_req.rs): `plan` judges *)
(* the structure of a query, `unsatisfiable` the rulebook's rules that     *)
(* need only the request.  Both return at the first thing wrong, so the    *)
(* order of their checks is the order of the IFs, and a loop over items is *)
(* its first item with a defect.                                           *)
(***************************************************************************)
EXTENDS JsonValues, Calendar

(* A credential query as received: which of the members claims, claim_sets    *)
(* and _req_sets it has, and the members that are read.                       *)
IsQuery(query) ==
  /\ Is(query, "object")
  /\ DOMAIN query = {"is", "id", "members", "meta", "req", "binding", "multiple"}

Invalid(code) == [invalid |-> code]
IsInvalid(result) == "invalid" \in DOMAIN result

(* FUNCTIONS: the parameters a function declares, in the table's order. *)
Declared ==
  [pseudonym |-> <<[name |-> "config", ty |-> "string"], [name |-> "ver", ty |-> "integer"],
                   [name |-> "prf", ty |-> "string"], [name |-> "verifier_context", ty |-> "string"]>>,
   age_check |-> <<[name |-> "ge", ty |-> "full_date"], [name |-> "le", ty |-> "full_date"]>>]

IsFullDate(text) == DateOf[text] # None /\ IsDay(DateOf[text])

ParamDefect(params, spec) ==
  IF spec.name \notin DOMAIN params THEN None
  ELSE LET value == params[spec.name]
       IN IF spec.ty = "integer"
          THEN IF Is(value, "number") /\ value.integer THEN None ELSE "param_wrong_type"
          ELSE IF ~ Is(value, "string") THEN "param_wrong_type"
          ELSE IF spec.ty = "full_date" /\ ~ IsFullDate(value.text) THEN "param_invalid_full_date"
          ELSE None

(* read_params: what is wrong with the parameters of an item. *)
ParamsDefect(function, params) ==
  IF params # None /\ ~ Is(params, "object") THEN "param_wrong_type"
  ELSE IF params = None \/ function \notin DOMAIN Declared THEN None
  ELSE LET specs == Declared[function]
           broken == {i \in DOMAIN specs : ParamDefect(params.members, specs[i]) # None}
       IN IF broken = {} THEN None ELSE ParamDefect(params.members, specs[FirstIndex(broken)])

(* The body of the loop of read_items; an item that is no object has no       *)
(* members.                                                                   *)
ItemDefect(items, i) ==
  IF ~ Is(items[i].fn_id, "string") THEN "item_missing_function_id"
  ELSE IF ~ Is(items[i].return, "string") THEN "item_missing_handle"
  ELSE IF \E j \in 1..(i - 1) : items[j].return = items[i].return THEN "duplicate_handle"
  ELSE ParamsDefect(items[i].fn_id.text, items[i].params)

(* PlannedFunction: the known parameters and the undeclared ones are one map. *)
Planned(item) ==
  [function_id |-> item.fn_id.text, handle |-> item.return.text,
   params |-> IF item.params = None THEN << >> ELSE item.params.members]

(* read_items *)
ReadItems(req) ==
  IF ~ Is(req, "array") \/ (Is(req, "array") /\ req.items = << >>)
  THEN Invalid("req_missing_or_empty")
  ELSE LET broken == {i \in DOMAIN req.items : ItemDefect(req.items, i) # None}
       IN IF broken # {} THEN Invalid(ItemDefect(req.items, FirstIndex(broken)))
          ELSE [functions |-> [i \in DOMAIN req.items |-> Planned(req.items[i])]]

(* read_meta *)
IsMeta(meta) ==
  /\ Is(meta, "object") /\ Is(meta.source_format, "string")
  /\ \A type \in {meta.doctype_value, meta.schema_id_value} : type = None \/ Is(type, "string")
  /\ meta.vct_values = None \/ IsTexts(meta.vct_values)

NoFilter == [proof_systems |-> None, system_ids |-> None]

(* read_system_filter and string_list: an entry that is there must have the   *)
(* right shape.  A missing vp_formats_supported is a missing entry of it.     *)
ReadSystemFilter(metadata) ==
  IF ~ Is(metadata, "object") THEN Invalid("invalid_client_metadata")
  ELSE IF metadata.zkp_req = None THEN NoFilter
  ELSE IF ~ Is(metadata.zkp_req, "object") THEN Invalid("invalid_client_metadata")
  ELSE LET systems == metadata.zkp_req.proof_system_values
           ids == metadata.zkp_req.system_id_values
       IN IF \E list \in {systems, ids} : list # None /\ ~ IsTexts(list)
          THEN Invalid("invalid_client_metadata")
          ELSE [proof_systems |-> IF systems = None THEN None ELSE TextsOf(systems),
                system_ids |-> IF ids = None THEN None ELSE TextsOf(ids)]

TextOf(v) == IF v = None THEN None ELSE v.text

PlanOf(query, functions, filter) ==
  [functions |-> functions, system_filter |-> filter,
   source_format |-> query.meta.source_format.text,
   meta_doctype |-> TextOf(query.meta.doctype_value),
   meta_schema_id |-> TextOf(query.meta.schema_id_value), raw |-> query]

(* plan *)
Plan(query, metadata) ==
  IF ~ Is(query, "object") THEN Invalid("query_not_parseable")
  ELSE IF "claims" \in query.members THEN Invalid("claims_present")
  ELSE IF "claim_sets" \in query.members THEN Invalid("claim_sets_present")
  ELSE IF "_req_sets" \in query.members THEN Invalid("req_sets_present")
  ELSE IF ~ IsMeta(query.meta) THEN Invalid("invalid_meta")
  ELSE LET items == ReadItems(query.req)
           filter == IF metadata = None THEN NoFilter ELSE ReadSystemFilter(metadata)
       IN IF IsInvalid(items) THEN items
          ELSE IF IsInvalid(filter) THEN filter
          ELSE PlanOf(query, items.functions, filter)

-----------------------------------------------------------------------------
(* unsatisfiable: None when no rule is broken, else the first that is. *)

(* Codes with which the checks of an item, of an age range and of the rest fail. *)
ASSUME NoneIsNoCode ==
  None \notin {"item_missing_function_id", "item_missing_handle", "duplicate_handle", "param_wrong_type",
               "param_invalid_full_date", "age_check_repeated", "age_check_no_bound", "age_check_inverted",
               "age_check_span_too_short", "function_unknown", "pseudonym_repeated", "pseudonym_config_missing",
               "pseudonym_config_unknown", "pseudonym_ver_missing", "pseudonym_ver_unsupported",
               "pseudonym_prf_missing", "pseudonym_prf_unsupported", "verifier_context_invalid",
               "source_format_unsupported", "meta_type_value_invalid", "holder_binding_waived"}

ParamText(params, name) == IF name \in DOMAIN params THEN params[name].text ELSE None

(* CONFIGS, with the source formats that define each. *)
Configs ==
  [c \in {"known-offender-matching-ssc", "known-offender-matching-psc", "account-recovery-ssc",
          "user-managed-pseudonym-xsite-ssc"} |->
     IF c = "known-offender-matching-ssc" THEN {"mso_mdoc", "bbs_cd"} ELSE {"mso_mdoc"}]

PrfIsDefined(source, config, prf) ==
  IF source = "bbs_cd" THEN prf = "hashdh-bls12381g1" /\ source \in Configs[config]
  ELSE prf = "sha-256"

(* verifier_context, required of one configuration and allowed in no other.   *)
ContextIsValid(config, context) ==
  IF context = None THEN config # "account-recovery-ssc"
  ELSE config = "account-recovery-ssc" /\ LengthOf[context] \in 1..64

PseudonymRule(source, params) ==
  LET config == ParamText(params, "config")
      prf == ParamText(params, "prf")
      context == ParamText(params, "verifier_context")
  IN IF config = None THEN "pseudonym_config_missing"
     ELSE IF config \notin DOMAIN Configs THEN "pseudonym_config_unknown"
     ELSE IF "ver" \notin DOMAIN params THEN "pseudonym_ver_missing"
     ELSE IF params["ver"].n # 1 THEN "pseudonym_ver_unsupported"
     ELSE IF prf = None THEN "pseudonym_prf_missing"
     ELSE IF ~ PrfIsDefined(source, config, prf) THEN "pseudonym_prf_unsupported"
     ELSE IF ~ ContextIsValid(config, context) THEN "verifier_context_invalid"
     ELSE None

(* Mutant: the span without its last day. *)
AgeRuleExclusive(params) ==
  LET ge == ParamText(params, "ge")
      le == ParamText(params, "le")
  IN IF ge = None /\ le = None THEN "age_check_no_bound"
     ELSE IF ge = None \/ le = None THEN None
     ELSE LET days == DaysFromCivil(DateOf[le]) - DaysFromCivil(DateOf[ge])
          IN IF days < 0 THEN "age_check_inverted"
             ELSE IF days < 365 THEN "age_check_span_too_short" ELSE None

AgeRule(params) ==
  LET ge == ParamText(params, "ge")
      le == ParamText(params, "le")
  IN IF ge = None /\ le = None THEN "age_check_no_bound"
     ELSE IF ge = None \/ le = None THEN None
     ELSE LET days == DaysFromCivil(DateOf[le]) - DaysFromCivil(DateOf[ge])
          IN IF days < 0 THEN "age_check_inverted"
             ELSE IF days + 1 < 365 THEN "age_check_span_too_short" ELSE None

(* The body of the loop over the functions. *)
FunctionRule(plan, i) ==
  LET function == plan.functions[i]
      repeated == \E j \in 1..(i - 1) : plan.functions[j].function_id = function.function_id
  IN IF function.function_id \notin DOMAIN Declared THEN "function_unknown"
     ELSE IF function.function_id = "pseudonym"
     THEN IF repeated THEN "pseudonym_repeated"
          ELSE PseudonymRule(plan.source_format, function.params)
     ELSE IF repeated THEN "age_check_repeated" ELSE AgeRule(function.params)

HasItsType(plan) ==
  /\ (plan.meta_schema_id # None) = (plan.source_format = "bbs_cd")
  /\ (plan.meta_doctype # None) = (plan.source_format = "mso_mdoc")
  /\ plan.raw.meta.vct_values = None

Unsatisfiable(plan) ==
  IF plan.source_format \notin {"mso_mdoc", "bbs_cd"} THEN "source_format_unsupported"
  ELSE IF ~ HasItsType(plan) THEN "meta_type_value_invalid"
  ELSE IF plan.raw.binding = Flag(FALSE) THEN "holder_binding_waived"
  ELSE LET broken == {i \in DOMAIN plan.functions : FunctionRule(plan, i) # None}
       IN IF broken = {} THEN None ELSE FunctionRule(plan, FirstIndex(broken))
=============================================================================
