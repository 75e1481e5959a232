--------------------------- MODULE ProfilePolicy ---------------------------
(***************************************************************************)
(* Whether one stored credential may answer one credential query, and with *)
(* what (evaluator.rs, with the rules of the registered MatchProfile,      *)
(* profile.rs).                                                            *)
(*                                                                         *)
(*   phase = "format" -> "transform" -> "require" -> "meta" -> "claims"    *)
(*           -> "report" -> "over"            any of them -> "over", false *)
(*                                                                         *)
(* The loops of capability_for and over the meta rules are a step an item. *)
(* `claims` stands for the engine's own selection of the asked claims,     *)
(* without claim_sets, and `report` for `resolve`.                         *)
(***************************************************************************)
EXTENDS CircuitCapabilities

CONSTANTS
  Shown,         \* a JSON number or boolean -> its text
  Inputs

(* input.query: the typed CredentialQuery, meta a function of its keys.       *)
(* input.raw: dcql_query_raw.credentials; input.metadata: client_metadata.    *)
(* input.profile: the MatchProfile; input.stored: the blob's credential.      *)
ASSUME InputsAreWellFormed ==
  \A input \in Inputs :
    /\ DOMAIN input = {"query", "raw", "metadata", "profile", "stored"}
    /\ DOMAIN input.query = {"id", "format", "meta", "claims"}
    /\ DOMAIN input.stored = {"format", "doctype", "vct", "claims"}
    /\ IsSequence(input.raw) /\ \A i \in DOMAIN input.raw : IsQuery(input.raw[i])
    /\ \A key \in DOMAIN input.query.meta : IsJson(input.query.meta[key])
    /\ IsSequence(input.query.claims)
    /\ \A i \in DOMAIN input.query.claims :
         LET path == input.query.claims[i].path
         IN IsSequence(path) /\ \A k \in DOMAIN path : IsPlain(path[k])
    /\ IsSequence(input.profile.formats)
    /\ \A i \in DOMAIN input.profile.formats : IsSequence(input.profile.formats[i].requires)
    /\ IsSequence(input.profile.meta_triggers) /\ IsSequence(input.profile.meta_rules)
    /\ \A family \in DOMAIN input.profile.capabilities :
         LET held == input.profile.capabilities[family]
         IN IsSequence(held) /\ \A i \in DOMAIN held :
              "capabilities" \in DOMAIN held[i].params => held[i].params["capabilities"] \in DOMAIN JsonOf

ASSUME DescriptionsAreJson ==
  \A text \in DOMAIN JsonOf : Readable(JsonOf[text]) =>
    LET functions == JsonOf[text].functions.items
    IN IsSequence(functions) /\ \A i \in DOMAIN functions : IsPlain(functions[i].id)

VARIABLES
  input,
  phase,
  at,         \* the requirement, or meta rule, considered
  chosen,     \* the capabilities chosen so far
  matches,    \* what Policy::matches and the selection answered
  resolved    \* what resolve reports, or None

vars == <<input, phase, at, chosen, matches, resolved>>

query == input.query
stored == input.stored
profile == input.profile

Init ==
  /\ input \in Inputs
  /\ phase = "format" /\ at = 1 /\ chosen = << >>
  /\ matches = FALSE /\ resolved = None

-----------------------------------------------------------------------------
(* The rules of the profile. *)

HasRule(format) == \E i \in DOMAIN profile.formats : profile.formats[i].query_format = format
FormatRule(format) ==
  profile.formats[FirstIndex({i \in DOMAIN profile.formats : profile.formats[i].query_format = format})]

(* format_matches, as `matches` spells it out. *)
FormatMatches ==
  IF HasRule(query.format) THEN stored.format \in FormatRule(query.format).stored_formats
  ELSE profile.unknown_format = "MatchAny"

Requirement(capability, meta) == [capability |-> capability, from_meta |-> meta]

(* trigger_is_required: only an explicit `true` in the flag the profile names. *)
TriggerIsRequired(trigger) ==
  \/ trigger.required_flag = None
  \/ trigger.required_flag \in DOMAIN query.meta /\ query.meta[trigger.required_flag] = Flag(TRUE)

FormatRequires == IF HasRule(query.format) THEN FormatRule(query.format).requires ELSE << >>

(* The requirements of the format, then those of the triggers that count,     *)
(* each of these once.                                                        *)
WithTriggers(counting) ==
  LET n == Len(FormatRequires)
      triggers == profile.meta_triggers
      asked == FormatRequires \o
        [i \in DOMAIN triggers |-> Requirement(triggers[i].capability, triggers[i].when_meta_present)]
      counted == (1..n) \cup {n + i : i \in counting}
      first == {i \in counted : i <= n \/ \A j \in counted : j < i => asked[j] # asked[i]}
  IN ItemsAt(asked, first)

(* Mutant: only the format demands. *)
RequirementsOfFormat == FormatRequires

Fires(trigger) == trigger.when_meta_present \in DOMAIN query.meta
Insists(trigger) == Fires(trigger) /\ TriggerIsRequired(trigger)

Requirements ==
  WithTriggers({i \in DOMAIN profile.meta_triggers : Insists(profile.meta_triggers[i])})
ApplicableCapabilities ==
  WithTriggers({i \in DOMAIN profile.meta_triggers : Fires(profile.meta_triggers[i])})

AsText(v) ==
  IF Is(v, "string") THEN v.text ELSE IF v \in DOMAIN Shown THEN Shown[v] ELSE None

(* satisfies: parameters constrain a match only where both sides name them.   *)
Satisfies(held, entry) ==
  /\ Is(entry, "object") /\ "system" \in DOMAIN entry.members
  /\ IsText(entry.members["system"], held.system)
  /\ \A key \in (DOMAIN entry.members \cap DOMAIN held.params) \ {"id", "system"} :
       AsText(entry.members[key]) = held.params[key]

Held(family) == IF family \in DOMAIN profile.capabilities THEN profile.capabilities[family] ELSE << >>

Requested(requirement) ==
  IF requirement.from_meta \in DOMAIN query.meta /\ Is(query.meta[requirement.from_meta], "array")
  THEN query.meta[requirement.from_meta].items ELSE << >>

(* Mutant: the wallet's order instead of the verifier's. *)
CapabilityByWallet(requirement) ==
  LET held == Held(requirement.capability)
      asked == Requested(requirement)
      able == {c \in DOMAIN held : \E e \in DOMAIN asked : Satisfies(held[c], asked[e])}
  IN IF able = {} THEN None ELSE held[FirstIndex(able)]

(* The capability for one requirement: the first of the verifier's entries    *)
(* that some capability held satisfies, and the first of those that does.     *)
CapabilityFor(requirement) ==
  LET held == Held(requirement.capability)
      asked == Requested(requirement)
      able == {e \in DOMAIN asked : \E c \in DOMAIN held : Satisfies(held[c], asked[e])}
  IN IF able = {} THEN None
     ELSE held[FirstIndex({c \in DOMAIN held : Satisfies(held[c], asked[FirstIndex(able)])})]

-----------------------------------------------------------------------------
(* zkp_req *)

(* requested_types *)
RequestedTypes(plan) ==
  ({plan.meta_doctype, plan.meta_schema_id} \ {None})
    \cup (IF plan.raw.meta.vct_values = None THEN {} ELSE TextsOf(plan.raw.meta.vct_values))

Param(capability, name) == IF name \in DOMAIN capability.params THEN capability.params[name] ELSE None

(* capabilities_serve: the structured description decides alone. *)
CapabilitiesServe(text, plan) ==
  /\ Readable(JsonOf[text]) /\ HasRule("zkp_req")
  /\ Serves(JsonOf[text], "zkp_req",
            FormatRule("zkp_req").stored_formats \cap {plan.source_format},
            RequestedTypes(plan), plan.functions)

(* Mutant: a circuit's own description is read only for what the list leaves. *)
CircuitServesAnyType(capability, plan) ==
  LET filter == plan.system_filter
  IN /\ filter.proof_systems = None \/ capability.system \in filter.proof_systems
     /\ filter.system_ids = None \/ Param(capability, "system_id") \in filter.system_ids

(* circuit_serves *)
CircuitServes(capability, plan) ==
  LET filter == plan.system_filter
      type == Param(capability, "credential_type")
      functions == Param(capability, "functions")
  IN /\ filter.proof_systems = None \/ capability.system \in filter.proof_systems
     /\ filter.system_ids = None \/ Param(capability, "system_id") \in filter.system_ids
     /\ IF Param(capability, "capabilities") # None
        THEN CapabilitiesServe(capability.params["capabilities"], plan)
        ELSE /\ type = None \/ type \in RequestedTypes(plan)
             /\ functions = None
                  \/ \A i \in DOMAIN plan.functions : plan.functions[i].function_id \in ItemsOf[functions]

(* zkp_req_selection: the raw query is found by its id, the first that has it. *)
ZkpReqSelection ==
  LET found == {i \in DOMAIN input.raw : IsText(input.raw[i].id, query.id)}
      plan == Plan(input.raw[FirstIndex(found)], input.metadata)
      held == Held("zkp_req")
      serving == {c \in DOMAIN held : CircuitServes(held[c], plan)}
  IN IF found = {} THEN None
     ELSE IF IsInvalid(plan) THEN None
     ELSE IF Unsatisfiable(plan) # None \/ serving = {} THEN None
     ELSE [capability |-> held[FirstIndex(serving)], plan |-> plan]

AnswersZkpReq == ZkpReqSelection # None /\ ZkpReqSelection.plan.source_format = stored.format

Undisclosable == {"ssc", "psc", "secret_seed", "birth_date"}
IsNymAuth ==
  {stored.doctype, stored.vct} \cap {"eu.europa.ec.eudi.nym_auth.1", "eu.europa.ec.eudi.nym_auth.bbs.1"} # {}

(* Mutant: a query for the whole attestation names no secret. *)
DisclosesNamedSecrets ==
  \E i \in DOMAIN query.claims : \E k \in DOMAIN query.claims[i].path :
    query.claims[i].path[k] = Null \/ \E key \in Undisclosable : query.claims[i].path[k] = Str(key)

(* discloses_nym_auth_secrets; a path's components are keys, Null or numbers. *)
DisclosesNymAuthSecrets ==
  \/ query.claims = << >>
  \/ \E i \in DOMAIN query.claims : \E k \in DOMAIN query.claims[i].path :
       query.claims[i].path[k] = Null \/ \E key \in Undisclosable : query.claims[i].path[k] = Str(key)

-----------------------------------------------------------------------------
(* meta_matches *)

(* credential_field *)
CredentialField(field) ==
  IF field = "doctype" THEN stored.doctype ELSE IF field = "vct" THEN stored.vct
  ELSE IF field = "format" THEN stored.format ELSE None

(* `prefix` compares texts and is left out: no profile of the sources has it. *)
MetaMatches(rule) ==
  \/ rule.op = "ignore" \/ rule.meta_key \notin DOMAIN query.meta
  \/ /\ rule.field # None /\ CredentialField(rule.field) # None
     /\ LET asked == query.meta[rule.meta_key]  field == CredentialField(rule.field)
        IN \/ rule.op = "eq" /\ IsText(asked, field)
           \/ rule.op = "in" /\ Is(asked, "array") /\ field \in TextsOf(asked)
           \/ rule.op = "exists"

-----------------------------------------------------------------------------
(* BlobCredential::claim: a pointer of keys alone is looked up among the      *)
(* stored paths, any other pointer finds nothing.                             *)
ClaimAt(path) ==
  {c \in DOMAIN stored.claims :
     /\ Len(path) > 0 /\ Len(path) = Len(stored.claims[c].path)
     /\ \A k \in DOMAIN path : path[k] = Str(stored.claims[c].path[k])}

(* claim_value *)
ClaimValue(text) == IF JsonOf[text] # None THEN JsonOf[text] ELSE Str(text)

ClaimIsHeld(claim) ==
  /\ ClaimAt(claim.path) # {}
  /\ claim.values = << >> \/
       \E i \in DOMAIN claim.values :
         claim.values[i] = ClaimValue(stored.claims[FirstIndex(ClaimAt(claim.path))].value)

KeysOf(path) == ItemsAt(path, {k \in DOMAIN path : Is(path[k], "string")})

-----------------------------------------------------------------------------
Refuse == phase' = "over" /\ matches' = FALSE /\ UNCHANGED <<input, at, chosen, resolved>>
Proceed(next) == phase' = next /\ at' = 1 /\ chosen' = << >> /\ UNCHANGED <<input, matches, resolved>>

CheckFormat ==
  /\ phase = "format"
  /\ IF FormatMatches THEN Proceed("transform") ELSE Refuse

CheckTransform ==
  /\ phase = "transform"
  /\ IF IF query.format = "zkp_req" THEN AnswersZkpReq ELSE ~ (IsNymAuth /\ DisclosesNymAuthSecrets)
     THEN Proceed("require") ELSE Refuse

(* The loop of capability_for over the requirements of a match. *)
CheckRequirement ==
  /\ phase = "require" /\ at <= Len(Requirements)
  /\ IF CapabilityFor(Requirements[at]) = None THEN Refuse
     ELSE /\ at' = at + 1 /\ chosen' = Append(chosen, CapabilityFor(Requirements[at]))
          /\ UNCHANGED <<input, phase, matches, resolved>>

RequirementsMet == phase = "require" /\ at > Len(Requirements) /\ Proceed("meta")

CheckMeta ==
  /\ phase = "meta" /\ at <= Len(profile.meta_rules)
  /\ IF MetaMatches(profile.meta_rules[at])
     THEN at' = at + 1 /\ UNCHANGED <<input, phase, chosen, matches, resolved>>
     ELSE Refuse

MetaMet == phase = "meta" /\ at > Len(profile.meta_rules) /\ Proceed("claims")

(* The engine keeps the credential if it holds every claim that is asked. *)
SelectClaims ==
  /\ phase = "claims"
  /\ IF \A i \in DOMAIN query.claims : ClaimIsHeld(query.claims[i])
     THEN phase' = "report" /\ matches' = TRUE /\ UNCHANGED <<input, at, chosen, resolved>>
     ELSE Refuse

ReportedClaims ==
  IF query.format = "zkp_req" /\ ZkpReqSelection # None THEN << >>
  ELSE [i \in DOMAIN query.claims |-> KeysOf(query.claims[i].path)]

(* The loop of capability_for over all that could apply: one requirement that *)
(* is not met loses the others.                                               *)
ReportCapability ==
  /\ phase = "report" /\ resolved = None /\ at <= Len(ApplicableCapabilities)
  /\ LET found == CapabilityFor(ApplicableCapabilities[at])
     IN IF found = None
        THEN at' = Len(ApplicableCapabilities) + 1 /\ chosen' = << >>
        ELSE at' = at + 1 /\ chosen' = Append(chosen, found)
  /\ UNCHANGED <<input, phase, matches, resolved>>

(* resolve.  `meta`: the scalars passed on to the wallet. *)
Resolve ==
  /\ phase = "report" /\ at > Len(ApplicableCapabilities)
  /\ resolved' = [claims |-> ReportedClaims, capabilities |-> chosen,
                  zkp_req |-> IF query.format = "zkp_req" THEN ZkpReqSelection ELSE None,
                  meta |-> {key \in DOMAIN query.meta : AsText(query.meta[key]) # None}]
  /\ phase' = "over" /\ UNCHANGED <<input, at, chosen, matches>>

Done == phase = "over" /\ UNCHANGED vars

Next ==
  \/ CheckFormat \/ CheckTransform \/ CheckRequirement \/ RequirementsMet \/ CheckMeta \/ MetaMet
  \/ SelectClaims \/ ReportCapability \/ Resolve \/ Done

Spec == Init /\ [][Next]_vars
=============================================================================
