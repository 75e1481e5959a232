-------------------------- MODULE PolicyProperties --------------------------
(***************************************************************************)
(* What the match profile promises: an entry is offered only if the wallet *)
(* can deliver it, to the verifier's order of preference, and a credential *)
(* whose secrets are not to leave the device does not give them away.      *)
(***************************************************************************)
EXTENDS ProfilePolicy

RangeOf(seq) == {seq[i] : i \in DOMAIN seq}

-----------------------------------------------------------------------------
(* What the verifier insists on, read off the request and not off the code:   *)
(* what its format demands, and what it marked as required.                   *)
Demanded ==
  RangeOf(FormatRequires) \cup
    {Requirement(t.capability, t.when_meta_present) : t \in
       {t \in RangeOf(profile.meta_triggers) :
          /\ t.when_meta_present \in DOMAIN query.meta
          /\ t.required_flag # None =>
               /\ t.required_flag \in DOMAIN query.meta
               /\ query.meta[t.required_flag] = Flag(TRUE)}}

(* A circuit agrees with an entry unless they differ on a parameter both name.*)
Agrees(held, entry) ==
  /\ Is(entry, "object") /\ {"system"} \subseteq DOMAIN entry.members
  /\ entry.members["system"] = Str(held.system)
  /\ \A key \in DOMAIN entry.members \ {"id", "system"} :
       key \in DOMAIN held.params => AsText(entry.members[key]) = held.params[key]

(* An entry is offered only if the wallet holds, for everything the verifier  *)
(* insists on, a capability that agrees with one of the verifier's entries:   *)
(* otherwise the user consents to what the wallet then cannot produce.        *)
OfferedMeansAble ==
  matches =>
    \A demand \in Demanded :
      \E held \in RangeOf(Held(demand.capability)), entry \in RangeOf(Requested(demand)) :
        Agrees(held, entry)

(* The system reported is of the first entry, in the verifier's order, that   *)
(* the wallet can satisfy at all.                                             *)
VerifiersPreference ==
  resolved # None =>
    \A n \in DOMAIN resolved.capabilities :
      LET requirement == ApplicableCapabilities[n]
          asked == Requested(requirement)
      IN \E e \in DOMAIN asked :
           /\ Agrees(resolved.capabilities[n], asked[e])
           /\ \A earlier \in 1..(e - 1), held \in RangeOf(Held(requirement.capability)) :
                ~ Agrees(held, asked[earlier])

-----------------------------------------------------------------------------
(* What a match discloses: the stored claims its pointers name, and without   *)
(* claims the whole attestation; a `zkp_req` match discloses none.            *)
Disclosed ==
  IF resolved.zkp_req # None THEN {}
  ELSE IF resolved.claims = << >> THEN RangeOf(stored.claims)
  ELSE {c \in RangeOf(stored.claims) : c.path \in
          {[k \in DOMAIN keys |-> keys[k].text] : keys \in RangeOf(resolved.claims)}}

(* No match ever discloses a secret of a nym_auth attestation, in any format, *)
(* by name, by wildcard or by asking for the whole attestation.               *)
NymSecretsStay ==
  resolved # None /\ IsNymAuth => \A c \in Disclosed : RangeOf(c.path) \cap Undisclosable = {}

DescriptionOf(capability) == JsonOf[Param(capability, "capabilities")]

(* The type of attestation a circuit says it proves over, None if it does not *)
(* say.                                                                       *)
CircuitType(capability) ==
  IF Param(capability, "capabilities") # None THEN DescriptionOf(capability).credential.type.text
  ELSE Param(capability, "credential_type")

(* The typed query and the raw one of its id are two readings of one text:    *)
(* what ids that are not doubled guarantee.                                   *)
ReadFromOneText ==
  \A i \in DOMAIN input.raw :
    IsText(input.raw[i].id, query.id) /\ Is(input.raw[i].meta, "object") =>
      LET doctype == input.raw[i].meta.doctype_value
      IN doctype # None => "doctype_value" \in DOMAIN query.meta /\ query.meta["doctype_value"] = doctype

ChecksDoctype ==
  \E rule \in RangeOf(profile.meta_rules) :
    rule.meta_key = "doctype_value" /\ rule.field = "doctype" /\ rule.op = "eq"

(* A `zkp_req` query is answered by a proof or not at all: what is reported   *)
(* is a plan over the format of this credential, no claims, and a circuit the *)
(* wallet holds, the verifier's lists allow, and that is one for the very     *)
(* attestation offered: the circuit is selected by the raw query's `meta`,    *)
(* the attestation by the typed one's, in two places that never meet.         *)
CircuitFitsAttestation ==
  resolved # None /\ query.format = "zkp_req" =>
    /\ resolved.zkp_req # None /\ resolved.claims = << >>
    /\ LET capability == resolved.zkp_req.capability
           plan == resolved.zkp_req.plan
           lists == plan.system_filter
       IN /\ plan.source_format = stored.format
          /\ capability \in RangeOf(Held("zkp_req"))
          /\ lists.proof_systems # None => capability.system \in lists.proof_systems
          /\ lists.system_ids # None => Param(capability, "system_id") \in lists.system_ids
          /\ ReadFromOneText /\ ChecksDoctype /\ stored.format = "mso_mdoc" =>
               CircuitType(capability) \in {None, stored.doctype}

(* A circuit with a description is chosen only if the description, every part *)
(* of which this build understands, covers all that is asked, and asks for    *)
(* nothing the request leaves out.                                            *)
DescribedCircuitProves ==
  resolved # None /\ query.format = "zkp_req" =>
    LET capability == resolved.zkp_req.capability
        asked == RangeOf(resolved.zkp_req.plan.functions)
        declared == RangeOf(DescriptionOf(capability).functions.items)
    IN Param(capability, "capabilities") # None =>
         /\ {f.function_id : f \in asked} \subseteq {d.id.text : d \in declared}
         /\ \A d \in declared : d.always = Flag(TRUE) => \E f \in asked : f.function_id = d.id.text
         /\ \A d \in declared, f \in asked : f.function_id = d.id.text =>
              \A name \in DOMAIN f.params :
                LET constraint == d.params.members[name]
                IN Is(constraint.type, "string") =>
                     constraint.type.text \in {"full-date", "string", "integer"}

-----------------------------------------------------------------------------
(* What comments of the code say, which it does not do. *)

(* "resolve() still reports the system it chose, so a wallet that *can* prove *)
(* still will" (evaluator.rs): a match that required a system reports it.     *)
RequiredSystemIsReported ==
  resolved # None /\ Demanded # {} => resolved.capabilities # << >>

(* "a duplicated `id` is fatal" (query.rs): the plan that answers a query is  *)
(* the plan of that query.                                                    *)
PlanIsOfThisQuery ==
  resolved # None /\ resolved.zkp_req # None /\ "doctype_value" \in DOMAIN query.meta =>
    query.meta["doctype_value"] = Str(resolved.zkp_req.plan.meta_doctype)

(* "Parsing the stored string as JSON first recovers the type the issuer      *)
(* meant" (evaluator.rs): a credential whose claim was issued with a value    *)
(* the verifier lists holds what the verifier asks.  `issued` is what the     *)
(* issuer wrote, of which the blob keeps the text.                            *)
IssuedTypeIsRecovered ==
  phase = "claims" =>
    \A asked \in RangeOf(query.claims), c \in RangeOf(stored.claims) :
      asked.path = [k \in DOMAIN c.path |-> Str(c.path[k])] /\ c.issued \in RangeOf(asked.values)
        => ClaimIsHeld(asked)
=============================================================================
