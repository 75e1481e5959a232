-------------------------- MODULE MCProfilePolicy --------------------------
(***************************************************************************)
(* One stored credential and one query at a time, in groups: proof         *)
(* systems demanded and preferred, `meta` and format rules, nym_auth       *)
(* attestations asked through their claims, and `zkp_req` requests with    *)
(* the circuits held.                                                      *)
(***************************************************************************)
EXTENDS PolicyProperties, TLC

Nym == "eu.europa.ec.eudi.nym_auth.1"
NymBbs == "eu.europa.ec.eudi.nym_auth.bbs.1"
Pid == "eu.europa.ec.eudi.pid.1"

MCDateOf == [t \in {"2000-01-01", "2000-12-30", "2000-12-31", "2001-02-29", "sha-256"} |->
  CASE t = "2000-01-01" -> <<2000, 1, 1>> [] t = "2000-12-30" -> <<2000, 12, 30>>
    [] t = "2000-12-31" -> <<2000, 12, 31>> [] t = "2001-02-29" -> <<2001, 2, 29>>
    [] OTHER -> None]
MCLengthOf == [t \in {"sha-256"} |-> 7]
MCItemsOf == [t \in {"pseudonym, age_check", "age_check"} |->
  IF t = "age_check" THEN {"age_check"} ELSE {"pseudonym", "age_check"}]
Four == Number(4, TRUE, TRUE)
MCShown == (Four :> "4") @@ (Flag(TRUE) :> "true") @@ (Flag(FALSE) :> "false")

-----------------------------------------------------------------------------
(* Circuit descriptions: what the text of a `capabilities` param says. *)
Enum(items) == [is |-> "object", unknown |-> FALSE, enum |-> Arr(items), type |-> None]
Typed(name) == [is |-> "object", unknown |-> FALSE, enum |-> Null, type |-> Str(name)]
FnOf(id, max, always, params) ==
  [is |-> "object", unknown |-> FALSE, id |-> Str(id), max |-> max, always |-> always, params |-> params]
Pseudonym(always, prf) ==
  FnOf("pseudonym", Number(1, TRUE, TRUE), always,
       Members([name \in {"config", "ver", "prf"} |->
         CASE name = "ver" -> Typed("integer") [] name = "prf" -> prf [] OTHER -> Typed("string")]))
Age(date) == FnOf("age_check", None, None, Members([name \in {"ge", "le"} |-> Typed(date)]))
Description(format, type, functions) ==
  [is |-> "object", unknown |-> FALSE, schema |-> Number(1, TRUE, TRUE), presentation |-> Str("zkp_req"),
   credential |-> [is |-> "object", unknown |-> FALSE, format |-> Str(format), type |-> Str(type),
                   issuance_profile |-> None],
   functions |-> Arr(functions)]

Good == Description("mso_mdoc", Nym, <<Pseudonym(None, Enum(<<Str("sha-256")>>)), Age("full-date")>>)
JsonTexts ==
  [good |-> Good,
   always |-> Description("mso_mdoc", Nym, <<Pseudonym(Flag(TRUE), Typed("string")), Age("string")>>),
   otherType |-> Description("mso_mdoc", Pid, <<Age("full-date")>>),
   otherFormat |-> Description("bbs_cd", Nym, <<Age("full-date")>>),
   unknownKind |-> Description("mso_mdoc", Nym, <<Pseudonym(None, Typed("string")), Age("rfc3339")>>),
   unknownMember |-> [Good EXCEPT !.unknown = TRUE],
   doubled |-> Description("mso_mdoc", Nym, <<Age("full-date"), Age("string")>>),
   emptyEnum |-> Description("mso_mdoc", Nym, <<Pseudonym(None, Enum(<< >>)), Age("full-date")>>)]
ClaimTexts == {"Erika", "true", "4"}
MCJsonOf == [t \in DOMAIN JsonTexts \cup ClaimTexts \cup {"not json"} |->
  CASE t \in DOMAIN JsonTexts -> JsonTexts[t] [] t = "true" -> Flag(TRUE) [] t = "4" -> Four
    [] OTHER -> None]

-----------------------------------------------------------------------------
(* Credentials, queries and profiles. *)
Claim(path, issued) ==
  [path |-> path, issued |-> issued,
   value |-> IF Is(issued, "string") THEN issued.text ELSE Shown[issued]]
Cred(format, doctype, vct) ==
  [format |-> format, doctype |-> doctype, vct |-> vct,
   claims |-> <<Claim(<<"ns", "family_name">>, Str("Erika")), Claim(<<"ns", "age_over_18">>, Flag(TRUE)),
                Claim(<<"ns", "ssc">>, Four), Claim(<<"ns", "birth_date">>, Str("Erika"))>>]

Ask(keys, values) == [path |-> [k \in DOMAIN keys |-> Str(keys[k])], values |-> values]
MetaOf(keys, V(_)) == [key \in keys |-> V(key)]

Rule(format, formats, requires) == [query_format |-> format, stored_formats |-> formats, requires |-> requires]
Profile(formats, triggers, capabilities, unknown) ==
  [formats |-> formats, meta_triggers |-> triggers, capabilities |-> capabilities, unknown_format |-> unknown,
   meta_rules |-> <<[meta_key |-> "doctype_value", field |-> "doctype", op |-> "eq"],
                    [meta_key |-> "vct_values", field |-> "vct", op |-> "in"],
                    [meta_key |-> "ppid_context", field |-> None, op |-> "ignore"],
                    [meta_key |-> "issuer", field |-> "issuer", op |-> "exists"]>>]
Formats(zkp) ==
  <<Rule("mso_mdoc", {"mso_mdoc"}, << >>), Rule("dc+sd-jwt", {"dc+sd-jwt"}, << >>),
    Rule("mso_mdoc_zk", {"mso_mdoc"}, <<Requirement("zk_system", "zk_system_type")>>),
    Rule("zkp_req", zkp, << >>)>>
Trigger(meta, capability, flag) ==
  [when_meta_present |-> meta, capability |-> capability, required_flag |-> flag]

Input(q, raw, metadata, prof, cred) ==
  [query |-> q, raw |-> raw, metadata |-> metadata, profile |-> prof, stored |-> cred]
Query(format, meta, claims) == [id |-> "q", format |-> format, meta |-> meta, claims |-> claims]

(* Proof systems. *)
Cap(system, params) == [system |-> system, params |-> params]
NoParams == << >>
Four4 == [p \in {"num_attributes"} |-> "4"]
SystemEntry(system, attributes) ==
  Members([k \in {"id", "system"} \cup (IF attributes = None THEN {} ELSE {"num_attributes"}) |->
    CASE k = "id" -> Str("x") [] k = "system" -> Str(system) [] OTHER -> attributes])
EntryLists ==
  {Arr(<< >>), Str("longfellow"), Arr(<<Str("longfellow")>>), Arr(<<Members(NoParams)>>)}
  \cup {Arr(<<SystemEntry(s, a), SystemEntry(t, b)>>) :
          s, t \in {"longfellow", "ligero"}, a, b \in {None, Four, Null}}
ZkFlags == {None, Flag(TRUE), Flag(FALSE), Str("true")}
HeldLists ==
  {<< >>, <<Cap("longfellow", NoParams)>>, <<Cap("ligero", Four4), Cap("longfellow", Four4)>>,
   <<Cap("longfellow", Four4), Cap("longfellow", NoParams)>>}
ZkMeta(list, flag, kb) ==
  [k \in {"zk_system_type"} \cup (IF flag = None THEN {} ELSE {"zk_required"})
         \cup (IF kb THEN {"kb_system"} ELSE {}) |->
     CASE k = "zk_system_type" -> list [] k = "zk_required" -> flag
       [] OTHER -> Arr(<<SystemEntry("tee", None)>>)]
SystemInputs(cred) ==
  {Input(Query(format, ZkMeta(list, flag, kb), << >>), << >>, None,
         Profile(Formats({"mso_mdoc"}),
                 <<Trigger("zk_system_type", "zk_system", zkFlag), Trigger("kb_system", "kb", "kb_required")>>,
                 [family \in {"zk_system"} |-> held], "reject"),
         cred) :
     format \in {"mso_mdoc", "mso_mdoc_zk"}, list \in EntryLists, flag \in ZkFlags, kb \in BOOLEAN,
     zkFlag \in {None, "zk_required"}, held \in HeldLists}
  \cup {Input(Query("mso_mdoc_zk", NoParams, << >>), << >>, None,
              Profile(Formats({"mso_mdoc"}), << >>, NoParams, "reject"), cred)}

(* Formats and `meta`. *)
MetaValues ==
  {NoParams} \cup [{"doctype_value"} -> {Str(Pid), Str(Nym), Four}]
  \cup [{"vct_values"} -> {Str(Pid), Arr(<<Four, Str(Pid)>>), Arr(<< >>)}]
  \cup [{"ppid_context"} -> {Str("ctx"), Null}] \cup [{"issuer"} -> {Str("x")}]
MetaInputs(creds) ==
  {Input(Query(format, meta, claims), << >>, None,
         Profile(Formats({"mso_mdoc"}), << >>, NoParams, unknown), cred) :
     format \in {"mso_mdoc", "dc+sd-jwt", "jwt_vc"}, meta \in MetaValues, unknown \in {"reject", "MatchAny"},
     claims \in {<< >>, <<Ask(<<"ns", "age_over_18">>, <<Str("true"), Flag(TRUE)>>)>>,
                 <<Ask(<<"ns", "age_over_18">>, <<Str("true")>>)>>, <<Ask(<<"ns", "sex">>, << >>)>>},
     cred \in creds}

(* nym_auth attestations asked through claims. *)
NymPaths == {<<Str("ns"), Str("family_name")>>, <<Str("ns"), Str("ssc")>>, <<Str("ns"), Str("birth_date")>>,
             <<Str("ns"), Null>>, <<Str("ns"), Four>>, << >>}
NymInputs(creds) ==
  {Input(Query(format, NoParams, claims), << >>, None,
         Profile(Formats({"mso_mdoc"}), << >>, NoParams, "reject"), cred) :
     format \in {"mso_mdoc", "dc+sd-jwt"},
     claims \in {<< >>} \cup {<<[path |-> p, values |-> << >>]>> : p \in NymPaths}
                \cup {<<[path |-> p, values |-> << >>], [path |-> r, values |-> << >>]>> : p, r \in NymPaths},
     cred \in creds}

(* zkp_req *)
Meta(source, doctype, schema) ==
  [is |-> "object", source_format |-> Str(source), doctype_value |-> doctype, schema_id_value |-> schema,
   vct_values |-> None]
Item(fn, handle, params) == [fn_id |-> Str(fn), return |-> Str(handle), params |-> params]
Nymity(prf) ==
  Item("pseudonym", "nym", Members([name \in {"config", "ver", "prf"} |->
    CASE name = "config" -> Str("known-offender-matching-ssc") [] name = "ver" -> Number(1, TRUE, TRUE)
      [] OTHER -> Str(prf)]))
AgeItem(le) ==
  Item("age_check", "age", Members([name \in {"ge", "le"} |-> IF name = "ge" THEN Str("2000-01-01") ELSE Str(le)]))
Raw(meta, items) ==
  [is |-> "object", id |-> Str("q"), members |-> {}, meta |-> meta, req |-> Arr(items), binding |-> None,
   multiple |-> None]
Metas == {Meta("mso_mdoc", Str(Nym), None), Meta("mso_mdoc", Str(Pid), None), Meta("bbs_cd", None, Str(NymBbs)),
          Meta("mso_mdoc", Str(Nym), Str(NymBbs))}
ItemLists == {<<AgeItem("2000-12-31")>>, <<AgeItem("2000-12-30")>>, <<AgeItem("2001-02-29")>>,
              <<Nymity("sha-256"), AgeItem("2000-12-31")>>, <<Nymity("sha-256")>>, << >>}
Circuits ==
  {Cap("longfellow", NoParams),
   Cap("longfellow", [p \in {"system_id", "credential_type"} |-> IF p = "system_id" THEN "c1" ELSE Nym]),
   Cap("ligero", [p \in {"system_id", "functions"} |-> IF p = "system_id" THEN "c2" ELSE "age_check"])}
  \cup {Cap("longfellow", [p \in {"system_id", "capabilities", "functions"} |->
          CASE p = "system_id" -> "c1" [] p = "functions" -> "age_check" [] OTHER -> text]) :
            text \in DOMAIN JsonTexts \cup {"not json"}}
FewCircuits == {c \in Circuits : DOMAIN c.params \in {{}, {"system_id", "functions"}}}
Lists == {None, Arr(<<Str("longfellow")>>), Arr(<< >>)}
Metadatas ==
  {None, [is |-> "object", zkp_req |-> None], [is |-> "object", zkp_req |-> Four]}
  \cup {[is |-> "object", zkp_req |-> [is |-> "object", proof_system_values |-> systems, system_id_values |-> ids]] :
          systems \in Lists, ids \in {None, Arr(<<Str("c1"), Four>>)}}
TypedMeta(meta) ==
  [k \in {"source_format"} \cup (IF meta.doctype_value = None THEN {} ELSE {"doctype_value"})
         \cup (IF meta.schema_id_value = None THEN {} ELSE {"schema_id_value"}) |-> meta[k]]
ZkpProfile(formats, held) ==
  Profile(Formats(formats), << >>, [family \in {"zkp_req"} |-> held], "reject")
OneAge(meta) == Raw(meta, <<AgeItem("2000-12-31")>>)
Oddities(meta) ==
  {[OneAge(meta) EXCEPT !.members = {"claims"}], [OneAge(meta) EXCEPT !.binding = Flag(FALSE)],
   [OneAge(meta) EXCEPT !.id = Str("other")]}
ZkpInputs(creds) ==
  {Input(Query("zkp_req", TypedMeta(meta), << >>), <<Raw(meta, items)>>, metadata,
         ZkpProfile({"mso_mdoc", "bbs_cd"}, <<first, second>>), cred) :
     meta \in Metas, items \in ItemLists, metadata \in Metadatas, first \in FewCircuits, second \in Circuits,
     cred \in creds}
  \cup UNION {
    {Input(Query("zkp_req", TypedMeta(meta), << >>), <<raw>>, None, ZkpProfile(formats, held), cred) :
       formats \in {{"mso_mdoc"}, {}}, held \in {<< >>, <<Cap("longfellow", NoParams)>>},
       cred \in creds, raw \in Oddities(meta)} : meta \in Metas}

MCInputs ==
  SystemInputs(Cred("mso_mdoc", Pid, None))
  \cup MetaInputs({Cred("mso_mdoc", Pid, None), Cred("dc+sd-jwt", None, Pid), Cred("mso_mdoc", None, None)})
  \cup NymInputs({Cred("mso_mdoc", Nym, None), Cred("dc+sd-jwt", None, NymBbs), Cred("mso_mdoc", Pid, None)})
  \cup ZkpInputs({Cred("mso_mdoc", Nym, None), Cred("mso_mdoc", Pid, None), Cred("bbs_cd", None, NymBbs)})

(* Two queries of one id, of which this is the second. *)
MCDoubledIds ==
  {Input(Query("zkp_req", TypedMeta(Meta("mso_mdoc", Str(Pid), None)), << >>),
         <<Raw(Meta("mso_mdoc", Str(Nym), None), items), Raw(Meta("mso_mdoc", Str(Pid), None), items)>>,
         None, ZkpProfile({"mso_mdoc"}, <<circuit>>), Cred("mso_mdoc", Pid, None)) :
     items \in ItemLists, circuit \in Circuits}

(* A claim the issuer wrote as a text of digits. *)
MCTypedValues ==
  {Input(Query("mso_mdoc", NoParams, <<Ask(<<"ns", "postal_code">>, values)>>), << >>, None,
         Profile(Formats({"mso_mdoc"}), << >>, NoParams, "reject"),
         [Cred("mso_mdoc", Pid, None) EXCEPT !.claims = <<Claim(<<"ns", "postal_code">>, Str("4"))>>]) :
     values \in {<< >>, <<Str("4")>>, <<Four>>}}
=============================================================================
