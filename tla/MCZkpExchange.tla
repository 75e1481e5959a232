--------------------------- MODULE MCZkpExchange ---------------------------
(***************************************************************************)
(* A request over an mdoc and one over a bbs_cd attestation with up to two *)
(* presentations, each pair of alterations of the answer; and many         *)
(* requests answered unaltered, while the clock runs over the end of a     *)
(* February.                                                               *)
(***************************************************************************)
EXTENDS ZkpExchangeProperties, TLC

MCDateOf ==
  [t \in {"sha-256", "hashdh-bls12381g1", "1999-13-01", "2000-01-01", "2000-02-29", "2000-12-29", "2000-12-30",
          "2001-02-27", "2001-02-28", "2001-02-29", "1999-12-31"} |->
     CASE t = "2000-01-01" -> <<2000, 1, 1>> [] t = "2000-02-29" -> <<2000, 2, 29>>
       [] t = "2000-12-29" -> <<2000, 12, 29>> [] t = "2000-12-30" -> <<2000, 12, 30>>
       [] t = "2001-02-27" -> <<2001, 2, 27>> [] t = "2001-02-28" -> <<2001, 2, 28>>
       [] t = "2001-02-29" -> <<2001, 2, 29>> [] t = "1999-12-31" -> <<1999, 12, 31>>
       [] t = "1999-13-01" -> <<1999, 13, 1>> [] OTHER -> None]
MCLengthOf == ("ctx" :> 3) @@ ("long" :> 65)
MCMinInt == -2147483647
Nothing == << >>

Item(fn, handle, params) == [fn_id |-> Str(fn), return |-> Str(handle), params |-> Members(params)]
Dates(ge, le) ==
  [bound \in (IF ge = None THEN {} ELSE {"ge"}) \cup (IF le = None THEN {} ELSE {"le"}) |->
     Str(IF bound = "ge" THEN ge ELSE le)]
Nym(config, prf, context) ==
  [name \in {"config", "ver", "prf"} \cup (IF context = None THEN {} ELSE {"verifier_context"}) |->
     CASE name = "config" -> Str(config) [] name = "ver" -> Number(1, TRUE, TRUE)
       [] name = "prf" -> Str(prf) [] OTHER -> Str(context)]
Offender == Nym("known-offender-matching-ssc", "sha-256", None)

Query(source, items, multiple) ==
  [is |-> "object", id |-> Str("q"), members |-> {}, binding |-> None, multiple |-> multiple, req |-> Arr(items),
   meta |-> [is |-> "object", source_format |-> Str(source), vct_values |-> None,
             doctype_value |-> IF source = "mso_mdoc" THEN Str("nym") ELSE None,
             schema_id_value |-> IF source = "bbs_cd" THEN Str("nym") ELSE None]]
Listing(ids) ==
  [is |-> "object", zkp_req |-> [is |-> "object", proof_system_values |-> None, system_id_values |-> ids]]
Lists == Listing(Arr(<<Str("c1"), Str("c2")>>))

Both == <<Item("pseudonym", "nym", Offender), Item("age_check", "age", Dates("2000-01-01", None))>>
Reversed == <<Both[2], Both[1]>>
OverBbs == <<Item("pseudonym", "nym", Nym("known-offender-matching-ssc", "hashdh-bls12381g1", None))>>

(* Asked, answered and checked within a second, by one clock.                 *)
Asked(query, metadata, faults) ==
  [query |-> query, metadata |-> metadata, faults |-> faults, drift |-> 0, delay |-> 0]

AlteredRequests ==
  {Asked(Query("mso_mdoc", Reversed, Flag(TRUE)), Lists, 2),
   Asked(Query("bbs_cd", OverBbs, Flag(FALSE)), Lists, 2),
   Asked(Query("bbs_cd", OverBbs, None), None, 2)}

-----------------------------------------------------------------------------
Change(within, place, key, item) == [within |-> within, at |-> place, key |-> key, item |-> item]
TokenChanges ==
  {Change("token", 0, Gone, item) : item \in
     {Null, [is |-> "object", members |-> << >>],
      [is |-> "object", members |-> <<<<"q", Arr(<<Null>>)>>, <<"q", Arr(<<Null>>)>>>>],
      [is |-> "object", members |-> <<<<"q", Null>>>>], [is |-> "object", members |-> <<<<"q", Arr(<< >>)>>>>],
      [is |-> "object", members |-> <<<<"q", Arr(<<Undecodable("cbor_trailing_bytes")>>)>>>>]}}
ElementChanges ==
  {Null, Encoded(OtherItem)} \cup
  {Undecodable(code) : code \in ReadFailures}
MemberChanges ==
  {<<Bytes(1), Bool(TRUE)>>, <<Text("circuit_id"), Text("c1")>>}
  \cup {<<Text(name), item>> : name \in MemberNames, item \in {Gone, OtherItem}}
  \cup {<<Text("system_id"), Text("c9")>>, <<Text("system_id"), Text("c2")>>, <<Text("proof"), Bytes(0)>>,
        <<Text("proof_time"), Tag(1, Bytes(4))>>, <<Text("proof_time"), Tag(0, Bytes(20))>>,
        <<Text("proof_time"), Tag(0, Text(NotTheForm))>>,
        <<Text("proof_time"), Tag(0, Text(<<2001, 2, 29, 0, 0, 0>>))>>}
  \cup {<<Text("issuer_key_set"), List(keys)>> : keys \in
          {<< >>, <<Bytes(1), OtherItem>>, <<Bytes(0)>>, <<Bytes(4097)>>,
           [i \in 1..8 |-> Bytes(1)], [i \in 1..9 |-> Bytes(1)]}}
ResultChanges ==
  {<<Bytes(1), Bool(TRUE)>>, <<Text("other"), Bool(TRUE)>>}
  \cup {<<Text(handle), item>> : handle \in {"nym", "age"},
          item \in {Gone, Bool(TRUE), Bool(FALSE), Bytes(31), Bytes(32), Bytes(48), OtherItem}}
MCAlterations ==
  TokenChanges
  \cup {Change("element", p, Gone, item) : p \in 1..2, item \in ElementChanges}
  \cup {Change("members", p, c[1], c[2]) : p \in 1..2, c \in MemberChanges}
  \cup {Change("results", p, c[1], c[2]) : p \in 1..2, c \in ResultChanges}

-----------------------------------------------------------------------------
Ranges == {None, "2000-01-01", "2000-02-29", "2000-12-29", "2000-12-30", "2001-02-27", "2001-02-28", "2001-02-29",
           "1999-12-31", "1999-13-01"}
PlanRequests ==
  {Asked(Query("mso_mdoc", <<Item("age_check", "age", Dates(ge, le))>>, None), Lists, 0) :
     ge, le \in Ranges}
  \cup {Asked(Query(source, items, None), metadata, 0) :
          source \in {"mso_mdoc", "bbs_cd", "dc+sd-jwt"}, metadata \in {None, Lists, Listing(Arr(<< >>))},
          items \in {Both, OverBbs, <<Both[1], Both[2], Item("age_check", "nym", Nothing)>>,
                     <<Both[1], Both[2], Item("pseudonym", "nym2", Offender)>>,
                     <<Item("loyalty", "l", Nothing)>>, << >>}}
  \cup {Asked(Query("mso_mdoc", <<Item("pseudonym", "nym", Nym(config, prf, context))>>, None), Lists, 0) :
          config \in DOMAIN Configs \cup {"other"}, prf \in {"sha-256", "hashdh-bls12381g1"},
          context \in {None, "ctx", "long"}}
  \cup {Asked([Query("mso_mdoc", Both, None) EXCEPT !.members = {"claims"}, !.req = None], None, 0)}

(* From three seconds before midnight of 28 February 2000, by two clocks.     *)
MCStart == 951782397
TimedRequests ==
  {[query |-> Query("mso_mdoc", Both, None), metadata |-> Lists, faults |-> 0, drift |-> drift, delay |-> 6] :
     drift \in {-3, 0, 2, 3}}

MCRequests == AlteredRequests \cup PlanRequests \cup TimedRequests
=============================================================================
