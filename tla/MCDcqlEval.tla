----------------------------- MODULE MCDcqlEval -----------------------------
(***************************************************************************)
(* Small instances of DcqlEval: requests of up to three queries over two   *)
(* formats and wallets of up to five credentials, under the ExactFormat    *)
(* policy of eval.rs.                                                      *)
(***************************************************************************)
EXTENDS DcqlProperties

(* Policy ExactFormat (eval.rs). *)
ExactFormat(query, credential) == query.format = credential.format

MCQueryId == {"pid", "mdl", "age", "zz"}
MCCredentialId == {"c1", "c2", "c3", "c4", "c5"}
MCFormat == {"mdoc", "sdjwt"}
MCPurpose == {"travel", "checkout"}
MCPath == {"name", "birth"}
MCValue == {"ann", "bob"}
MCClaimId == {"n", "b"}

Query(id, format, multiple) ==
  [id |-> id, format |-> format, multiple |-> multiple, require_binding |-> TRUE,
   claims |-> << >>, claim_sets |-> None]

Set(options, required, purpose) ==
  [options |-> options, required |-> required, purpose |-> purpose]

Has(all) == [path \in MCPath |-> all]

(* A wallet of m mdocs and then n sd-jwts, all bound. *)
Wallet(m, n) ==
  [i \in 1..(m + n) |->
     [id |-> << "c1", "c2", "c3", "c4", "c5" >>[i],
      format |-> IF i <= m THEN "mdoc" ELSE "sdjwt",
      bound |-> TRUE, content |-> Has({"ann"})]]

SetWallets == {Wallet(m, n) : m \in 0..3, n \in 0..2}

-----------------------------------------------------------------------------
(* Queries of every shape under every arrangement of credential sets. *)

ThreeQueries(ids) ==
  {<< Query(ids[1], "mdoc", m), Query(ids[2], "sdjwt", n), Query(ids[3], "mdoc", k) >> :
     m \in BOOLEAN, n \in BOOLEAN, k \in BOOLEAN}

Distinct == << "pid", "mdl", "age" >>

Arrangements ==
  { << Set(<< <<"pid", "mdl">> >>, TRUE, None) >>,
    << Set(<< <<"pid">>, <<"mdl", "age">>, <<"zz">> >>, TRUE, "travel") >>,
    << Set(<< <<"pid">> >>, FALSE, "travel") >>,
    << Set(<< <<"pid">>, <<"mdl">> >>, TRUE, "travel"),
       Set(<< <<"age">> >>, FALSE, None),
       Set(<< <<"mdl">>, <<"age">> >>, TRUE, "checkout") >>,
    << Set(<< <<"age">> >>, TRUE, None), Set(<< <<"pid", "mdl">> >>, TRUE, "checkout") >>,
    << Set(<< <<"mdl">> >>, FALSE, None), Set(<< <<"pid">> >>, TRUE, "travel") >>,
    << Set(<< << >>, <<"pid">> >>, TRUE, None) >>,
    << >> }

SetRequests ==
  {[credentials |-> qs, credential_sets |-> sets] :
     qs \in ThreeQueries(Distinct), sets \in Arrangements \cup {None}}
  \cup {[credentials |-> SubSeq(qs, 1, n), credential_sets |-> None] :
          qs \in ThreeQueries(Distinct), n \in 0..2}

(* What the DC API path hands over, where ids are not validated. *)
AmbiguousRequests ==
  {[credentials |-> << Query("pid", f, FALSE), Query("pid", h, FALSE), Query("mdl", "mdoc", FALSE) >>,
    credential_sets |-> sets] :
     f \in MCFormat, h \in MCFormat,
     sets \in {None, << Set(<< <<"pid">> >>, TRUE, None) >>,
               << Set(<< <<"mdl">> >>, TRUE, None), Set(<< <<"pid">> >>, TRUE, None) >>}}

MixedRequests == SetRequests \cup AmbiguousRequests

-----------------------------------------------------------------------------
(* Claims, claim sets and holder binding. *)

ClaimQuery(id, path, values) == [id |-> id, path |-> path, values |-> values]

ClaimLists ==
  { << >>,
    << ClaimQuery("n", "name", {"ann"}) >>,
    << ClaimQuery(None, "name", MCValue), ClaimQuery("b", "birth", MCValue) >>,
    << ClaimQuery("n", "name", {"ann"}), ClaimQuery("b", "birth", MCValue) >> }

ClaimSets == { None, << >>, << <<"n", "b">>, <<"b">> >>, << <<"b">>, <<"n">> >>, << << >> >> }

ClaimRequests ==
  {[credentials |-> << [id |-> "pid", format |-> "mdoc", multiple |-> m, require_binding |-> r,
                        claims |-> cs, claim_sets |-> ss] >>,
    credential_sets |-> None] :
     m \in BOOLEAN, r \in BOOLEAN, cs \in ClaimLists, ss \in ClaimSets}

Contents == {[name |-> x, birth |-> y] : x \in {{}, {"ann"}, MCValue}, y \in {{}, {"bob"}}}

ClaimWallets ==
  {<< [id |-> "c1", format |-> "mdoc", bound |-> r, content |-> x],
      [id |-> "c2", format |-> "mdoc", bound |-> TRUE, content |-> y] >> :
     r \in BOOLEAN, x \in Contents, y \in {Has({}), Has({"ann"}), Has(MCValue)}}

-----------------------------------------------------------------------------
MCRequests == MixedRequests \cup ClaimRequests
MCWallets == SetWallets \cup ClaimWallets
=============================================================================
