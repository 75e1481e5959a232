------------------------- MODULE MCRequestDispatch -------------------------
(***************************************************************************)
(* Requests of up to two entries, in every shape under every label.        *)
(***************************************************************************)
EXTENDS DispatchProperties

MCId == {"pid", "mdl"}
MCProtocol == {"openid4vp-v1-unsigned", "openid4vp-v1-signed", "openid4vp-v1-multisigned",
               "org-iso-mdoc", "other"}

MCProfile == [p \in MCProtocol |-> CASE p = "other" -> None
                                     [] p = "org-iso-mdoc" -> "IsoMdocApi"
                                     [] OTHER -> "Openid4vpV1"]

Cred(id, zkp, claims, parses) ==
  [id |-> id, empty |-> FALSE, zkp |-> zkp, claims |-> claims, parses |-> parses]

Raw(credentials) == [credentials |-> credentials, rest |-> TRUE]

Ordinary   == Raw(<< Cred("pid", FALSE, <<"pid", None, None>>, "as_sent") >>)
Doubled    == Raw(<< Cred("pid", FALSE, <<"pid", "pid">>, "as_sent") >>)
Example    == Raw(<< Cred("pid", FALSE, <<"pid">>, "as_sent"), Cred("mdl", TRUE, <<"pid">>, "without_claims") >>)
Unplanned  == Raw(<< Cred("mdl", TRUE, << >>, "never") >>)
Broken     == Raw(<< Cred("pid", FALSE, << >>, "never"), Cred("mdl", TRUE, << >>, "as_sent") >>)
Unlisted   == [credentials |-> None, rest |-> TRUE]

RawQueries == {Ordinary, Doubled, Example, Unplanned, Broken, Unlisted}

T(kind, dcql) == [kind |-> kind, dcql_query |-> dcql]
Plain == T("json", None)
Unusable == {T("empty", None), T("not_base64url", None), T("not_json", None), Plain}

JwsString(segments) == [is |-> "string", segments |-> segments]
JwsObject(text) == [is |-> "object", payload |-> text]
D(dcql, request, payload) == [dcql_query |-> dcql, request |-> request, payload |-> payload]

SignedData ==
  {D(None, JwsString(<< Plain, text, T("empty", None) >>), None) :
     text \in Unusable \cup {T("json", raw) : raw \in RawQueries}}
  \cup {D(None, JwsString(segments), None) :
          segments \in { << T("json", Ordinary) >>,
                         << T("empty", None), T("json", Ordinary), Plain >>,
                         << Plain, T("json", Ordinary), Plain, Plain >> }}
  \cup {D(None, JwsObject(text), None) : text \in {None, T("json", Ordinary), T("not_json", None)}}
  \cup {D(None, None, T("json", Example)), D(None, [is |-> "other"], T("json", Ordinary))}

InlineData ==
  {D(raw, None, None) : raw \in RawQueries}
  \cup {D(Ordinary, JwsString(<< Plain, T("json", Doubled), Plain >>), None),
        D(Ordinary, None, T("json", Doubled)), D(Ordinary, JwsObject(T("json", Doubled)), None),
        D(None, None, None)}

Offers == {[protocol |-> p, data |-> d] : p \in {None} \cup MCProtocol, d \in {None} \cup SignedData \cup InlineData}

Seconds ==
  {[protocol |-> p, data |-> d] :
     p \in MCProtocol \ {"org-iso-mdoc"},
     d \in {D(Ordinary, None, None), D(Unplanned, None, None), D(None, None, T("json", Ordinary)),
            D(None, JwsString(<< Plain, T("json", Doubled), Plain >>), None)}}

MCRequests ==
  {None, NotJson, << >>} \cup {<< a >> : a \in Offers} \cup {<< a, b >> : a \in Offers, b \in Seconds}

Envelopes ==
  [caller : {"picker", "app"}, readable : {TRUE}, requests : MCRequests, query : {NotJson},
   metadata : {TRUE}, profile : {MCProfile}, accept : {"any"}]
  \cup [caller : {"picker"}, readable : BOOLEAN, requests : MCRequests, query : {NotJson},
        metadata : {TRUE}, profile : {MCProfile}, accept : {"typed", "signed"}]

Creds ==
  {[id |-> id, empty |-> empty, zkp |-> zkp, claims |-> claims, parses |-> parses] :
     id \in MCId, empty \in {FALSE}, zkp \in BOOLEAN,
     claims \in {<< >>, << None, None >>, << "pid", "mdl", "pid" >>},
     parses \in {"as_sent", "without_claims", "never"}}
  \cup {[Cred("pid", FALSE, << >>, "as_sent") EXCEPT !.empty = TRUE]}

BareQueries ==
  {Unlisted, [Ordinary EXCEPT !.rest = FALSE], [Example EXCEPT !.rest = FALSE], Raw(<< >>)}
  \cup {Raw(<< a, b >>) : a \in Creds, b \in Creds}
  \cup {Raw(<< Cred("pid", FALSE, << >>, "as_sent"), a, Cred("pid", z, << >>, "as_sent") >>) :
          a \in Creds, z \in BOOLEAN}

Bare ==
  [caller : {"bare"}, readable : BOOLEAN, requests : {None}, query : {NotJson} \cup BareQueries,
   metadata : BOOLEAN, profile : {MCProfile}, accept : {"any"}]

MCInputs == Envelopes \cup Bare
=============================================================================
