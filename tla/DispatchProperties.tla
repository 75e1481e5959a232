------------------------- MODULE DispatchProperties -------------------------
(***************************************************************************)
(* What the dispatch of a request promises its callers.                    *)
(***************************************************************************)
EXTENDS RequestDispatch

TypeOK ==
  /\ phase \in {"decode", "scan", "settle", "diagnose", "strict", "tolerant", "over"}
  /\ at \in Nat
  /\ context = None \/ context \in Context
  /\ query = None \/ query \in RawQuery
  /\ parts \in Seq(Reasons)
  /\ outcome \in {"none", "blob", "request", "unsupported", "diagnosed", "evaluate"}

-----------------------------------------------------------------------------
(* A reference for where a label lets a query be (request.rs: "The shape must *)
(* match the label"): the texts a signed label lets a payload be read from.   *)

IsSignedLabel(protocol) == protocol \in {"openid4vp-v1-signed", "openid4vp-v1-multisigned"}

PayloadTexts(protocol, data) ==
  CASE protocol = "openid4vp-v1-signed" ->
         {data.request.segments[i] : i \in
            {n \in {2} : /\ data.request # None /\ data.request.is = "string"
                         /\ Len(data.request.segments) = 3
                         /\ data.request.segments[1].kind # "empty"}}
    [] protocol = "openid4vp-v1-multisigned" ->
         IF data.request = None
         THEN {text \in {data.payload} : text # None /\ data.dcql_query = None}
         ELSE IF data.request.is = "object" THEN {data.request.payload} \ {None} ELSE {}

QueriesUnderLabel(protocol, data) ==
  (IF IsSignedLabel(protocol)
   THEN {text.dcql_query : text \in {t \in PayloadTexts(protocol, data) : t.kind = "json"}}
   ELSE {data.dcql_query}) \ {None}

(* The queries an entry of a protocol the profile answers can be read for.    *)
ReadableQueries(entry) ==
  IF ~IsOffered(entry) \/ entry.data = None THEN {}
  ELSE IF input.profile[entry.protocol] # "Openid4vpV1" THEN {}
  ELSE {raw \in QueriesUnderLabel(entry.protocol, entry.data) : ~IsMalformed(raw)}

MayAccept(entry, raw) ==
  CASE input.accept = "any" -> TRUE
    [] input.accept = "typed" -> IsTyped(raw)
    [] input.accept = "signed" -> IsSignedLabel(entry.protocol)

(* The entry answered is the first one the profile answers that can be read   *)
(* under its own label and that the caller accepts, and it is answered for    *)
(* exactly that query; nothing is found only when there is no such entry      *)
(* (first_supported_context_in, "the first supported, readable entry in the   *)
(* request that `accept` allows").                                            *)
FirstReadableWins ==
  phase = "settle" =>
    /\ \A i \in 1..(at - 1) :
         \A raw \in ReadableQueries(input.requests[i]) : ~MayAccept(input.requests[i], raw)
    /\ context = None => at > Len(input.requests)
    /\ context # None =>
         /\ context.protocol = input.requests[at].protocol
         /\ context.dcql_query_raw \in ReadableQueries(input.requests[at])
         /\ MayAccept(input.requests[at], context.dcql_query_raw)

(* A context says it is signed exactly when its label does, and then its      *)
(* query was read out of a payload; under an unsigned label no payload is     *)
(* ever read, so what chose the credentials is never something the wallet     *)
(* would go on to treat as unsigned (request.rs, "a gap between what was      *)
(* consented to and what is checked").                                        *)
LabelSaysHowItArrived ==
  phase = "settle" /\ context # None =>
    LET data == input.requests[at].data
    IN /\ context.signed <=> IsSignedLabel(context.protocol)
       /\ IF context.signed
          THEN \E text \in PayloadTexts(context.protocol, data) :
                 context.dcql_query_raw = text.dcql_query
          ELSE context.dcql_query_raw = data.dcql_query

(* The engine gets every credential query the verifier sent, in order and     *)
(* under its id; one that is not a zkp_req is untouched, and a zkp_req one    *)
(* loses its claims only in a query DCQL cannot represent (matching_query).   *)
NothingAskedIsLost ==
  query # None =>
    LET raw == IF input.caller = "bare" THEN input.query ELSE context.dcql_query_raw
    IN /\ Len(query.credentials) = Len(raw.credentials)
       /\ \A i \in DOMAIN raw.credentials :
            /\ query.credentials[i].id = raw.credentials[i].id
            /\ query.credentials[i] # raw.credentials[i] =>
                 raw.credentials[i].zkp /\ ~IsTyped(raw)

(* A refusal says what was wrong. Its diagnostic has one reason for each      *)
(* entry, in order, so a reader can tell which of the verifier's offers       *)
(* failed and why (diagnose); and the wallet is told "unsupported protocol"   *)
(* only when no offered protocol is one the profile answers, otherwise the    *)
(* request is blamed (matching.rs, "the two have to be told apart").          *)
RefusalIsExplained ==
  input.caller # "bare" /\ phase = "over" /\ HasEntries =>
    /\ outcome \in {"diagnosed", "request"} =>
         /\ Len(parts) = Len(input.requests)
         /\ \A i \in DOMAIN parts :
              parts[i] = "not in registered profile" <=> ~IsOffered(input.requests[i])
    /\ outcome = "unsupported" => \A i \in DOMAIN input.requests : ~IsOffered(input.requests[i])
    /\ input.caller = "app" /\ outcome = "request" =>
         \E i \in DOMAIN input.requests : IsOffered(input.requests[i])

(* Every id names one thing. *)
IsUnambiguous(q) ==
  /\ \A i \in DOMAIN q.credentials :
       ~q.credentials[i].empty /\ ~HasDuplicate(q.credentials[i].claims)
  /\ \A i, j \in DOMAIN q.credentials : q.credentials[i].id = q.credentials[j].id => i = j

(* A bare query reaches the engine exactly when it can be read and no id in   *)
(* it names two things, whichever of the two readings it needs                *)
(* (match_dcql_with_context; QueryError: "rejected only when what the         *)
(* verifier wants cannot be determined").                                     *)
BareQueryIsSound ==
  input.caller = "bare" /\ phase = "over" /\ input.readable
    /\ input.query # NotJson /\ input.metadata =>
    LET usable == ~IsMalformed(input.query) /\ MatchingQuery(input.query) # None
    IN outcome = "evaluate" <=> usable /\ IsUnambiguous(MatchingQuery(input.query))

-----------------------------------------------------------------------------
(* What the documentation says, and the code does not do. *)

(* "With `accept` as `None` this selects exactly what first_supported_request *)
(* does": that one is the scan which accepts typed contexts only.             *)
NoFilterIsFirstSupportedRequest ==
  phase = "settle" /\ input.accept = "any" /\ context # None => context.typed

(* "The first entry wins that the profile answers *and* that yields a query": *)
(* an entry later than the one found is used if that one yields none.         *)
EntryThatYieldsAQueryWins ==
  input.caller = "app" /\ phase = "over" /\ outcome = "request" /\ HasEntries =>
    \A i \in DOMAIN input.requests :
      \A raw \in ReadableQueries(input.requests[i]) : MatchingQuery(raw) = None

(* "Unambiguous because DcqlQuery::validate rejects duplicated claim ids":    *)
(* the claims of a query the engine is given are looked up by ids that are    *)
(* distinct.                                                                  *)
ClaimIdsAreUnambiguous ==
  outcome = "evaluate" =>
    \A i \in DOMAIN query.credentials : ~HasDuplicate(query.credentials[i].claims)
=============================================================================
