-------------------------- MODULE RequestDispatch --------------------------
(***************************************************************************)
(* Which entry of a Digital Credentials API request is answered, and with  *)
(* which query (request.rs), by its two callers: the matcher binary        *)
(* (main.rs: run) and the in-process matcher of the wallet (ffi:           *)
(* matching.rs), which also matches a bare DCQL query.                     *)
(*                                                                         *)
(*   phase = "decode" -> "scan" -> "settle" [-> "diagnose"] -> "over"      *)
(*   phase = "decode" -> "strict" [-> "tolerant"] -> "over"   a bare query *)
(*                                                                         *)
(* `scan` is the find_map over the entries, `diagnose` the loop that gives *)
(* each a reason; one entry, or one credential query to validate, a step.  *)
(***************************************************************************)
EXTENDS DcqlReading

CONSTANTS
  Protocol,
  NotJson,   \* a request that is no JSON
  Inputs     \* what a caller passes: see Input

(* A piece of text in a request: a JWS segment or `payload` member.           *)
Text == [kind : {"empty", "not_base64url", "not_json", "json"}, dcql_query : RawQuery \cup {None}]

RequestMember ==
  [is : {"string"}, segments : Seq(Text)] \cup [is : {"object"}, payload : Text \cup {None}]
    \cup [is : {"other"}]

(* `data` by the members that are read; one that is not an object has none.   *)
EntryData == [dcql_query : RawQuery \cup {None}, request : RequestMember \cup {None},
              payload : Text \cup {None}]

Entry == [protocol : Protocol \cup {None}, data : EntryData \cup {None}]

(* `profile`: the parser of each protocol it answers, None for the others.    *)
(* `accept`: the caller's EntryFilter; both callers pass "any".               *)
Input ==
  [caller : {"picker", "app", "bare"}, readable : BOOLEAN,
   requests : {None, NotJson} \cup Seq(Entry),
   query : {NotJson} \cup RawQuery, metadata : BOOLEAN,
   profile : [Protocol -> {"Openid4vpV1", "IsoMdocApi", None}],
   accept : {"any", "typed", "signed"}]

(* RequestContext. *)
Context ==
  [protocol : Protocol, signed : BOOLEAN, dcql_query_raw : RawQuery, typed : BOOLEAN]

ASSUME InputsAreWellFormed == \A given \in Inputs : given \in Input

ASSUME NoneIsAbsent == None \notin Protocol /\ None \notin RawQuery /\ None \notin Context

VARIABLES
  input,
  phase,
  at,        \* the entry, or credential query, considered
  context,   \* the RequestContext found, or None
  query,     \* the query handed to the engine, or None
  parts,     \* the diagnostic, one part per entry
  outcome    \* what the caller makes of it

vars == <<input, phase, at, context, query, parts, outcome>>

Init ==
  /\ input \in Inputs
  /\ phase = "decode" /\ at = 1
  /\ context = None /\ query = None /\ parts = << >>
  /\ outcome = "none"

-----------------------------------------------------------------------------
(* request_object: the object an entry carries, or why it carries none. *)

Carries(dcql_query, signed) == [dcql_query |-> dcql_query, signed |-> signed]
Declined(why) == [why |-> why]
IsDeclined(result) == "why" \in DOMAIN result

(* Mutant: the shape follows from the data instead of the label. *)
ShapeOfData(protocol, data) ==
  IF data.request = None THEN "Inline"
  ELSE IF data.request.is = "string" THEN "CompactJws" ELSE "JwsJson"

ShapeOf(protocol, data) ==
  CASE protocol = "openid4vp-v1-signed" -> "CompactJws"
    [] protocol = "openid4vp-v1-multisigned" -> "JwsJson"
    [] OTHER -> "Inline"

PayloadObject(text) ==
  CASE text.kind = "not_base64url" -> Declined("PayloadNotBase64url")
    [] text.kind \in {"empty", "not_json"} -> Declined("PayloadNotJson")
    [] text.kind = "json" -> IF text.dcql_query = None THEN Declined("PayloadHasNoDcqlQuery")
                             ELSE Carries(text.dcql_query, TRUE)

InlineObject(data) ==
  IF data.dcql_query # None THEN Carries(data.dcql_query, FALSE)
  ELSE IF data.request # None THEN Declined("ShapeDoesNotMatchProtocol")
  ELSE Declined("NoQueryAndNoRequest")

(* Exactly three segments; only the signature may be empty. *)
IsCompactJws(segments) ==
  Len(segments) = 3 /\ segments[1].kind # "empty" /\ segments[2].kind # "empty"

CompactObject(data) ==
  IF data.request = None
  THEN IF data.dcql_query # None THEN Declined("ShapeDoesNotMatchProtocol")
       ELSE Declined("NotACompactJws")
  ELSE IF data.request.is = "string" /\ IsCompactJws(data.request.segments)
       THEN PayloadObject(data.request.segments[2])
       ELSE Declined("NotACompactJws")

(* The payload may be under `request` or at the top level of `data`. *)
JwsJsonObject(data) ==
  IF data.request = None
  THEN IF data.dcql_query # None THEN Declined("ShapeDoesNotMatchProtocol")
       ELSE IF data.payload = None THEN Declined("NoQueryAndNoRequest")
       ELSE PayloadObject(data.payload)
  ELSE CASE data.request.is = "object" ->
              IF data.request.payload = None THEN Declined("JwsObjectHasNoPayload")
              ELSE PayloadObject(data.request.payload)
         [] data.request.is = "string" -> Declined("ShapeDoesNotMatchProtocol")
         [] data.request.is = "other" -> Declined("RequestNotAJwsOrObject")

RequestObject(parser, protocol, data) ==
  IF parser = "IsoMdocApi" THEN Declined("NoParser")
  ELSE LET shape == ShapeOf(protocol, data)
       IN CASE shape = "Inline" -> InlineObject(data)
            [] shape = "CompactJws" -> CompactObject(data)
            [] shape = "JwsJson" -> JwsJsonObject(data)

ExtractContext(parser, protocol, data) ==
  LET object == RequestObject(parser, protocol, data)
  IN IF IsDeclined(object) THEN object
     ELSE IF IsMalformed(object.dcql_query) THEN Declined("Malformed")
     ELSE [protocol |-> protocol, signed |-> object.signed,
           dcql_query_raw |-> object.dcql_query, typed |-> IsTyped(object.dcql_query)]

(* extract_query, which only a typed query satisfies: its reason, or "parsed". *)
ExtractQuery(parser, protocol, data) ==
  LET object == RequestObject(parser, protocol, data)
  IN IF IsDeclined(object) THEN object.why
     ELSE IF IsTyped(object.dcql_query) THEN "parsed" ELSE "Malformed"

Allows(accept, found) ==
  CASE accept = "any" -> TRUE
    [] accept = "typed" -> found.typed
    [] accept = "signed" -> found.signed

-----------------------------------------------------------------------------
HasEntries == input.requests \notin {None, NotJson}

(* protocol? parser_for? data? of one entry: what the profile answers. *)
IsOffered(entry) == entry.protocol # None /\ input.profile[entry.protocol] # None

(* Mutant: an entry only the planner can read is skipped. *)
ReadingOfTyped(entry) ==
  IF ~IsOffered(entry) \/ entry.data = None THEN None
  ELSE LET found == ExtractContext(input.profile[entry.protocol], entry.protocol, entry.data)
       IN IF IsDeclined(found) THEN None
          ELSE IF ~found.typed \/ ~Allows(input.accept, found) THEN None ELSE found

(* What one entry yields: an acceptable context, or None. *)
Reading(entry) ==
  IF ~IsOffered(entry) \/ entry.data = None THEN None
  ELSE LET found == ExtractContext(input.profile[entry.protocol], entry.protocol, entry.data)
       IN IF IsDeclined(found) \/ ~Allows(input.accept, found) THEN None ELSE found

End(result) == phase' = "over" /\ outcome' = result

Decode ==
  /\ phase = "decode"
  /\ IF ~input.readable THEN End("blob")
     ELSE IF input.caller = "bare"
     THEN IF input.query = NotJson \/ ~input.metadata THEN End("request")
          ELSE phase' = "strict" /\ UNCHANGED outcome
     ELSE IF HasEntries THEN phase' = "scan" /\ UNCHANGED outcome
     ELSE IF input.caller = "picker" THEN End("diagnosed")
     ELSE End(IF input.requests = NotJson THEN "request" ELSE "unsupported")
  /\ UNCHANGED <<input, at, context, query, parts>>

(* One turn of first_supported_context_in. *)
Consider ==
  /\ phase = "scan" /\ at \in DOMAIN input.requests
  /\ LET found == Reading(input.requests[at])
     IN IF found # None
        THEN context' = found /\ phase' = "settle" /\ UNCHANGED at
        ELSE at' = at + 1 /\ UNCHANGED <<context, phase>>
  /\ UNCHANGED <<input, query, parts, outcome>>

Exhaust ==
  /\ phase = "scan" /\ at \notin DOMAIN input.requests
  /\ phase' = "settle"
  /\ UNCHANGED <<input, at, context, query, parts, outcome>>

(* Mutant: any protocol the profile names is blamed, read or not. *)
AnySupportedByName == \E i \in DOMAIN input.requests : input.requests[i].protocol # None

AnySupported == \E i \in DOMAIN input.requests : IsOffered(input.requests[i])

(* `.and_then(matching_query)`, and what the two callers do without a query.  *)
Settle ==
  /\ phase = "settle"
  /\ query' = IF context = None THEN None ELSE MatchingQuery(context.dcql_query_raw)
  /\ IF query' # None THEN End("evaluate")
     ELSE IF input.caller = "picker" THEN phase' = "diagnose" /\ outcome' = "diagnosed"
     ELSE IF AnySupported THEN phase' = "diagnose" /\ outcome' = "request"
     ELSE End("unsupported")
  /\ at' = 1
  /\ UNCHANGED <<input, context, parts>>

Reasons ==
  {"not in registered profile", "NoData", "NoParser", "ShapeDoesNotMatchProtocol",
   "NoQueryAndNoRequest", "NotACompactJws", "JwsObjectHasNoPayload", "RequestNotAJwsOrObject",
   "PayloadNotBase64url", "PayloadNotJson", "PayloadHasNoDcqlQuery", "Malformed", "parsed"}

Reason(entry) ==
  IF ~IsOffered(entry) THEN << "not in registered profile" >>
  ELSE IF entry.data = None THEN << "NoData" >>
  ELSE << ExtractQuery(input.profile[entry.protocol], entry.protocol, entry.data) >>

(* One turn of diagnose. *)
Diagnose ==
  /\ phase = "diagnose"
  /\ IF at \in DOMAIN input.requests
     THEN /\ parts' = parts \o Reason(input.requests[at])
          /\ at' = at + 1 /\ UNCHANGED phase
     ELSE phase' = "over" /\ UNCHANGED <<at, parts>>
  /\ UNCHANGED <<input, context, query, outcome>>

-----------------------------------------------------------------------------
(* match_dcql_with_context: the strict reading validates credential query by  *)
(* credential query; only what DCQL cannot represent is read again, and then  *)
(* validated as well.                                                         *)
Strict ==
  /\ phase = "strict"
  /\ IF IsMalformed(input.query) THEN End("request") /\ UNCHANGED <<at, query>>
     ELSE IF IsForThePlanner(input.query)
     THEN /\ query' = MatchingQuery(input.query)
          /\ IF query' = None THEN End("request") ELSE phase' = "tolerant" /\ UNCHANGED outcome
          /\ UNCHANGED at
     ELSE IF at \notin DOMAIN input.query.credentials
     THEN query' = input.query /\ End("evaluate") /\ UNCHANGED at
     ELSE IF CredentialError(input.query, at) # "none" THEN End("request") /\ UNCHANGED <<at, query>>
     ELSE at' = at + 1 /\ UNCHANGED <<phase, outcome, query>>
  /\ UNCHANGED <<input, context, parts>>

Tolerant ==
  /\ phase = "tolerant"
  /\ IF at \notin DOMAIN query.credentials THEN End("evaluate") /\ UNCHANGED at
     ELSE IF CredentialError(query, at) # "none" THEN End("request") /\ UNCHANGED at
     ELSE at' = at + 1 /\ UNCHANGED <<phase, outcome>>
  /\ UNCHANGED <<input, context, query, parts>>

Ended == phase = "over" /\ UNCHANGED vars

Next ==
  \/ Decode \/ Consider \/ Exhaust \/ Settle \/ Diagnose
  \/ Strict \/ Tolerant
  \/ Ended

Spec == Init /\ [][Next]_vars
=============================================================================
