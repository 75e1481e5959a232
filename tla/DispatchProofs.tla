--------------------------- MODULE DispatchProofs ---------------------------
(***************************************************************************)
(* What the run of RequestDispatch checks on requests of two entries, for  *)
(* requests, profiles and queries of any size.  The core is ReadingFacts:  *)
(* what the code reads under a label is what the label lets it read; the   *)
(* rest follows the loops.                                                 *)
(***************************************************************************)
EXTENDS DispatchProperties, TLAPS

LEMMA Elements ==
  ASSUME NEW S, NEW s \in Seq(S)
  PROVE  Len(s) \in Nat /\ DOMAIN s = 1..Len(s) /\ \A i \in 1..Len(s) : s[i] \in S
  BY SMT

-----------------------------------------------------------------------------
(* What is read under a label. *)

LEMMA PayloadFacts ==
  ASSUME NEW text \in Text
  PROVE  LET object == PayloadObject(text)
         IN /\ IsDeclined(object) <=> ~(text.kind = "json" /\ text.dcql_query # None)
            /\ ~IsDeclined(object) => object = Carries(text.dcql_query, TRUE)
            /\ text.dcql_query \in {None} \cup RawQuery
  BY SMT DEF PayloadObject, IsDeclined, Declined, Carries, Text

LEMMA CarriesFacts ==
  ASSUME NEW raw, NEW signed
  PROVE  /\ ~IsDeclined(Carries(raw, signed))
         /\ Carries(raw, signed).dcql_query = raw /\ Carries(raw, signed).signed = signed
  BY SMT DEF IsDeclined, Carries

(* The same of a thing by a name. *)
LEMMA CarriedFacts ==
  ASSUME NEW object, NEW raw, NEW signed \in BOOLEAN, object = Carries(raw, signed)
  PROVE  ~IsDeclined(object) /\ object.dcql_query = raw /\ object.signed = signed
  BY Zenon, CarriesFacts

LEMMA DeclinedFacts ==
  ASSUME NEW why
  PROVE  IsDeclined(Declined(why))
  BY SMT DEF IsDeclined, Declined

LEMMA InlineFacts ==
  ASSUME NEW protocol, ~IsSignedLabel(protocol), NEW data \in EntryData
  PROVE  LET object == InlineObject(data)
         IN /\ IsDeclined(object) => QueriesUnderLabel(protocol, data) = {}
            /\ ~IsDeclined(object) =>
                 /\ QueriesUnderLabel(protocol, data) = {object.dcql_query}
                 /\ object.signed = FALSE
                 /\ object.dcql_query = data.dcql_query /\ object.dcql_query \in RawQuery
<1>1. QueriesUnderLabel(protocol, data) = {data.dcql_query} \ {None}
  BY Zenon DEF QueriesUnderLabel
<1>2. data.dcql_query \in RawQuery \cup {None}
  BY SMT DEF EntryData
<1>3. CASE data.dcql_query # None
  <2>1. InlineObject(data) = Carries(data.dcql_query, FALSE)
    BY Zenon, <1>3 DEF InlineObject
  <2>2. InlineObject(data).signed = FALSE /\ ~IsDeclined(InlineObject(data))
        /\ InlineObject(data).dcql_query = data.dcql_query
    BY Zenon, <2>1, CarriedFacts
  <2>3. QueriesUnderLabel(protocol, data) = {data.dcql_query} /\ data.dcql_query \in RawQuery
    BY SMT, <1>1, <1>2, <1>3
  <2> QED
    BY Zenon, <2>2, <2>3
<1>4. CASE data.dcql_query = None
  <2>1. IsDeclined(InlineObject(data))
    BY Zenon, <1>4, DeclinedFacts DEF InlineObject
  <2> QED
    BY SMT, <1>1, <1>4, <2>1
<1> QED
  BY <1>3, <1>4

LEMMA CompactFacts ==
  ASSUME NEW data \in EntryData
  PROVE  LET protocol == "openid4vp-v1-signed"
             object == CompactObject(data)
         IN /\ IsDeclined(object) => QueriesUnderLabel(protocol, data) = {}
            /\ ~IsDeclined(object) =>
                 /\ QueriesUnderLabel(protocol, data) = {object.dcql_query}
                 /\ object.signed = TRUE
                 /\ \E text \in PayloadTexts(protocol, data) : object.dcql_query = text.dcql_query
                 /\ object.dcql_query \in RawQuery
<1> DEFINE protocol == "openid4vp-v1-signed"
           request == data.request
           whole == /\ request # None /\ request.is = "string" /\ Len(request.segments) = 3
                    /\ request.segments[1].kind # "empty"
           text == request.segments[2]
<1>1. PayloadTexts(protocol, data) = IF whole THEN {text} ELSE {}
  BY SMT DEF PayloadTexts
<1>2. QueriesUnderLabel(protocol, data) =
        {t.dcql_query : t \in {u \in PayloadTexts(protocol, data) : u.kind = "json"}} \ {None}
  BY Zenon DEF QueriesUnderLabel, IsSignedLabel
<1>3. request \in RequestMember \cup {None}
  BY SMT DEF EntryData
<1>4. CASE whole
  <2>1. text \in Text
    <3>1. request.segments \in Seq(Text)
      BY SMT, <1>3, <1>4 DEF RequestMember
    <3> QED
      BY SMT, <3>1, <1>4, Elements
  <2>2. CompactObject(data) = IF text.kind # "empty" THEN PayloadObject(text)
                              ELSE Declined("NotACompactJws")
    BY Zenon, <1>4 DEF CompactObject, IsCompactJws
  <2>3. CASE text.kind = "json" /\ text.dcql_query # None
    <3>1. CompactObject(data) = Carries(text.dcql_query, TRUE)
      BY Zenon, <2>1, <2>2, <2>3, PayloadFacts
    <3>2. text.dcql_query \in RawQuery
      BY Zenon, <2>1, <2>3, PayloadFacts
    <3>3. CompactObject(data).signed = TRUE /\ ~IsDeclined(CompactObject(data))
          /\ CompactObject(data).dcql_query = text.dcql_query
      <4> DEFINE raw == text.dcql_query
                 object == CompactObject(data)
      <4>1. object = Carries(raw, TRUE)
        BY <3>1
      <4> HIDE DEF raw, object
      <4>2. ~IsDeclined(object) /\ object.dcql_query = raw /\ object.signed = TRUE
        BY Zenon, <4>1, CarriedFacts
      <4> QED
        BY <4>2 DEF raw, object
    <3>4. PayloadTexts(protocol, data) = {text}
      BY Zenon, <1>1, <1>4
    <3>5. QueriesUnderLabel(protocol, data) = {text.dcql_query}
      <4> HIDE DEF text
      <4> QED
        BY SMT, <1>2, <2>3, <3>4
    <3> QED
      BY Zenon, <3>2, <3>3, <3>4, <3>5
  <2>4. CASE ~(text.kind = "json" /\ text.dcql_query # None)
    <3>1. IsDeclined(CompactObject(data))
      BY Zenon, <2>1, <2>2, <2>4, PayloadFacts, DeclinedFacts
    <3> HIDE DEF whole, text
    <3> QED
      BY SMT, <1>1, <1>2, <1>4, <2>4, <3>1
  <2> QED
    BY <2>3, <2>4
<1>5. CASE ~whole
  <2>1. IsDeclined(CompactObject(data))
    BY Zenon, <1>5, DeclinedFacts DEF CompactObject, IsCompactJws
  <2> HIDE DEF whole
  <2> QED
    BY SMT, <1>1, <1>2, <1>5, <2>1
<1> QED
  BY <1>4, <1>5

LEMMA JwsJsonFacts ==
  ASSUME NEW data \in EntryData
  PROVE  LET protocol == "openid4vp-v1-multisigned"
             object == JwsJsonObject(data)
         IN /\ IsDeclined(object) => QueriesUnderLabel(protocol, data) = {}
            /\ ~IsDeclined(object) =>
                 /\ QueriesUnderLabel(protocol, data) = {object.dcql_query}
                 /\ object.signed = TRUE
                 /\ \E text \in PayloadTexts(protocol, data) : object.dcql_query = text.dcql_query
                 /\ object.dcql_query \in RawQuery
<1> DEFINE protocol == "openid4vp-v1-multisigned"
           texts == PayloadTexts(protocol, data)
           object == JwsJsonObject(data)
<1>1. QueriesUnderLabel(protocol, data) =
        {t.dcql_query : t \in {u \in texts : u.kind = "json"}} \ {None}
  BY Zenon DEF QueriesUnderLabel, IsSignedLabel
<1>2. texts = IF data.request = None
              THEN {text \in {data.payload} : text # None /\ data.dcql_query = None}
              ELSE IF data.request.is = "object" THEN {data.request.payload} \ {None} ELSE {}
  BY SMT DEF PayloadTexts
<1>3. data.request \in RequestMember \cup {None} /\ data.payload \in Text \cup {None}
  BY SMT DEF EntryData
<1>4. (texts = {} /\ IsDeclined(object))
      \/ \E text \in Text : texts = {text} /\ object = PayloadObject(text)
  <2>1. CASE data.request = None
    <3>1. CASE data.dcql_query # None
      BY SMT, <1>2, <2>1, <3>1, DeclinedFacts DEF JwsJsonObject
    <3>2. CASE data.dcql_query = None /\ data.payload = None
      BY SMT, <1>2, <2>1, <3>2, DeclinedFacts DEF JwsJsonObject
    <3>3. CASE data.dcql_query = None /\ data.payload # None
      <4>1. texts = {data.payload} /\ data.payload \in Text
        BY SMT, <1>2, <1>3, <2>1, <3>3
      <4>2. object = PayloadObject(data.payload)
        BY Zenon, <2>1, <3>3 DEF JwsJsonObject
      <4> QED
        BY Zenon, <4>1, <4>2
    <3> QED
      BY <3>1, <3>2, <3>3
  <2>2. CASE data.request # None
    <3>1. data.request.is \in {"string", "object", "other"}
          /\ (data.request.is = "object" => data.request.payload \in Text \cup {None})
      BY SMT, <1>3, <2>2 DEF RequestMember
    <3>2. CASE data.request.is = "object" /\ data.request.payload # None
      <4>1. texts = {data.request.payload} /\ data.request.payload \in Text
        BY SMT, <1>2, <2>2, <3>1, <3>2
      <4>2. object = PayloadObject(data.request.payload)
        BY SMT, <2>2, <3>2 DEF JwsJsonObject
      <4> QED
        BY Zenon, <4>1, <4>2
    <3>3. CASE data.request.is = "object" /\ data.request.payload = None
      <4>1. object = Declined("JwsObjectHasNoPayload")
        BY SMT, <2>2, <3>3 DEF JwsJsonObject
      <4> QED
        BY SMT, <1>2, <2>2, <3>3, <4>1, DeclinedFacts
    <3>4. CASE data.request.is \in {"string", "other"}
      <4>1. object = Declined("ShapeDoesNotMatchProtocol") \/ object = Declined("RequestNotAJwsOrObject")
        BY SMT, <2>2, <3>4 DEF JwsJsonObject
      <4> QED
        BY SMT, <1>2, <2>2, <3>4, <4>1, DeclinedFacts
    <3> QED
      BY Zenon, <3>1, <3>2, <3>3, <3>4
  <2> QED
    BY <2>1, <2>2
<1> HIDE DEF texts, object
<1>5. CASE texts = {} /\ IsDeclined(object)
  BY SMT, <1>1, <1>5 DEF texts, object
<1>6. ASSUME NEW text \in Text, texts = {text}, object = PayloadObject(text)
      PROVE  /\ IsDeclined(object) => QueriesUnderLabel(protocol, data) = {}
             /\ ~IsDeclined(object) =>
                  /\ QueriesUnderLabel(protocol, data) = {object.dcql_query}
                  /\ object.signed = TRUE
                  /\ \E t \in texts : object.dcql_query = t.dcql_query
                  /\ object.dcql_query \in RawQuery
  <2>1. CASE text.kind = "json" /\ text.dcql_query # None
    <3>1. object = Carries(text.dcql_query, TRUE) /\ text.dcql_query \in RawQuery
      BY Zenon, <1>6, <2>1, PayloadFacts
    <3>2. object.signed = TRUE /\ ~IsDeclined(object) /\ object.dcql_query = text.dcql_query
      BY Zenon, <3>1, CarriedFacts
    <3>3. QueriesUnderLabel(protocol, data) = {text.dcql_query}
      BY SMT, <1>1, <1>6, <2>1
    <3> QED
      BY Zenon, <1>6, <3>1, <3>2, <3>3
  <2>2. CASE ~(text.kind = "json" /\ text.dcql_query # None)
    <3>1. IsDeclined(object)
      BY Zenon, <1>6, <2>2, PayloadFacts
    <3> QED
      BY SMT, <1>1, <1>6, <2>2, <3>1
  <2> QED
    BY <2>1, <2>2
<1> QED
  BY Zenon, <1>4, <1>5, <1>6 DEF texts, object

LEMMA ObjectFacts ==
  ASSUME NEW protocol, NEW data \in EntryData
  PROVE  LET object == RequestObject("Openid4vpV1", protocol, data)
         IN /\ IsDeclined(object) => QueriesUnderLabel(protocol, data) = {}
            /\ ~IsDeclined(object) =>
                 /\ QueriesUnderLabel(protocol, data) = {object.dcql_query}
                 /\ object.dcql_query \in RawQuery
                 /\ object.signed = IsSignedLabel(protocol)
                 /\ object.signed =>
                      \E text \in PayloadTexts(protocol, data) : object.dcql_query = text.dcql_query
                 /\ ~object.signed => object.dcql_query = data.dcql_query
<1> DEFINE object == RequestObject("Openid4vpV1", protocol, data)
<1>1. CASE protocol = "openid4vp-v1-signed"
  <2>1. object = CompactObject(data)
    BY SMT, <1>1 DEF RequestObject, ShapeOf
  <2>2. IsSignedLabel(protocol) = TRUE
    BY SMT, <1>1 DEF IsSignedLabel
  <2> HIDE DEF object
  <2> QED
    BY Zenon, <1>1, <2>1, <2>2, CompactFacts DEF object
<1>2. CASE protocol = "openid4vp-v1-multisigned"
  <2>1. object = JwsJsonObject(data)
    BY SMT, <1>2 DEF RequestObject, ShapeOf
  <2>2. IsSignedLabel(protocol) = TRUE
    BY SMT, <1>2 DEF IsSignedLabel
  <2> HIDE DEF object
  <2> QED
    BY Zenon, <1>2, <2>1, <2>2, JwsJsonFacts DEF object
<1>3. CASE protocol \notin {"openid4vp-v1-signed", "openid4vp-v1-multisigned"}
  <2>1. object = InlineObject(data)
    BY SMT, <1>3 DEF RequestObject, ShapeOf
  <2>2. IsSignedLabel(protocol) = FALSE
    BY SMT, <1>3 DEF IsSignedLabel
  <2> HIDE DEF object
  <2> QED
    BY Zenon, <2>1, <2>2, InlineFacts DEF object
<1> QED
  BY Zenon, <1>1, <1>2, <1>3

(* What a context found in an entry is. *)
Answers(found, entry) ==
  /\ IsOffered(entry)
  /\ found \in Context
  /\ found.protocol = entry.protocol
  /\ found.dcql_query_raw \in ReadableQueries(entry)
  /\ MayAccept(entry, found.dcql_query_raw)
  /\ found.signed <=> IsSignedLabel(entry.protocol)
  /\ found.signed => \E text \in PayloadTexts(entry.protocol, entry.data) :
                       found.dcql_query_raw = text.dcql_query
  /\ ~found.signed => found.dcql_query_raw = entry.data.dcql_query

Unanswerable(entry) == \A raw \in ReadableQueries(entry) : ~MayAccept(entry, raw)

LEMMA InputFacts ==
  ASSUME input \in Input
  PROVE  /\ input.caller \in {"picker", "app", "bare"}
         /\ input.accept \in {"any", "typed", "signed"}
         /\ HasEntries => input.requests \in Seq(Entry)
         /\ \A protocol \in Protocol : input.profile[protocol] \in {"Openid4vpV1", "IsoMdocApi", None}
         /\ input.query = NotJson \/ input.query \in RawQuery
  BY SMT DEF Input, HasEntries

LEMMA EntryFacts ==
  ASSUME NEW entry \in Entry
  PROVE  entry.protocol \in Protocol \cup {None} /\ entry.data \in EntryData \cup {None}
  BY SMT DEF Entry

LEMMA ReadingFacts ==
  ASSUME input \in Input, NEW entry \in Entry
  PROVE  /\ Reading(entry) = None => Unanswerable(entry)
         /\ Reading(entry) # None => Answers(Reading(entry), entry)
<1> DEFINE object == RequestObject("Openid4vpV1", entry.protocol, entry.data)
           found == ExtractContext("Openid4vpV1", entry.protocol, entry.data)
           queries == QueriesUnderLabel(entry.protocol, entry.data)
<1>1. CASE ~IsOffered(entry) \/ entry.data = None
  <2>1. Reading(entry) = None /\ ReadableQueries(entry) = {}
    BY Zenon, <1>1 DEF Reading, ReadableQueries
  <2> QED
    BY Zenon, <2>1 DEF Unanswerable
<1>2. CASE IsOffered(entry) /\ entry.data # None
  <2>1. /\ entry.protocol \in Protocol /\ entry.data \in EntryData
        /\ input.profile[entry.protocol] \in {"Openid4vpV1", "IsoMdocApi"}
    BY SMT, <1>2, InputFacts, EntryFacts DEF IsOffered
  <2>2. CASE input.profile[entry.protocol] = "IsoMdocApi"
    <3>1. IsDeclined(ExtractContext("IsoMdocApi", entry.protocol, entry.data))
      <4>1. RequestObject("IsoMdocApi", entry.protocol, entry.data) = Declined("NoParser")
        BY SMT DEF RequestObject
      <4> QED
        BY Zenon, <4>1, DeclinedFacts DEF ExtractContext
    <3>2. Reading(entry) = None
      BY Zenon, <1>2, <2>2, <3>1 DEF Reading
    <3>3. ReadableQueries(entry) = {}
      <4>1. input.profile[entry.protocol] # "Openid4vpV1"
        BY SMT, <2>2
      <4> QED
        BY Zenon, <1>2, <4>1 DEF ReadableQueries
    <3> QED
      BY Zenon, <3>2, <3>3 DEF Unanswerable
  <2>3. CASE input.profile[entry.protocol] = "Openid4vpV1"
    <3>1. Reading(entry) = IF IsDeclined(found) \/ ~Allows(input.accept, found) THEN None ELSE found
      BY Zenon, <1>2, <2>3 DEF Reading
    <3>2. ReadableQueries(entry) = {raw \in queries : ~IsMalformed(raw)}
      BY Zenon, <1>2, <2>3 DEF ReadableQueries
    <3>3. /\ IsDeclined(object) => queries = {}
          /\ ~IsDeclined(object) =>
               /\ queries = {object.dcql_query}
               /\ object.dcql_query \in RawQuery
               /\ object.signed = IsSignedLabel(entry.protocol)
               /\ object.signed =>
                    \E text \in PayloadTexts(entry.protocol, entry.data) :
                      object.dcql_query = text.dcql_query
               /\ ~object.signed => object.dcql_query = entry.data.dcql_query
      BY Zenon, <2>1, ObjectFacts
    <3>4. found = IF IsDeclined(object) THEN object
                  ELSE IF IsMalformed(object.dcql_query) THEN Declined("Malformed")
                  ELSE [protocol |-> entry.protocol, signed |-> object.signed,
                        dcql_query_raw |-> object.dcql_query, typed |-> IsTyped(object.dcql_query)]
      BY Zenon DEF ExtractContext
    <3> HIDE DEF object, found, queries
    <3>5. CASE IsDeclined(object)
      <4>1. Reading(entry) = None /\ ReadableQueries(entry) = {}
        BY Zenon, <3>1, <3>2, <3>3, <3>4, <3>5
      <4> QED
        BY Zenon, <4>1 DEF Unanswerable
    <3>6. CASE ~IsDeclined(object) /\ IsMalformed(object.dcql_query)
      <4>1. Reading(entry) = None
        BY Zenon, <3>1, <3>4, <3>6, DeclinedFacts
      <4>2. \A raw \in ReadableQueries(entry) : FALSE
        BY Zenon, <3>2, <3>3, <3>6
      <4> QED
        BY Zenon, <4>1, <4>2 DEF Unanswerable
    <3>7. CASE ~IsDeclined(object) /\ ~IsMalformed(object.dcql_query)
      <4> DEFINE raw == object.dcql_query
                 signed == object.signed
                 context_ == [protocol |-> entry.protocol, signed |-> signed,
                              dcql_query_raw |-> raw, typed |-> IsTyped(raw)]
      <4>1. found = context_
        BY Zenon, <3>4, <3>7
      <4>2. IsTyped(raw) \in BOOLEAN /\ IsSignedLabel(entry.protocol) \in BOOLEAN
        <5> HIDE DEF raw
        <5>1. IsTyped(raw) \in BOOLEAN
          BY SMT DEF IsTyped
        <5>2. IsSignedLabel(entry.protocol) \in BOOLEAN
          BY SMT DEF IsSignedLabel
        <5> QED
          BY <5>1, <5>2
      <4>3. /\ found.protocol = entry.protocol /\ found.signed = signed
            /\ found.dcql_query_raw = raw /\ found.typed = IsTyped(raw)
            /\ ~IsDeclined(found)
        <5> HIDE DEF raw, signed
        <5>1. context_.protocol = entry.protocol /\ context_.dcql_query_raw = raw
          BY Zenon
        <5>2. context_.signed = signed
          BY Zenon
        <5>3. context_.typed = IsTyped(raw)
          BY Zenon
        <5>4. ~IsDeclined(context_)
          BY SMT DEF IsDeclined
        <5> QED
          BY Zenon, <4>1, <5>1, <5>2, <5>3, <5>4
      <4>4. found \in Context
        <5>1. raw \in RawQuery /\ signed \in BOOLEAN
          BY Zenon, <3>3, <3>7, <4>2
        <5> HIDE DEF raw, signed
        <5>2. context_ \in Context
          BY Zenon, <2>1, <4>2, <5>1 DEF Context
        <5> QED
          BY Zenon, <4>1, <5>2
      <4>5. found # None
        BY Zenon, <4>4, NoneIsAbsent
      <4>6. Allows(input.accept, found) <=> MayAccept(entry, raw)
        <5>1. input.accept \in {"any", "typed", "signed"}
          BY Zenon, InputFacts
        <5>2. found.signed = IsSignedLabel(entry.protocol)
          BY Zenon, <3>3, <3>7, <4>3
        <5> HIDE DEF raw
        <5>3. CASE input.accept = "any"
          BY Zenon, <5>3 DEF Allows, MayAccept
        <5>4. CASE input.accept = "typed"
          <6>1. Allows("typed", found) <=> found.typed
            BY SMT DEF Allows
          <6>2. MayAccept(entry, raw) <=> IsTyped(raw)
            BY SMT, <5>4 DEF MayAccept
          <6> QED
            BY Zenon, <4>3, <5>4, <6>1, <6>2
        <5>5. CASE input.accept = "signed"
          <6>1. Allows("signed", found) <=> found.signed
            BY SMT DEF Allows
          <6>2. MayAccept(entry, raw) <=> IsSignedLabel(entry.protocol)
            BY SMT, <5>5 DEF MayAccept
          <6> QED
            BY Zenon, <5>2, <5>5, <6>1, <6>2
        <5> QED
          BY Zenon, <5>1, <5>3, <5>4, <5>5
      <4>7. \A r \in ReadableQueries(entry) : r = raw
        BY Zenon, <3>2, <3>3, <3>7
      <4>8. raw \in ReadableQueries(entry)
        BY Zenon, <3>2, <3>3, <3>7
      <4> HIDE DEF raw, signed
      <4>9. CASE MayAccept(entry, raw)
        <5>1. Reading(entry) = found
          BY Zenon, <3>1, <4>3, <4>6, <4>9
        <5>2. /\ signed = IsSignedLabel(entry.protocol)
              /\ signed => \E text \in PayloadTexts(entry.protocol, entry.data) : raw = text.dcql_query
              /\ ~signed => raw = entry.data.dcql_query
          BY Zenon, <3>3, <3>7 DEF raw, signed
        <5> QED
          BY Zenon, <1>2, <4>3, <4>4, <4>5, <4>8, <4>9, <5>1, <5>2 DEF Answers
      <4>10. CASE ~MayAccept(entry, raw)
        <5>1. Reading(entry) = None
          BY Zenon, <3>1, <4>6, <4>10
        <5> QED
          BY Zenon, <4>7, <4>10, <5>1 DEF Unanswerable
      <4> QED
        BY <4>9, <4>10
    <3> QED
      BY Zenon, <3>5, <3>6, <3>7
  <2> QED
    BY Zenon, <2>1, <2>2, <2>3
<1> QED
  BY Zenon, <1>1, <1>2

-----------------------------------------------------------------------------
(* The scan. *)

Scanned ==
  /\ HasEntries /\ at \in Nat \ {0}
  /\ \A i \in 1..(at - 1) : i \in DOMAIN input.requests /\ Unanswerable(input.requests[i])

(* These depend on nothing but the input. *)
LEMMA InputOnly ==
  ASSUME input' = input
  PROVE  /\ \A e : IsOffered(e)' <=> IsOffered(e)
         /\ \A e : Unanswerable(e) => Unanswerable(e)'
         /\ \A e, f : Answers(f, e) => Answers(f, e)'
         /\ HasEntries' <=> HasEntries
<1>1. (\A e : IsOffered(e)' <=> IsOffered(e)) /\ (HasEntries' <=> HasEntries)
  BY Zenon DEF IsOffered, HasEntries
<1>2. (\A e : ReadableQueries(e)' = ReadableQueries(e)) /\ (\A e, r : MayAccept(e, r)' <=> MayAccept(e, r))
  BY Zenon DEF IsOffered, ReadableQueries, MayAccept
<1>3. \A e : Unanswerable(e) => Unanswerable(e)'
  BY Zenon, <1>2 DEF Unanswerable
<1>4. \A e, f : Answers(f, e) => Answers(f, e)'
  BY Zenon, <1>1, <1>2 DEF Answers
<1> QED
  BY <1>1, <1>3, <1>4

(* Until the scan ends there is no context; then there is the one found at    *)
(* `at`, all entries before it being unanswerable, or none at all.            *)
ScanInv ==
  /\ input \in Input
  /\ phase \in {"decode", "scan", "settle", "diagnose", "strict", "tolerant", "over"}
  /\ phase = "decode" => context = None /\ at = 1
  /\ phase = "scan" => Scanned /\ context = None
  /\ phase = "settle" =>
       /\ Scanned
       /\ context = None => at \notin DOMAIN input.requests
       /\ context # None => at \in DOMAIN input.requests /\ Answers(context, input.requests[at])
  /\ phase = "diagnose" => HasEntries
  /\ phase \in {"strict", "tolerant"} => context = None
  /\ context # None => context \in Context /\ ~IsMalformed(context.dcql_query_raw)

LEMMA ScanInit == Init => ScanInv
  BY SMT, InputsAreWellFormed DEF Init, ScanInv

LEMMA ReadableIsSound ==
  ASSUME NEW entry, NEW found, Answers(found, entry)
  PROVE  found \in Context /\ ~IsMalformed(found.dcql_query_raw)
<1>1. found \in Context /\ found.dcql_query_raw \in ReadableQueries(entry)
  BY Zenon DEF Answers
<1>2. \A raw \in ReadableQueries(entry) : ~IsMalformed(raw)
  BY SMT DEF ReadableQueries
<1> QED
  BY Zenon, <1>1, <1>2

LEMMA ScanNext == ScanInv /\ [Next]_vars => ScanInv'
<1> SUFFICES ASSUME ScanInv, [Next]_vars PROVE ScanInv'
  OBVIOUS
<1>1. CASE Decode
  <2>1. UNCHANGED <<input, at, context>> /\ phase' \in {"over", "strict", "scan"}
        /\ context = None /\ at = 1 /\ (phase' = "scan" => HasEntries)
    BY SMT, <1>1 DEF Decode, End, ScanInv
  <2> QED
    BY SMT, <2>1 DEF ScanInv, Scanned, HasEntries
<1>2. CASE Consider
  <2> DEFINE entry == input.requests[at]
  <2>1. phase = "scan" /\ at \in DOMAIN input.requests /\ input' = input
    BY Zenon, <1>2 DEF Consider
  <2>2. Scanned /\ input \in Input /\ context = None
    BY Zenon, <2>1 DEF ScanInv
  <2>3. entry \in Entry
    BY SMT, <2>1, <2>2, InputFacts, Elements DEF Scanned
  <2>4. CASE Reading(entry) # None
    <3>1. context' = Reading(entry) /\ phase' = "settle" /\ at' = at
      BY Zenon, <1>2, <2>4 DEF Consider
    <3>2. Answers(Reading(entry), entry)
      BY Zenon, <2>2, <2>3, <2>4, ReadingFacts
    <3>3. Answers(context, input.requests[at])'
      BY Zenon, <2>1, <3>1, <3>2 DEF Answers, IsOffered, ReadableQueries, MayAccept
    <3>4. Scanned'
      BY Zenon, <2>1, <2>2, <3>1, InputOnly DEF Scanned
    <3>5. context' \in Context /\ ~IsMalformed(context'.dcql_query_raw)
      BY Zenon, <3>1, <3>2, ReadableIsSound
    <3> QED
      BY Zenon, <2>1, <2>2, <2>4, <3>1, <3>3, <3>4, <3>5 DEF ScanInv
  <2>5. CASE Reading(entry) = None
    <3>1. at' = at + 1 /\ phase' = phase /\ context' = context
      BY Zenon, <1>2, <2>5 DEF Consider
    <3>2. Unanswerable(entry)
      BY Zenon, <2>2, <2>3, <2>5, ReadingFacts
    <3>3. \A i \in 1..at : i \in DOMAIN input.requests /\ Unanswerable(input.requests[i])
      BY SMT, <2>1, <2>2, <3>2 DEF Scanned
    <3>4. Scanned'
      <4>1. at' - 1 = at /\ at' \in Nat \ {0} /\ HasEntries'
        BY SMT, <2>1, <2>2, <3>1 DEF Scanned, HasEntries
      <4>2. \A e : Unanswerable(e) => Unanswerable(e)'
        BY Zenon, <2>1, InputOnly
      <4> QED
        BY Zenon, <2>1, <3>3, <4>1, <4>2 DEF Scanned
    <3> QED
      BY SMT, <2>1, <2>2, <3>1, <3>4 DEF ScanInv
  <2> QED
    BY <2>4, <2>5
<1>3. CASE Exhaust
  <2>1. phase = "scan" /\ phase' = "settle" /\ UNCHANGED <<input, at, context>>
        /\ at \notin DOMAIN input.requests
    BY Zenon, <1>3 DEF Exhaust
  <2>2. Scanned /\ context = None
    BY Zenon, <2>1 DEF ScanInv
  <2>3. Scanned'
    BY Zenon, <2>1, <2>2, InputOnly DEF Scanned
  <2> QED
    BY SMT, <2>1, <2>2, <2>3 DEF ScanInv
<1>4. CASE Settle
  <2>1. input' = input /\ context' = context /\ phase' \in {"over", "diagnose"} /\ phase = "settle"
    BY SMT, <1>4 DEF Settle, End
  <2>2. HasEntries'
    BY Zenon, <2>1, InputOnly DEF ScanInv, Scanned
  <2> QED
    BY SMT, <2>1, <2>2 DEF ScanInv
<1>5. CASE Diagnose
  <2>1. input' = input /\ context' = context /\ phase' \in {"over", "diagnose"} /\ phase = "diagnose"
    BY SMT, <1>5 DEF Diagnose
  <2>2. HasEntries'
    BY Zenon, <2>1, InputOnly DEF ScanInv
  <2> QED
    BY SMT, <2>1, <2>2 DEF ScanInv
<1>6. CASE Strict
  <2>1. input' = input /\ context' = context /\ phase' \in {"over", "strict", "tolerant"}
        /\ context = None
    BY SMT, <1>6 DEF Strict, End, ScanInv
  <2> QED
    BY SMT, <2>1 DEF ScanInv
<1>7. CASE Tolerant
  <2>1. input' = input /\ context' = context /\ phase' \in {"over", "tolerant"} /\ context = None
    BY SMT, <1>7 DEF Tolerant, End, ScanInv
  <2> QED
    BY SMT, <2>1 DEF ScanInv
<1>8. CASE UNCHANGED vars
  BY Zenon, <1>8 DEF vars, ScanInv, Scanned, HasEntries, Answers, Unanswerable, ReadableQueries, MayAccept, IsOffered
<1> QED
  BY <1>1, <1>2, <1>3, <1>4, <1>5, <1>6, <1>7, <1>8 DEF Next, Ended

LEMMA ScanHolds == Spec => []ScanInv
  BY ScanInit, ScanNext, PTL DEF Spec

(* For every profile, filter and request: the entry answered is the first     *)
(* that can be read under its label and accepted (first_supported_context_in).*)
THEOREM FirstReadableIsAnswered == Spec => []FirstReadableWins
<1>1. ScanInv => FirstReadableWins
  <2> SUFFICES ASSUME ScanInv, phase = "settle" PROVE FirstReadableWins
    BY Zenon DEF FirstReadableWins
  <2>1. Scanned /\ input \in Input
        /\ (context = None => at \notin DOMAIN input.requests)
        /\ (context # None => at \in DOMAIN input.requests /\ Answers(context, input.requests[at]))
    BY Zenon DEF ScanInv
  <2>2. context = None => at > Len(input.requests)
    BY SMT, <2>1, InputFacts, Elements DEF Scanned
  <2>3. \A i \in 1..(at - 1) :
          \A raw \in ReadableQueries(input.requests[i]) : ~MayAccept(input.requests[i], raw)
    BY Zenon, <2>1 DEF Scanned, Unanswerable
  <2> QED
    BY Zenon, <2>1, <2>2, <2>3 DEF FirstReadableWins, Answers
<1> QED
  BY <1>1, ScanHolds, PTL

(* What chose the credentials was read out of a payload exactly under a signed*)
(* label, whatever the data looks like (request_object).                      *)
THEOREM LabelIsHonest == Spec => []LabelSaysHowItArrived
<1>1. ScanInv => LabelSaysHowItArrived
  <2> SUFFICES ASSUME ScanInv, phase = "settle", context # None PROVE LabelSaysHowItArrived
    BY Zenon DEF LabelSaysHowItArrived
  <2>1. Answers(context, input.requests[at])
    BY Zenon DEF ScanInv
  <2> QED
    BY Zenon, <2>1 DEF LabelSaysHowItArrived, Answers
<1> QED
  BY <1>1, ScanHolds, PTL

-----------------------------------------------------------------------------
(* The query handed on. *)

LEMMA MatchingFacts ==
  ASSUME NEW raw \in RawQuery, ~IsMalformed(raw), MatchingQuery(raw) # None
  PROVE  LET query_ == MatchingQuery(raw)
         IN /\ Len(query_.credentials) = Len(raw.credentials)
            /\ query_ \in RawQuery /\ query_.credentials # None
            /\ \A i \in DOMAIN raw.credentials :
                 /\ query_.credentials[i].id = raw.credentials[i].id
                 /\ query_.credentials[i] # raw.credentials[i] =>
                      raw.credentials[i].zkp /\ ~IsTyped(raw)
<1> DEFINE query_ == MatchingQuery(raw)
           credentials == raw.credentials
<1>1. credentials # None
  BY Zenon DEF IsMalformed, IsTyped, IsForThePlanner
<1>2. credentials \in Seq(CredentialQuery) /\ raw.rest \in BOOLEAN
      /\ raw = [credentials |-> credentials, rest |-> raw.rest]
  BY SMT, <1>1 DEF RawQuery
<1>3. CASE IsTyped(raw)
  <2>1. query_ = raw
    BY Zenon, <1>3 DEF MatchingQuery
  <2> HIDE DEF query_
  <2> QED
    BY Zenon, <1>1, <2>1 DEF query_
<1>4. CASE ~IsTyped(raw)
  <2> DEFINE without == [i \in DOMAIN credentials |-> WithoutClaims(credentials[i])]
             stripped == [raw EXCEPT !.credentials = without]
  <2>1. query_ = stripped
    BY Zenon, <1>4 DEF MatchingQuery
  <2>2. \A c \in CredentialQuery :
          /\ WithoutClaims(c) \in CredentialQuery
          /\ WithoutClaims(c).id = c.id
          /\ WithoutClaims(c) # c => c.zkp
    <3> TAKE c \in CredentialQuery
    <3>1. CASE ~c.zkp
      BY Zenon, <3>1 DEF WithoutClaims, IsZkpReq
    <3>2. CASE c.zkp
      <4> DEFINE parses == IF c.parses = "without_claims" THEN "as_sent" ELSE c.parses
      <4>1. WithoutClaims(c) = [c EXCEPT !.claims = << >>, !.parses = parses]
        BY Zenon, <3>2 DEF WithoutClaims, IsZkpReq
      <4>2. parses \in {"as_sent", "without_claims", "never"}
        BY SMT DEF CredentialQuery
      <4>3. << >> \in Seq(Id \cup {None})
        BY SMT
      <4> HIDE DEF parses
      <4>4. [c EXCEPT !.claims = << >>, !.parses = parses] \in CredentialQuery
            /\ [c EXCEPT !.claims = << >>, !.parses = parses].id = c.id
        <5>1. [c EXCEPT !.claims = << >>, !.parses = parses]
                = [[c EXCEPT !.claims = << >>] EXCEPT !.parses = parses]
          BY Zenon DEF CredentialQuery
        <5>2. \A ids \in Seq(Id \cup {None}) : [c EXCEPT !.claims = ids] \in CredentialQuery
          BY SMT DEF CredentialQuery
        <5>3. \A ids \in Seq(Id \cup {None}) : [c EXCEPT !.claims = ids].id = c.id
          BY SMT DEF CredentialQuery
        <5>4. \A d \in CredentialQuery : [d EXCEPT !.parses = parses] \in CredentialQuery
          BY SMT, <4>2 DEF CredentialQuery
        <5>5. \A d \in CredentialQuery : [d EXCEPT !.parses = parses].id = d.id
          BY SMT, <4>2 DEF CredentialQuery
        <5> QED
          BY Zenon, <4>3, <5>1, <5>2, <5>3, <5>4, <5>5
      <4> QED
        BY Zenon, <3>2, <4>1, <4>4
    <3> QED
      BY Zenon, <3>1, <3>2
  <2>3. DOMAIN credentials = 1..Len(credentials) /\ Len(credentials) \in Nat
        /\ \A i \in 1..Len(credentials) : credentials[i] \in CredentialQuery
    BY Zenon, <1>2, Elements
  <2>4. without \in Seq(CredentialQuery) /\ Len(without) = Len(credentials)
    <3> DEFINE n == Len(credentials)
    <3>1. without \in [1..n -> CredentialQuery]
      BY Zenon, <2>2, <2>3
    <3> HIDE DEF without, n
    <3>2. n \in Nat
      BY <2>3 DEF n
    <3> QED
      BY SMT, <3>1, <3>2 DEF n
  <2>5. \A i \in DOMAIN credentials : without[i] = WithoutClaims(credentials[i])
    BY Zenon
  <2> HIDE DEF without, credentials
  <2>6. stripped.credentials = without /\ stripped \in RawQuery
    BY SMT, <1>2, <2>4 DEF RawQuery
  <2>7. stripped.credentials # None
    <3>1. IsTyped(stripped)
      BY Zenon, <1>4, <2>1 DEF MatchingQuery, without, credentials
    <3> QED
      BY Zenon, <3>1 DEF IsTyped
  <2> HIDE DEF query_, stripped
  <2> QED
    BY Zenon, <1>4, <2>1, <2>2, <2>3, <2>4, <2>5, <2>6, <2>7 DEF query_, credentials
<1> QED
  BY <1>3, <1>4

(* What the caller asked, as it was sent. *)
Asked == IF input.caller = "bare" THEN input.query ELSE context.dcql_query_raw

(* A query there is the matching one of what was asked. *)
QueryInv ==
  /\ phase \in {"decode", "scan", "settle", "strict"} => query = None
  /\ phase \in {"scan", "settle", "diagnose"} => input.caller # "bare"
  /\ phase \in {"strict", "tolerant"} => input.caller = "bare" /\ input.query # NotJson
  /\ phase = "tolerant" => query # None
  /\ query # None =>
       /\ Asked \in RawQuery /\ ~IsMalformed(Asked)
       /\ query = MatchingQuery(Asked)
  /\ parts \in Seq(Reasons)
  /\ outcome \in {"none", "blob", "request", "unsupported", "diagnosed", "evaluate"}
  /\ at \in Nat

LEMMA ReasonFacts ==
  ASSUME input \in Input, NEW entry \in Entry
  PROVE  \E why \in Reasons :
           /\ Reason(entry) = << why >>
           /\ why = "not in registered profile" <=> ~IsOffered(entry)
<1>1. CASE ~IsOffered(entry)
  BY Zenon, <1>1 DEF Reason, Reasons
<1>2. CASE IsOffered(entry) /\ entry.data = None
  <2>1. "NoData" # "not in registered profile"
    BY SMT
  <2> QED
    BY Zenon, <1>2, <2>1 DEF Reason, Reasons
<1>3. CASE IsOffered(entry) /\ entry.data # None
  <2> DEFINE parser == input.profile[entry.protocol]
             data == entry.data
             why == ExtractQuery(parser, entry.protocol, data)
             object == RequestObject(parser, entry.protocol, data)
             Whys == {"NoParser", "ShapeDoesNotMatchProtocol", "NoQueryAndNoRequest",
                      "NotACompactJws", "JwsObjectHasNoPayload", "RequestNotAJwsOrObject",
                      "PayloadNotBase64url", "PayloadNotJson", "PayloadHasNoDcqlQuery"}
  <2>1. data \in EntryData
    BY SMT, <1>3, EntryFacts
  <2>2. /\ data.request \in RequestMember \cup {None} /\ data.payload \in Text \cup {None}
    BY SMT, <2>1 DEF EntryData
  <2>3. \A text \in Text : IsDeclined(PayloadObject(text)) => PayloadObject(text).why \in Whys
    BY SMT DEF Text, PayloadObject, IsDeclined, Declined, Carries
  <2>4. \A w \in Whys : Declined(w).why \in Whys
    BY SMT DEF Declined
  <2> HIDE DEF data
  <2>5. IsDeclined(InlineObject(data)) => InlineObject(data).why \in Whys
    BY SMT, <2>4 DEF InlineObject, IsDeclined, Carries
  <2>6. IsDeclined(CompactObject(data)) => CompactObject(data).why \in Whys
    <3>1. CASE data.request # None /\ data.request.is = "string" /\ IsCompactJws(data.request.segments)
      <4>1. data.request.segments \in Seq(Text) /\ Len(data.request.segments) = 3
        BY SMT, <2>2, <3>1 DEF RequestMember, IsCompactJws
      <4>2. data.request.segments[2] \in Text
        BY SMT, <4>1, Elements
      <4>3. CompactObject(data) = PayloadObject(data.request.segments[2])
        BY Zenon, <3>1 DEF CompactObject
      <4> QED
        BY Zenon, <2>3, <4>2, <4>3
    <3>2. CASE ~(data.request # None /\ data.request.is = "string" /\ IsCompactJws(data.request.segments))
      <4>1. CompactObject(data) \in {Declined("ShapeDoesNotMatchProtocol"), Declined("NotACompactJws")}
        BY SMT, <3>2 DEF CompactObject
      <4> QED
        BY SMT, <2>4, <4>1
    <3> QED
      BY <3>1, <3>2
  <2>7. IsDeclined(JwsJsonObject(data)) => JwsJsonObject(data).why \in Whys
    <3>1. CASE data.request = None
      <4>1. CASE data.dcql_query # None \/ data.payload = None
        BY SMT, <2>4, <3>1, <4>1 DEF JwsJsonObject
      <4>2. CASE data.dcql_query = None /\ data.payload # None
        <5>1. JwsJsonObject(data) = PayloadObject(data.payload) /\ data.payload \in Text
          BY SMT, <2>2, <3>1, <4>2 DEF JwsJsonObject
        <5> QED
          BY Zenon, <2>3, <5>1
      <4> QED
        BY <4>1, <4>2
    <3>2. CASE data.request # None
      <4>1. data.request.is \in {"string", "object", "other"}
            /\ (data.request.is = "object" => data.request.payload \in Text \cup {None})
        BY SMT, <2>2, <3>2 DEF RequestMember
      <4>2. CASE data.request.is = "object" /\ data.request.payload # None
        <5>1. JwsJsonObject(data) = PayloadObject(data.request.payload)
              /\ data.request.payload \in Text
          BY SMT, <3>2, <4>1, <4>2 DEF JwsJsonObject
        <5> QED
          BY Zenon, <2>3, <5>1
      <4>3. CASE ~(data.request.is = "object" /\ data.request.payload # None)
        <5>1. JwsJsonObject(data) \in {Declined("JwsObjectHasNoPayload"),
                 Declined("ShapeDoesNotMatchProtocol"), Declined("RequestNotAJwsOrObject")}
          BY SMT, <3>2, <4>1, <4>3 DEF JwsJsonObject
        <5> QED
          BY SMT, <2>4, <5>1
      <4> QED
        BY <4>2, <4>3
    <3> QED
      BY <3>1, <3>2
  <2>8. \/ object = InlineObject(data) \/ object = CompactObject(data)
        \/ object = JwsJsonObject(data) \/ object = Declined("NoParser")
    BY SMT DEF RequestObject, ShapeOf
  <2>9. IsDeclined(object) => object.why \in Whys
    BY Zenon, <2>4, <2>5, <2>6, <2>7, <2>8
  <2>10. why \in Whys \cup {"parsed", "Malformed"}
    <3>1. why = IF IsDeclined(object) THEN object.why
                ELSE IF IsTyped(object.dcql_query) THEN "parsed" ELSE "Malformed"
      BY Zenon DEF ExtractQuery
    <3> HIDE DEF object, why
    <3> QED
      BY SMT, <2>9, <3>1
  <2>11. Reason(entry) = << why >>
    BY Zenon, <1>3 DEF Reason, data
  <2> HIDE DEF why
  <2>12. why \in Reasons
    BY Zenon, <2>10 DEF Reasons
  <2>13. why # "not in registered profile"
    BY Zenon, <2>10
  <2> QED
    BY Zenon, <1>3, <2>11, <2>12, <2>13
<1> QED
  BY <1>1, <1>2, <1>3

LEMMA QueryInit == Init => QueryInv
  BY SMT DEF Init, QueryInv

LEMMA QueryNext == ScanInv /\ QueryInv /\ [Next]_vars => QueryInv'
<1> SUFFICES ASSUME ScanInv, QueryInv, [Next]_vars PROVE QueryInv'
  OBVIOUS
<1>1. CASE Decode
  <2>1. /\ phase = "decode" /\ UNCHANGED <<input, at, context, query, parts>>
        /\ phase' \in {"over", "strict", "scan"}
        /\ phase' = "strict" => input.caller = "bare" /\ input.query # NotJson
        /\ phase' = "scan" => input.caller # "bare"
        /\ outcome' \in {outcome, "blob", "request", "unsupported", "diagnosed"}
    BY SMT, <1>1 DEF Decode, End
  <2> QED
    BY SMT, <2>1 DEF QueryInv
<1>2. CASE Consider
  <2>1. /\ phase = "scan" /\ UNCHANGED <<input, query, parts, outcome>>
        /\ phase' \in {"scan", "settle"} /\ at' \in {at, at + 1}
    BY SMT, <1>2 DEF Consider
  <2> QED
    BY SMT, <2>1 DEF QueryInv
<1>3. CASE Exhaust
  <2>1. phase = "scan" /\ phase' = "settle" /\ UNCHANGED <<input, at, context, query, parts, outcome>>
    BY Zenon, <1>3 DEF Exhaust
  <2> QED
    BY SMT, <2>1 DEF QueryInv
<1>4. CASE Settle
  <2>1. /\ phase = "settle" /\ UNCHANGED <<input, context, parts>> /\ at' = 1
        /\ phase' \in {"over", "diagnose"}
        /\ outcome' \in {"evaluate", "diagnosed", "request", "unsupported"}
    BY SMT, <1>4 DEF Settle, End
  <2>2. query' # None => context # None /\ query' = MatchingQuery(context.dcql_query_raw)
    BY Zenon, <1>4 DEF Settle
  <2>3. context # None => context.dcql_query_raw \in RawQuery /\ ~IsMalformed(context.dcql_query_raw)
    BY SMT DEF ScanInv, Context
  <2>4. input.caller # "bare"
    BY SMT, <2>1 DEF QueryInv
  <2>5. query' # None => Asked' \in RawQuery /\ ~IsMalformed(Asked') /\ query' = MatchingQuery(Asked')
    BY Zenon, <2>1, <2>2, <2>3, <2>4 DEF Asked
  <2>6. /\ parts' \in Seq(Reasons) /\ at' \in Nat
        /\ outcome' \in {"none", "blob", "request", "unsupported", "diagnosed", "evaluate"}
    BY SMT, <2>1 DEF QueryInv
  <2>7. /\ phase' \notin {"decode", "scan", "settle", "strict", "tolerant"}
        /\ input'.caller # "bare"
    BY SMT, <2>1, <2>4
  <2> QED
    BY SMT, <2>5, <2>6, <2>7 DEF QueryInv
<1>5. CASE Diagnose
  <2>1. /\ phase = "diagnose" /\ phase' \in {"diagnose", "over"}
        /\ UNCHANGED <<input, context, query, outcome>>
    BY SMT, <1>5 DEF Diagnose
  <2>2. parts' \in Seq(Reasons) /\ at' \in Nat
    <3>1. CASE at \in DOMAIN input.requests
      <4>1. input \in Input /\ HasEntries
        BY SMT, <2>1 DEF ScanInv, QueryInv
      <4>2. input.requests[at] \in Entry
        BY SMT, <3>1, <4>1, InputFacts, Elements
      <4>3. PICK why \in Reasons : Reason(input.requests[at]) = << why >>
        BY Zenon, <4>1, <4>2, ReasonFacts
      <4>4. parts' = parts \o << why >> /\ at' = at + 1
        BY Zenon, <1>5, <3>1, <4>3 DEF Diagnose
      <4> QED
        BY SMT, <4>4 DEF QueryInv
    <3>2. CASE at \notin DOMAIN input.requests
      BY SMT, <1>5, <3>2 DEF Diagnose, QueryInv
    <3> QED
      BY <3>1, <3>2
  <2>3. Asked' = Asked
    BY Zenon, <2>1 DEF Asked
  <2> QED
    BY SMT, <2>1, <2>2, <2>3 DEF QueryInv
<1>6. CASE Strict
  <2>1. /\ phase = "strict" /\ UNCHANGED <<input, context, parts>>
        /\ phase' \in {"over", "strict", "tolerant"} /\ at' \in {at, at + 1}
        /\ outcome' \in {outcome, "evaluate", "request"}
        /\ phase' = "tolerant" => query' # None
        /\ phase' = "strict" => query' = query
    BY SMT, <1>6 DEF Strict, End
  <2>2. query = None /\ input.caller = "bare" /\ input.query # NotJson /\ input \in Input
    BY SMT, <2>1 DEF QueryInv, ScanInv
  <2>3. input.query \in RawQuery
    BY Zenon, <2>2, InputFacts
  <2>4. query' # None => ~IsMalformed(input.query) /\ query' = MatchingQuery(input.query)
    <3>1. IsMalformed(input.query) => query' = query
      BY Zenon, <1>6 DEF Strict
    <3>2. IsForThePlanner(input.query) /\ ~IsMalformed(input.query) => query' = MatchingQuery(input.query)
      BY Zenon, <1>6 DEF Strict
    <3>3. ~IsForThePlanner(input.query) /\ ~IsMalformed(input.query) =>
            (query' = query \/ query' = input.query) /\ MatchingQuery(input.query) = input.query
      BY Zenon, <1>6 DEF Strict, IsMalformed, MatchingQuery
    <3> QED
      BY Zenon, <2>2, <3>1, <3>2, <3>3
  <2>5. Asked' = input.query
    BY Zenon, <2>1, <2>2 DEF Asked
  <2>6. /\ parts' \in Seq(Reasons) /\ at' \in Nat
        /\ outcome' \in {"none", "blob", "request", "unsupported", "diagnosed", "evaluate"}
    BY SMT, <2>1 DEF QueryInv
  <2> QED
    BY SMT, <2>1, <2>2, <2>3, <2>4, <2>5, <2>6 DEF QueryInv
<1>7. CASE Tolerant
  <2>1. /\ phase = "tolerant" /\ UNCHANGED <<input, context, query, parts>>
        /\ phase' \in {"over", "tolerant"} /\ at' \in {at, at + 1}
        /\ outcome' \in {outcome, "evaluate", "request"}
    BY SMT, <1>7 DEF Tolerant, End
  <2>2. Asked' = Asked
    BY Zenon, <2>1 DEF Asked
  <2> QED
    BY SMT, <2>1, <2>2 DEF QueryInv
<1>8. CASE UNCHANGED vars
  BY Zenon, <1>8 DEF vars, QueryInv, Asked
<1> QED
  BY <1>1, <1>2, <1>3, <1>4, <1>5, <1>6, <1>7, <1>8 DEF Next, Ended

LEMMA QueryHolds == Spec => [](ScanInv /\ QueryInv)
  BY ScanInit, ScanNext, QueryInit, QueryNext, PTL DEF Spec

(* Every variable stays in its type.                                          *)
THEOREM DispatchTypeCorrect == Spec => []TypeOK
<1>1. ScanInv /\ QueryInv => TypeOK
  <2> SUFFICES ASSUME ScanInv, QueryInv PROVE TypeOK
    OBVIOUS
  <2>1. query = None \/ query \in RawQuery
    BY Zenon, MatchingFacts DEF QueryInv
  <2> QED
    BY Zenon, <2>1 DEF TypeOK, ScanInv, QueryInv
<1> QED
  BY <1>1, QueryHolds, PTL

(* The engine gets every credential query that was sent, in order, with no    *)
(* change but the claims of a zkp_req one (matching_query).                   *)
THEOREM MatchingKeepsTheQuery == Spec => []NothingAskedIsLost
<1>1. QueryInv => NothingAskedIsLost
  <2> SUFFICES ASSUME QueryInv, query # None PROVE NothingAskedIsLost
    BY Zenon DEF NothingAskedIsLost
  <2>1. Asked \in RawQuery /\ ~IsMalformed(Asked) /\ query = MatchingQuery(Asked)
    BY Zenon DEF QueryInv
  <2>2. /\ Len(query.credentials) = Len(Asked.credentials)
        /\ \A i \in DOMAIN Asked.credentials :
             /\ query.credentials[i].id = Asked.credentials[i].id
             /\ query.credentials[i] # Asked.credentials[i] =>
                  Asked.credentials[i].zkp /\ ~IsTyped(Asked)
    BY Zenon, <2>1, MatchingFacts
  <2> QED
    BY Zenon, <2>2 DEF NothingAskedIsLost, Asked
<1> QED
  BY <1>1, QueryHolds, PTL

-----------------------------------------------------------------------------
(* The diagnostic. *)

Blames(n) ==
  /\ Len(parts) = n
  /\ \A i \in 1..n : i \in DOMAIN input.requests
                     /\ (parts[i] = "not in registered profile" <=> ~IsOffered(input.requests[i]))

(* A diagnostic in the making has one reason for each entry before `at`.      *)
RefusalInv ==
  /\ phase \in {"decode", "scan", "settle"} => parts = << >> /\ outcome = "none"
  /\ phase = "diagnose" =>
       /\ at \in Nat \ {0} /\ Blames(at - 1)
       /\ outcome \in {"diagnosed", "request"}
  /\ phase \in {"strict", "tolerant"} => outcome = "none"
  /\ outcome = "request" /\ input.caller # "bare" /\ HasEntries => AnySupported
  /\ outcome = "unsupported" /\ input.caller # "bare" /\ HasEntries => ~AnySupported
  /\ phase = "over" /\ outcome \in {"diagnosed", "request"} /\ input.caller # "bare" /\ HasEntries =>
       Blames(Len(input.requests))

LEMMA RefusalInit == Init => RefusalInv
  BY SMT DEF Init, RefusalInv

LEMMA RefusalNext == ScanInv /\ QueryInv /\ RefusalInv /\ [Next]_vars => RefusalInv'
<1> SUFFICES ASSUME ScanInv, QueryInv, RefusalInv, [Next]_vars PROVE RefusalInv'
  OBVIOUS
<1>1. CASE Decode
  <2>1. /\ phase = "decode" /\ UNCHANGED <<input, at, context, query, parts>>
        /\ phase' \in {"over", "strict", "scan"}
        /\ phase' # "over" => outcome' = outcome
        /\ phase' = "over" /\ input.caller # "bare" /\ HasEntries => outcome' = "blob"
    BY SMT, <1>1 DEF Decode, End
  <2>2. HasEntries' <=> HasEntries
    BY Zenon, <2>1, InputOnly
  <2>3. CASE phase' # "over"
    BY SMT, <2>1, <2>2, <2>3 DEF RefusalInv
  <2>4. CASE phase' = "over"
    BY SMT, <2>1, <2>2, <2>4 DEF RefusalInv
  <2> QED
    BY <2>3, <2>4
<1>2. CASE Consider \/ Exhaust
  <2>1. /\ phase = "scan" /\ UNCHANGED <<parts, outcome>> /\ phase' \in {"scan", "settle"}
    BY SMT, <1>2 DEF Consider, Exhaust
  <2> QED
    BY SMT, <2>1 DEF RefusalInv
<1>3. CASE Settle
  <2>1. /\ phase = "settle" /\ UNCHANGED <<input, context, parts>> /\ at' = 1
        /\ \/ phase' = "over" /\ outcome' = "evaluate"
           \/ phase' = "diagnose" /\ outcome' = "diagnosed"
           \/ phase' = "diagnose" /\ outcome' = "request" /\ AnySupported
           \/ phase' = "over" /\ outcome' = "unsupported" /\ ~AnySupported
    BY SMT, <1>3 DEF Settle, End
  <2>2. parts = << >>
    BY SMT, <2>1 DEF RefusalInv
  <2>3. (HasEntries' <=> HasEntries) /\ (AnySupported' <=> AnySupported)
    BY Zenon, <2>1, InputOnly DEF AnySupported, IsOffered
  <2>4. Blames(0)'
    BY SMT, <2>1, <2>2 DEF Blames
  <2> QED
    BY SMT, <2>1, <2>3, <2>4 DEF RefusalInv
<1>4. CASE Diagnose
  <2>1. phase = "diagnose" /\ UNCHANGED <<input, context, query, outcome>>
    BY Zenon, <1>4 DEF Diagnose
  <2>2. /\ at \in Nat \ {0} /\ Blames(at - 1) /\ outcome \in {"diagnosed", "request"}
        /\ HasEntries /\ input \in Input /\ parts \in Seq(Reasons)
    BY SMT, <2>1 DEF RefusalInv, QueryInv, ScanInv
  <2>3. (HasEntries' <=> HasEntries) /\ (AnySupported' <=> AnySupported)
    BY Zenon, <2>1, InputOnly DEF AnySupported, IsOffered
  <2>4. input.requests \in Seq(Entry)
    BY Zenon, <2>2, InputFacts
  <2>5. CASE at \in DOMAIN input.requests
    <3> DEFINE entry == input.requests[at]
    <3>1. entry \in Entry
      BY SMT, <2>4, <2>5, Elements
    <3>2. PICK why \in Reasons :
            /\ Reason(entry) = << why >>
            /\ why = "not in registered profile" <=> ~IsOffered(entry)
      BY Zenon, <2>2, <3>1, ReasonFacts
    <3>3. parts' = parts \o << why >> /\ at' = at + 1
      BY Zenon, <1>4, <2>5, <3>2 DEF Diagnose
    <3> phase' = "diagnose"
      BY Zenon, <1>4, <2>1, <2>5 DEF Diagnose
    <3>4. Len(parts') = at /\ parts'[at] = why /\ \A i \in 1..(at - 1) : parts'[i] = parts[i]
      <4>1. Len(parts) = at - 1
        BY Zenon, <2>2 DEF Blames
      <4>2. Len(parts) + 1 = at
        BY SMT, <2>2, <4>1
      <4> QED
        <5>1. /\ Len(parts \o << why >>) = Len(parts) + 1
              /\ (parts \o << why >>)[Len(parts) + 1] = why
              /\ \A i \in 1..Len(parts) : (parts \o << why >>)[i] = parts[i]
          BY SMT, <2>2
        <5> QED
          BY Zenon, <3>3, <4>1, <4>2, <5>1
    <3>5. \A i \in 1..at : i \in DOMAIN input.requests
            /\ (parts'[i] = "not in registered profile" <=> ~IsOffered(input.requests[i]))
      <4> TAKE i \in 1..at
      <4>1. CASE i = at
        <5>1. parts'[i] = why /\ input.requests[i] = entry /\ i \in DOMAIN input.requests
          BY Zenon, <2>5, <3>4, <4>1
        <5> HIDE DEF entry
        <5> QED
          BY Zenon, <3>2, <5>1
      <4>2. CASE i # at
        <5>1. i \in 1..(at - 1)
          BY SMT, <2>2, <4>2
        <5> QED
          BY Zenon, <2>2, <3>4, <5>1 DEF Blames
      <4> QED
        BY <4>1, <4>2
    <3>6. Blames(at - 1)'
      <4>1. at' - 1 = at
        BY SMT, <2>2, <3>3
      <4>2. Len(parts)' = at
        BY Zenon, <3>4
      <4>3. \A e : IsOffered(e)' <=> IsOffered(e)
        BY Zenon, <2>1, InputOnly
      <4> QED
        BY Zenon, <2>1, <3>5, <4>1, <4>2, <4>3 DEF Blames, IsOffered
    <3> QED
      BY SMT, <2>1, <2>2, <2>3, <3>3, <3>6 DEF RefusalInv
  <2>6. CASE at \notin DOMAIN input.requests
    <3>1. phase' = "over" /\ UNCHANGED <<at, parts>>
      BY Zenon, <1>4, <2>6 DEF Diagnose
    <3>2. at - 1 = Len(input.requests)
      <4>1. at > Len(input.requests) /\ DOMAIN input.requests = 1..Len(input.requests)
            /\ Len(input.requests) \in Nat
        BY SMT, <2>2, <2>4, <2>6, Elements
      <4>2. at - 1 > 0 => at - 1 \in 1..(at - 1)
        BY SMT, <2>2
      <4>3. at - 1 > 0 => at - 1 \in DOMAIN input.requests
        BY Zenon, <2>2, <4>2 DEF Blames
      <4> QED
        BY SMT, <2>2, <4>1, <4>3
    <3>3. Blames(Len(input.requests))'
      BY Zenon, <2>1, <2>2, <3>1, <3>2 DEF Blames, IsOffered
    <3> QED
      BY SMT, <2>1, <2>2, <2>3, <3>1, <3>3 DEF RefusalInv
  <2> QED
    BY <2>5, <2>6
<1>5. CASE Strict \/ Tolerant
  <2>1. /\ input.caller = "bare" /\ UNCHANGED <<input, parts>>
        /\ phase' \in {"over", "strict", "tolerant"} /\ (phase' # "over" => outcome' = outcome)
        /\ phase \in {"strict", "tolerant"}
    BY SMT, <1>5 DEF Strict, Tolerant, End, QueryInv
  <2> QED
    BY SMT, <2>1 DEF RefusalInv
<1>6. CASE UNCHANGED vars
  BY Zenon, <1>6 DEF vars, RefusalInv, Blames, HasEntries, AnySupported, IsOffered
<1> QED
  BY <1>1, <1>2, <1>3, <1>4, <1>5, <1>6 DEF Next, Ended

(* A refusal has a reason for every entry, and blames the protocols only when *)
(* none of them is answered (diagnose, match_dc_api_request).                 *)
THEOREM RefusalsAreExplained == Spec => []RefusalIsExplained
<1>1. ScanInv /\ QueryInv /\ RefusalInv => RefusalIsExplained
  <2> SUFFICES ASSUME ScanInv, QueryInv, RefusalInv, input.caller # "bare", phase = "over", HasEntries
               PROVE  RefusalIsExplained
    BY Zenon DEF RefusalIsExplained
  <2>1. DOMAIN input.requests = 1..Len(input.requests)
    BY SMT, InputFacts, Elements DEF ScanInv
  <2>2. outcome \in {"diagnosed", "request"} => Blames(Len(input.requests))
    BY Zenon DEF RefusalInv
  <2>3. outcome \in {"diagnosed", "request"} => DOMAIN parts = 1..Len(input.requests)
    <3>1. outcome \in {"diagnosed", "request"} => Len(parts) = Len(input.requests)
      BY Zenon, <2>2 DEF Blames
    <3>2. DOMAIN parts = 1..Len(parts)
      BY SMT DEF QueryInv
    <3> QED
      BY Zenon, <3>1, <3>2
  <2> QED
    BY Zenon, <2>1, <2>2, <2>3 DEF RefusalIsExplained, RefusalInv, Blames, AnySupported
<1> QED
  BY <1>1, ScanInit, ScanNext, QueryInit, QueryNext, RefusalInit, RefusalNext, PTL DEF Spec

-----------------------------------------------------------------------------
(* The bare query. *)

(* validate finds nothing exactly when every id names one thing. *)
LEMMA ErrorFacts ==
  ASSUME NEW q \in RawQuery, q.credentials # None
  PROVE  IsUnambiguous(q) <=> \A n \in DOMAIN q.credentials : CredentialError(q, n) = "none"
<1> DEFINE credentials == q.credentials
<1>1. DOMAIN credentials = 1..Len(credentials) /\ Len(credentials) \in Nat
  BY SMT, Elements DEF RawQuery
<1>2. \A n : CredentialError(q, n) = "none" <=>
               /\ ~credentials[n].empty /\ ~HasDuplicate(credentials[n].claims)
               /\ \A i \in 1..(n - 1) : credentials[i].id # credentials[n].id
  <2> TAKE n
  <2> DEFINE empty == credentials[n].empty
             doubled == \E i \in 1..(n - 1) : credentials[i].id = credentials[n].id
             claims == HasDuplicate(credentials[n].claims)
  <2>1. CredentialError(q, n) =
          IF empty THEN "EmptyCredentialId" ELSE IF doubled THEN "DuplicateCredentialId"
          ELSE IF claims THEN "DuplicateClaimId" ELSE "none"
    BY Zenon DEF CredentialError
  <2>2. doubled <=> ~(\A i \in 1..(n - 1) : credentials[i].id # credentials[n].id)
    BY Zenon
  <2> HIDE DEF empty, doubled, claims
  <2>3. CredentialError(q, n) = "none" <=> ~empty /\ ~doubled /\ ~claims
    <3>1. "EmptyCredentialId" # "none" /\ "DuplicateCredentialId" # "none" /\ "DuplicateClaimId" # "none"
      BY SMT
    <3> QED
      BY Zenon, <2>1, <3>1
  <2> QED
    BY Zenon, <2>2, <2>3 DEF empty, claims
<1> HIDE DEF credentials
<1>3. ASSUME \A i, j \in DOMAIN credentials : credentials[i].id = credentials[j].id => i = j,
             NEW n \in DOMAIN credentials, NEW i \in 1..(n - 1)
      PROVE  credentials[i].id # credentials[n].id
  <2>1. i \in DOMAIN credentials /\ i # n
    BY SMT, <1>1, <1>3
  <2> QED
    BY Zenon, <1>3, <2>1
<1>4. ASSUME \A n \in DOMAIN credentials : \A i \in 1..(n - 1) : credentials[i].id # credentials[n].id,
             NEW i \in DOMAIN credentials, NEW j \in DOMAIN credentials,
             credentials[i].id = credentials[j].id
      PROVE  i = j
  <2>1. CASE i < j
    <3>1. i \in 1..(j - 1)
      BY SMT, <1>1, <2>1
    <3> QED
      BY Zenon, <1>4, <3>1
  <2>2. CASE j < i
    <3>1. j \in 1..(i - 1)
      BY SMT, <1>1, <2>2
    <3> QED
      BY Zenon, <1>4, <3>1
  <2> QED
    BY SMT, <1>1, <2>1, <2>2
<1>5. IsUnambiguous(q) <=>
        /\ \A n \in DOMAIN credentials : ~credentials[n].empty /\ ~HasDuplicate(credentials[n].claims)
        /\ \A i, j \in DOMAIN credentials : credentials[i].id = credentials[j].id => i = j
  BY Zenon DEF IsUnambiguous, credentials
<1>6. (\A n \in DOMAIN credentials : CredentialError(q, n) = "none") <=> IsUnambiguous(q)
  BY Zenon, <1>2, <1>3, <1>4, <1>5
<1> QED
  BY Zenon, <1>6 DEF credentials

(* All of a query before `at` is sound. *)
Validated(q) ==
  at \in Nat \ {0} /\ \A n \in 1..(at - 1) : CredentialError(q, n) = "none"

Usable == ~IsMalformed(input.query) /\ MatchingQuery(input.query) # None

BareInv ==
  input.caller = "bare" =>
    /\ phase = "decode" => at = 1
    /\ phase \in {"strict", "tolerant", "decode"} => outcome = "none"
    /\ phase = "strict" => Validated(input.query) /\ (at > 1 => IsTyped(input.query))
    /\ phase = "tolerant" => Usable /\ query = MatchingQuery(input.query) /\ Validated(query)
    /\ phase = "over" /\ input.readable /\ input.query # NotJson /\ input.metadata =>
         (outcome = "evaluate" <=> Usable /\ IsUnambiguous(MatchingQuery(input.query)))

(* What a turn over the credential queries of a usable query decides. *)
LEMMA TurnFacts ==
  ASSUME input \in Input, input.query # NotJson, Usable, NEW q, q = MatchingQuery(input.query),
         at \in Nat \ {0}, \A n \in 1..(at - 1) : CredentialError(q, n) = "none"
  PROVE  /\ at \notin DOMAIN q.credentials => IsUnambiguous(q)
         /\ at \in DOMAIN q.credentials /\ CredentialError(q, at) # "none" => ~IsUnambiguous(q)
         /\ CredentialError(q, at) = "none" => \A n \in 1..((at + 1) - 1) : CredentialError(q, n) = "none"
<1>1. q \in RawQuery /\ q.credentials # None
  BY Zenon, InputFacts, MatchingFacts DEF Usable
<1>2. DOMAIN q.credentials = 1..Len(q.credentials) /\ Len(q.credentials) \in Nat
  BY SMT, <1>1, Elements DEF RawQuery
<1>3. at \notin DOMAIN q.credentials => \A n \in DOMAIN q.credentials : n \in 1..(at - 1)
  BY SMT, <1>2
<1>4. \A n \in 1..((at + 1) - 1) : n \in 1..(at - 1) \/ n = at
  BY SMT
<1> QED
  BY Zenon, <1>1, <1>3, <1>4, ErrorFacts

LEMMA BareInit == Init => BareInv
  BY SMT DEF Init, BareInv

LEMMA BareNext == ScanInv /\ QueryInv /\ BareInv /\ [Next]_vars => BareInv'
<1> SUFFICES ASSUME ScanInv, QueryInv, BareInv, [Next]_vars, input'.caller = "bare"
             PROVE  BareInv'
  BY Zenon DEF BareInv
<1>0. input' = input
  BY SMT DEF Next, vars, Decode, Consider, Exhaust, Settle, Diagnose, Strict, Tolerant, Ended
<1>a. input.caller = "bare" /\ input \in Input /\ Usable \in BOOLEAN
  BY SMT, <1>0 DEF ScanInv, Usable
<1>b. (Usable' <=> Usable) /\ MatchingQuery(input.query)' = MatchingQuery(input.query)
      /\ IsUnambiguous(MatchingQuery(input.query))' = IsUnambiguous(MatchingQuery(input.query))
  BY Zenon, <1>0 DEF Usable
<1>1. CASE Decode
  <2>1. /\ phase = "decode" /\ at' = at
        /\ \/ phase' = "over" /\ ~(input.readable /\ input.query # NotJson /\ input.metadata)
           \/ phase' = "strict" /\ outcome' = outcome
    BY SMT, <1>1, <1>a DEF Decode, End
  <2>2. at = 1 /\ outcome = "none"
    BY Zenon, <1>a, <2>1 DEF BareInv
  <2>3. CASE phase' = "over" /\ ~(input.readable /\ input.query # NotJson /\ input.metadata)
    <3>1. ~(input.readable /\ input.query # NotJson /\ input.metadata)'
      BY Zenon, <1>0, <2>3
    <3>2. phase' \notin {"decode", "strict", "tolerant"}
      BY SMT, <2>3
    <3> QED
      BY Zenon, <3>1, <3>2 DEF BareInv
  <2>4. CASE phase' = "strict" /\ outcome' = outcome
    <3>1. at' \in Nat \ {0} /\ ~(at' > 1) /\ \A n \in 1..(at' - 1) : FALSE
      BY SMT, <2>1, <2>2
    <3>2. phase' \notin {"decode", "over", "tolerant"}
      BY SMT, <2>4
    <3> QED
      BY Zenon, <2>2, <2>4, <3>1, <3>2 DEF BareInv, Validated
  <2> QED
    BY Zenon, <2>1, <2>3, <2>4
<1>2. CASE Consider \/ Exhaust \/ Settle \/ Diagnose
  BY SMT, <1>2, <1>a DEF Consider, Exhaust, Settle, Diagnose, QueryInv
<1>3. CASE Strict
  <2> DEFINE q == MatchingQuery(input.query)
  <2>1. phase = "strict" /\ input.query # NotJson
    BY SMT, <1>3 DEF Strict, QueryInv
  <2>2. Validated(input.query) /\ outcome = "none" /\ (at > 1 => IsTyped(input.query))
    BY Zenon, <1>a, <2>1 DEF BareInv
  <2>3. CASE IsMalformed(input.query)
    <3>1. phase' = "over" /\ outcome' = "request" /\ ~Usable
      BY Zenon, <1>3, <2>3 DEF Strict, End, Usable
    <3> QED
      BY SMT, <1>0, <1>b, <3>1 DEF BareInv
  <2>4. CASE ~IsMalformed(input.query) /\ IsForThePlanner(input.query)
    <3>1. ~IsTyped(input.query)
      BY Zenon, <2>4 DEF IsForThePlanner
    <3>2. query' = q /\ at' = at
          /\ IF q = None THEN phase' = "over" /\ outcome' = "request"
             ELSE phase' = "tolerant" /\ outcome' = outcome
      BY Zenon, <1>3, <2>4 DEF Strict, End
    <3>3. CASE q = None
      <4>1. phase' = "over" /\ outcome' = "request" /\ ~Usable
        BY Zenon, <3>2, <3>3 DEF Usable
      <4> QED
        BY SMT, <1>0, <1>b, <4>1 DEF BareInv
    <3>4. CASE q # None
      <4>1. phase' = "tolerant" /\ outcome' = "none" /\ Usable /\ query' = q
        BY Zenon, <2>2, <2>4, <3>2, <3>4 DEF Usable
      <4>2. at = 1
        BY SMT, <2>2, <3>1 DEF Validated
      <4>3. \A n \in 1..(1 - 1) : FALSE
        BY SMT
      <4>4. Validated(query)'
        <5>1. at' \in Nat \ {0} /\ at' - 1 = 1 - 1
          BY SMT, <3>2, <4>2
        <5> QED
          BY Zenon, <4>3, <5>1 DEF Validated
      <4> HIDE DEF q
      <4>5. query' = MatchingQuery(input.query)'
        BY Zenon, <1>b, <4>1 DEF q
      <4> QED
        BY SMT, <1>b, <4>1, <4>4, <4>5 DEF BareInv
    <3> QED
      BY <3>3, <3>4
  <2>5. CASE ~IsMalformed(input.query) /\ ~IsForThePlanner(input.query)
    <3>1. IsTyped(input.query)
      BY Zenon, <2>5 DEF IsMalformed
    <3>2. q = input.query /\ q \in RawQuery /\ q # None
      BY Zenon, <1>a, <2>1, <3>1, InputFacts, NoneIsAbsent DEF MatchingQuery
    <3>3. Usable
      BY Zenon, <2>5, <3>2 DEF Usable
    <3>4. at \in Nat \ {0} /\ \A n \in 1..(at - 1) : CredentialError(q, n) = "none"
      BY Zenon, <2>2, <3>2 DEF Validated
    <3> HIDE DEF q
    <3>5. /\ at \notin DOMAIN q.credentials => IsUnambiguous(q)
          /\ at \in DOMAIN q.credentials /\ CredentialError(q, at) # "none" => ~IsUnambiguous(q)
          /\ CredentialError(q, at) = "none" => \A n \in 1..((at + 1) - 1) : CredentialError(q, n) = "none"
      BY Zenon, <1>a, <2>1, <3>3, <3>4, TurnFacts DEF q
    <3>6. CASE at \notin DOMAIN q.credentials
      <4>1. phase' = "over" /\ outcome' = "evaluate"
        BY Zenon, <1>3, <2>5, <3>2, <3>6 DEF Strict, End
      <4>2. IsUnambiguous(MatchingQuery(input.query))'
        BY Zenon, <1>b, <3>5, <3>6 DEF q
      <4> QED
        BY SMT, <1>b, <3>3, <4>1, <4>2 DEF BareInv
    <3>7. CASE at \in DOMAIN q.credentials /\ CredentialError(q, at) # "none"
      <4>1. phase' = "over" /\ outcome' = "request"
        BY Zenon, <1>3, <2>5, <3>2, <3>7 DEF Strict, End
      <4>2. ~IsUnambiguous(MatchingQuery(input.query))'
        BY Zenon, <1>b, <3>5, <3>7 DEF q
      <4> QED
        BY SMT, <4>1, <4>2 DEF BareInv
    <3>8. CASE at \in DOMAIN q.credentials /\ CredentialError(q, at) = "none"
      <4>1. phase' = "strict" /\ outcome' = "none" /\ at' = at + 1
        BY Zenon, <1>3, <2>1, <2>2, <2>5, <3>2, <3>8 DEF Strict
      <4>2. Validated(input.query)'
        <5>1. at' \in Nat \ {0}
          BY SMT, <3>4, <4>1
        <5> QED
          BY Zenon, <1>0, <3>2, <3>5, <3>8, <4>1, <5>1 DEF Validated
      <4>3. IsTyped(input.query)'
        BY Zenon, <1>0, <3>1
      <4> QED
        BY SMT, <4>1, <4>2, <4>3 DEF BareInv
    <3> QED
      BY <3>6, <3>7, <3>8
  <2> QED
    BY <2>3, <2>4, <2>5
<1>4. CASE Tolerant
  <2>1. phase = "tolerant" /\ input.query # NotJson /\ query' = query
    BY SMT, <1>4 DEF Tolerant, QueryInv
  <2>2. Usable /\ query = MatchingQuery(input.query) /\ Validated(query) /\ outcome = "none"
    BY Zenon, <1>a, <2>1 DEF BareInv
  <2>3. /\ at \notin DOMAIN query.credentials => IsUnambiguous(query)
        /\ at \in DOMAIN query.credentials /\ CredentialError(query, at) # "none" => ~IsUnambiguous(query)
        /\ CredentialError(query, at) = "none" => \A n \in 1..((at + 1) - 1) : CredentialError(query, n) = "none"
    BY Zenon, <1>a, <2>1, <2>2, TurnFacts DEF Validated
  <2>4. query' = MatchingQuery(input.query)'
    BY Zenon, <1>b, <2>1, <2>2
  <2>5. CASE at \notin DOMAIN query.credentials
    <3>1. phase' = "over" /\ outcome' = "evaluate"
      BY Zenon, <1>4, <2>5 DEF Tolerant, End
    <3>2. IsUnambiguous(MatchingQuery(input.query))'
      BY Zenon, <1>b, <2>2, <2>3, <2>5
    <3> QED
      BY SMT, <1>b, <2>2, <3>1, <3>2 DEF BareInv
  <2>6. CASE at \in DOMAIN query.credentials /\ CredentialError(query, at) # "none"
    <3>1. phase' = "over" /\ outcome' = "request"
      BY Zenon, <1>4, <2>6 DEF Tolerant, End
    <3>2. ~IsUnambiguous(MatchingQuery(input.query))'
      BY Zenon, <1>b, <2>2, <2>3, <2>6
    <3> QED
      BY SMT, <3>1, <3>2 DEF BareInv
  <2>7. CASE at \in DOMAIN query.credentials /\ CredentialError(query, at) = "none"
    <3>1. phase' = "tolerant" /\ outcome' = "none" /\ at' = at + 1
      BY Zenon, <1>4, <2>1, <2>2, <2>7 DEF Tolerant
    <3>2. Validated(query)'
      <4>1. at' \in Nat \ {0}
        BY SMT, <2>2, <3>1 DEF Validated
      <4> QED
        BY Zenon, <2>1, <2>3, <2>7, <3>1, <4>1 DEF Validated
    <3> QED
      BY SMT, <1>b, <2>2, <2>4, <3>1, <3>2 DEF BareInv
  <2> QED
    BY <2>5, <2>6, <2>7
<1>5. CASE UNCHANGED vars
  BY Zenon, <1>5 DEF vars, BareInv, Usable, Validated
<1> QED
  BY <1>1, <1>2, <1>3, <1>4, <1>5 DEF Next, Ended

(* A bare query is evaluated exactly when it can be read and no id in it names*)
(* two things, by either reading (match_dcql_with_context).                   *)
THEOREM BareQueriesAreChecked == Spec => []BareQueryIsSound
<1>1. BareInv => BareQueryIsSound
  BY SMT DEF BareInv, BareQueryIsSound, Usable
<1> QED
  BY <1>1, ScanInit, ScanNext, QueryInit, QueryNext, BareInit, BareNext, PTL DEF Spec
=============================================================================
