---------------------------- MODULE ZkpExchange ----------------------------
(***************************************************************************)
(* One `zkp_req` request and its response: the planner both sides run      *)
(* (zkp_req.rs), an answer, and the verifier's check of it                 *)
(* (zkp_req_response.rs, proof_time.rs).                                   *)
(*                                                                         *)
(*   phase = "asked" -> "planned" -> "answering" -> "checking" -> "shaped" *)
(*           -> "verified" or "stale"                                      *)
(*   or it ends in "invalid", "declined" or "refused"                      *)
(*                                                                         *)
(* The prover is not part of the sources.  It answers as the rulebook says *)
(* and then, to stand for a faulty prover or carrier, changes up to        *)
(* request.faults places of its answer.  Its clock is off by               *)
(* request.drift, and the exchange takes up to request.delay seconds.      *)
(***************************************************************************)
EXTENDS ZkpResponse, FiniteSets

CONSTANTS
  Requests,          \* [query, metadata, faults, drift, delay]
  Alterations,       \* [within, at, key, item]: put item, unless Gone, under key
  Gone,
  MaxPresentations,
  Start,             \* the verifier's clock when it asks
  Skew, MaxAge       \* the verifier's tolerance

(* An item of CBOR is what its kind says; the reader refuses a map with a      *)
(* repeated key, and gives a code to what it cannot read.                     *)
IsItem(item) ==
  /\ item.cbor = "text" => item = Text(item.text)
  /\ item.cbor = "bytes" => item = Bytes(item.len)
  /\ item.cbor = "bool" => item \in {Bool(TRUE), Bool(FALSE)}
IsMap(entries) ==
  /\ IsSequence(entries)
  /\ \A i \in DOMAIN entries : IsItem(entries[i][1]) /\ IsItem(entries[i][2])
  /\ \A i, j \in DOMAIN entries : entries[i][1] = entries[j][1] => i = j
IsDeepMap(entries) ==
  IsMap(entries) /\ \A i \in DOMAIN entries : IsA(entries[i][2], "map") => IsMap(entries[i][2].entries)
IsElement(element) ==
  HasType(element, "string") =>
    IF "failure" \in DOMAIN element THEN element.failure \in ReadFailures
    ELSE IsA(element.decoded, "map") => IsDeepMap(element.decoded.entries)
IsToken(value) ==
  HasType(value, "object") =>
    /\ IsSequence(value.members)
    /\ \A m \in DOMAIN value.members : HasType(value.members[m][2], "array") =>
         /\ IsSequence(value.members[m][2].items)
         /\ \A i \in DOMAIN value.members[m][2].items : IsElement(value.members[m][2].items[i])

ASSUME AlterationsAreReadable ==
  \A change \in Alterations :
    /\ change.within \in {"token", "element", "members", "results"} /\ change.at \in Nat
    /\ change.within = "token" => IsToken(change.item)
    /\ change.within = "element" => IsElement(change.item)
    /\ change.within \in {"members", "results"} => IsItem(change.key) /\ (change.item = Gone \/ IsItem(change.item))
    /\ change.within = "members" /\ change.item # Gone /\ IsA(change.item, "map") => IsMap(change.item.entries)

(* A parameter that is a text may be a date, of a year, a month and a day.    *)
IsDated(value) ==
  Is(value, "string") => value.text # None /\ (DateOf[value.text] = None \/ DateOf[value.text] \in Int \X Int \X Int)

ASSUME RequestsAreReadable ==
  \A asked \in Requests :
    /\ asked.drift \in Int
    /\ Is(asked.query, "object") /\ Is(asked.query.req, "array") =>
         /\ IsSequence(asked.query.req.items)
         /\ \A i \in DOMAIN asked.query.req.items :
              LET item == asked.query.req.items[i]
              IN /\ IsPlain(item.return)
                 /\ Is(item.params, "object") =>
                      \A bound \in {"ge", "le"} \cap DOMAIN item.params.members : IsDated(item.params.members[bound])

(* No clock and no instant that can be rendered comes near the ends of i64.   *)
ASSUME ClocksAreNumbers ==
  /\ MaxPresentations \in Nat /\ Start \in Int /\ Skew \in Int /\ MaxAge \in Int
  /\ MinInt < 0 /\ MaxSecs < MaxInt

VARIABLES
  request, phase, plan,
  honest,        \* the answer as the prover made it
  token,         \* the answer as it arrives
  altered,       \* the alterations made
  at,            \* the presentation that is checked
  accepted, verdict, clock,
  proved         \* when, by the verifier's clock, the answer was made

vars == <<request, phase, plan, honest, token, altered, at, accepted, verdict, clock, proved>>
answer == <<honest, token, altered, proved>>
judged == <<at, accepted, verdict>>

Init ==
  /\ request \in Requests /\ phase = "asked" /\ plan = None
  /\ honest = None /\ token = None /\ altered = {}
  /\ at = 1 /\ accepted = << >> /\ verdict = None
  /\ clock = Start /\ proved = None

PlanRequest ==
  /\ phase = "asked"
  /\ LET result == Plan(request.query, request.metadata)
     IN IF IsInvalid(result) THEN phase' = "invalid" /\ verdict' = result.invalid /\ UNCHANGED plan
        ELSE phase' = "planned" /\ plan' = result /\ UNCHANGED verdict
  /\ UNCHANGED <<request, answer, at, accepted, clock>>

(* The evaluator offers nothing the rulebook calls unsatisfiable. *)
Decline ==
  /\ phase = "planned" /\ Unsatisfiable(plan) # None
  /\ phase' = "declined" /\ verdict' = Unsatisfiable(plan)
  /\ UNCHANGED <<request, plan, answer, at, accepted, clock>>

-----------------------------------------------------------------------------
(* The prover. *)

HonestResult(function) ==
  IF function.function_id = "pseudonym"
  THEN Bytes(IF ParamText(function.params, "prf") = "hashdh-bls12381g1" THEN 48 ELSE 32)
  ELSE Bool(TRUE)

(* The system it uses: one the verifier lists, or any if it lists none. *)
SystemsToUse ==
  IF plan.system_filter.system_ids \in {None, {}} THEN {"c1"} ELSE plan.system_filter.system_ids

HonestResults ==
  [i \in DOMAIN plan.functions |-> <<Text(plan.functions[i].handle), HonestResult(plan.functions[i])>>]

HonestPresentation(systemId, now) ==
  Encoded(Map(<<
    <<Text("results"), Map(HonestResults)>>,
    <<Text("proof"), Bytes(1)>>,
    <<Text("issuer_key_set"), List(<<Bytes(KeyMaxBytes)>>)>>,
    <<Text("proof_time"), Tag(0, Text(Render(now + request.drift)))>>,
    <<Text("system_id"), Text(systemId)>> >>))

HonestAnswer(n, systemId, now) ==
  Members(<< <<plan.raw.id.text, Arr([i \in 1..n |-> HonestPresentation(systemId, now)])>> >>)

Prove ==
  /\ phase = "planned" /\ Is(plan.raw.id, "string")
  /\ \E n \in 1..MaxPresentations, id \in SystemsToUse :
       LET made == HonestAnswer(n, id, clock) IN honest' = made /\ token' = made
  /\ phase' = "answering" /\ proved' = clock
  /\ UNCHANGED <<request, plan, altered, judged, clock>>

Without(entries, key) ==
  LET places == {i \in DOMAIN entries : entries[i][1] = key}
  IN IF places = {} THEN entries
     ELSE [i \in 1..(Len(entries) - 1) |-> entries[IF i < FirstIndex(places) THEN i ELSE i + 1]]

Put(entries, key, item) == Append(Without(entries, key), <<key, item>>)
PutOrTake(entries, key, item) == IF item = Gone THEN Without(entries, key) ELSE Put(entries, key, item)

(* Whether the place a change is made in is there. *)
CanAlter(value, change) ==
  IF change.within = "token" THEN TRUE
  ELSE /\ HasType(value, "object") /\ value.members # << >> /\ HasType(value.members[1][2], "array")
       /\ change.at \in DOMAIN value.members[1][2].items
       /\ change.within # "element" =>
            LET element == value.members[1][2].items[change.at]
            IN /\ HasType(element, "string") /\ "failure" \notin DOMAIN element /\ IsA(element.decoded, "map")
               /\ change.within = "results" =>
                    Has(element.decoded.entries, "results") /\ IsA(Find(element.decoded.entries, "results"), "map")

Alteration(value, change) ==
  IF change.within = "token" THEN change.item
  ELSE LET member == value.members[1]
           element == member[2].items[change.at]
           made == IF change.within = "element" THEN change.item
                   ELSE LET entries == element.decoded.entries
                        IN Encoded(Map(
                             IF change.within = "members" THEN PutOrTake(entries, change.key, change.item)
                             ELSE Put(entries, Text("results"),
                                    Map(PutOrTake(Find(entries, "results").entries, change.key, change.item)))))
       IN Members([value.members EXCEPT ![1] =
                     <<member[1], Arr([member[2].items EXCEPT ![change.at] = made])>>])

(* Two changes of one place are one change, and a place is not changed within *)
(* one that was changed.                                                      *)
Apart(a, b) ==
  /\ "token" \notin {a.within, b.within}
  /\ a.at = b.at =>
       /\ "element" \notin {a.within, b.within}
       /\ a.within = b.within => a.key # b.key
       /\ \A c, d \in {a, b} : c.within = "results" /\ d.within = "members" => d.key # Text("results")

Alter ==
  /\ phase = "answering" /\ Cardinality(altered) < request.faults
  /\ \E change \in Alterations :
       /\ \A other \in altered : Apart(change, other)
       /\ CanAlter(token, change)
       /\ token' = Alteration(token, change) /\ altered' = altered \cup {change}
  /\ UNCHANGED <<request, phase, plan, honest, proved, judged, clock>>

Deliver == phase = "answering" /\ phase' = "checking" /\ UNCHANGED <<request, plan, answer, judged, clock>>

Tick == clock < Start + request.delay /\ clock' = clock + 1 /\ UNCHANGED <<request, phase, plan, answer, judged>>

-----------------------------------------------------------------------------
(* The verifier. *)

Refuse(code) == phase' = "refused" /\ verdict' = code /\ accepted' = << >> /\ UNCHANGED at

Judging == phase = "checking" /\ EnvelopeDefect(plan, token) = None

RefuseEnvelope ==
  /\ phase = "checking" /\ EnvelopeDefect(plan, token) # None
  /\ Refuse(EnvelopeDefect(plan, token))
  /\ UNCHANGED <<request, plan, answer, clock>>

(* The presentations are checked in order, and the first bad one refuses all. *)
CheckPresentation ==
  /\ Judging /\ at <= Len(PresentationsOf(plan, token))
  /\ LET element == PresentationsOf(plan, token)[at]
     IN IF PresentationDefect(plan, element) # None THEN Refuse(PresentationDefect(plan, element))
        ELSE /\ accepted' = Append(accepted, Decoded(plan, element)) /\ at' = at + 1
             /\ UNCHANGED <<phase, verdict>>
  /\ UNCHANGED <<request, plan, answer, clock>>

AcceptShape ==
  /\ Judging /\ at > Len(PresentationsOf(plan, token))
  /\ phase' = "shaped"
  /\ UNCHANGED <<request, plan, answer, judged, clock>>

(* The caller's own check of the times, with the tolerance it chose. *)
Timely(presentation) ==
  presentation.proof_time = None \/ CheckTolerance(presentation.proof_time, clock, Skew, MaxAge) = "ok"

CheckTimes ==
  /\ phase = "shaped"
  /\ phase' = IF \A i \in DOMAIN accepted : Timely(accepted[i]) THEN "verified" ELSE "stale"
  /\ UNCHANGED <<request, plan, answer, judged, clock>>

Done == phase \in {"invalid", "declined", "refused", "verified", "stale"} /\ UNCHANGED vars

Next ==
  \/ PlanRequest \/ Decline \/ Prove \/ Alter \/ Deliver \/ Tick
  \/ RefuseEnvelope \/ CheckPresentation \/ AcceptShape \/ CheckTimes \/ Done

Spec == Init /\ [][Next]_vars
=============================================================================
