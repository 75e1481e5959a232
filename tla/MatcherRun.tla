----------------------------- MODULE MatcherRun -----------------------------
(***************************************************************************)
(* One invocation of the matcher (siros-dc-matcher-wasm: main.rs and       *)
(* picker.rs), from the host's level to the last entry: the inputs are     *)
(* read, the DCQL engine runs (DcqlEval), and each combination it found is *)
(* sent as one entry set (EntrySets).                                      *)
(*                                                                         *)
(*   phase = "connect" -> "read" -> "evaluate" -> "offer" -> "over"        *)
(*                                                                         *)
(* What parsing makes of the inputs is given: whether the blob could be    *)
(* read, whether the request has a supported context with a query, and     *)
(* which query that is.                                                    *)
(***************************************************************************)
EXTENDS EntrySets, DcqlEval

CONSTANTS
  MaxCombinations,      \* MAX_COMBINATIONS
  Fallback,             \* FALLBACK_ICON_PNG
  IconBytes(_),         \* a stored credential's image; None if absent, out of range or empty
  Row(_, _),            \* the display row of a stored credential at a claim's path, or None
  PlanRows(_),          \* the rows of a zkp_req query's plan; None for any other query
  Invocations           \* what else an invocation brings: see Invocation

ASSUME TheLimit == MaxCombinations \in Nat \ {0} /\ Limits = {MaxCombinations}

(* `sound`: the host keeps the contract of its read functions.              *)
(* `readable`: from_cbor accepts the blob.  `debug`: its profile.debug.     *)
(* `understood`: first_supported_context and matching_query find a query.   *)
Invocation ==
  [level : Nat, sound : BOOLEAN, readable : BOOLEAN, debug : BOOLEAN, understood : BOOLEAN]

ASSUME InvocationsAreWellFormed == Invocations \subseteq Invocation

VARIABLES
  invocation,
  phase,
  index                 \* the combination to offer next

run == <<invocation, phase, index>>
vars == <<sink, engine, run>>

Init ==
  /\ EngineInit
  /\ invocation \in Invocations
  /\ InitSink(invocation.level, None)
  /\ phase = "connect"
  /\ index = 1

-----------------------------------------------------------------------------

(* Host::entry_sets. *)
HasEntrySets == level >= 2

Connect ==
  /\ phase = "connect"
  /\ phase' = IF HasEntrySets THEN "read" ELSE "over"
  /\ UNCHANGED <<sink, engine, invocation, index>>

(* A member of a set, in host form: one verification entry with the icon the  *)
(* picker needs, alone in its slot.                                           *)
Member(id, icon, data, fields) ==
  << [id |-> id, kind |-> "verification", icon |-> icon, info |-> FALSE, data |-> data,
      delegation |-> None, link |-> FALSE, text |-> FALSE, fields |-> fields] >>

(* emit_set: a set without members is not sent. *)
EmitSet(id, members) ==
  IF members = << >> THEN UNCHANGED sink ELSE AddSet([id |-> id, slots |-> members])

DebugSetId(kind) == "siros-debug-" \o kind

(* Diagnostics::emit. *)
EmitDiagnostic(kind) ==
  IF invocation.debug
  THEN EmitSet(DebugSetId(kind), << Member("siros-debug-entry", Fallback, None, << >>) >>)
  ELSE UNCHANGED sink

(* A broken read contract traps, and the picker gets nothing. *)
ReadInputs ==
  /\ phase = "read"
  /\ IF ~invocation.sound
     THEN /\ host' = Trap(host) /\ phase' = "over"
          /\ UNCHANGED <<level, default, sending, sent>>
     ELSE IF ~invocation.readable THEN phase' = "over" /\ UNCHANGED sink
     ELSE IF ~invocation.understood THEN phase' = "over" /\ EmitDiagnostic("request")
     ELSE phase' = "evaluate" /\ UNCHANGED sink
  /\ UNCHANGED <<engine, invocation, index>>

Evaluate ==
  /\ phase = "evaluate" /\ pc # "done"
  /\ EngineNext
  /\ UNCHANGED <<sink, run>>

Unsatisfiable ==
  /\ phase = "evaluate" /\ pc = "done" /\ ~satisfiable
  /\ phase' = "over"
  /\ EmitDiagnostic("unsatisfiable")
  /\ UNCHANGED <<engine, invocation, index>>

NoCombinations ==
  /\ phase = "evaluate" /\ pc = "done" /\ satisfiable /\ out = << >>
  /\ phase' = "over"
  /\ EmitDiagnostic("zero")
  /\ UNCHANGED <<engine, invocation, index>>

HasCombinations ==
  /\ phase = "evaluate" /\ pc = "done" /\ satisfiable /\ out # << >>
  /\ phase' = "offer"
  /\ UNCHANGED <<sink, engine, invocation, index>>

-----------------------------------------------------------------------------
(* A combination's members in order, each with the query it answers. *)
Members(combination) ==
  FlattenSeq([k \in DOMAIN combination.answers |->
    [n \in DOMAIN combination.answers[k].picked |->
       [query |-> combination.answers[k].id, candidate |-> combination.answers[k].picked[n]]]])

(* db.credentials.find: the first stored credential of that id. *)
IsStored(id) == \E w \in DOMAIN wallet : wallet[w].id = id

Stored(id) ==
  wallet[CHOOSE w \in DOMAIN wallet : /\ wallet[w].id = id
                                      /\ \A v \in 1..(w - 1) : wallet[v].id # id]

(* disclosed_fields: the rows of the selected claims the credential stores. *)
DisclosedFields(member) ==
  LET claims == member.candidate.claims
      rows == [k \in DOMAIN claims |-> Row(Stored(member.candidate.credential_id), claims[k].path)]
  IN Picked(rows, {k \in DOMAIN rows : rows[k] # None})

Fields(member) ==
  LET plan == PlanRows(request.credentials[QueryOf(member.query)])
  IN IF plan # None THEN plan ELSE DisclosedFields(member)

(* Mutant: a credential without an image is sent without one. *)
IconAsStored(credential) == IconBytes(credential)

IconOf(credential) == IF IconBytes(credential) = None THEN Fallback ELSE IconBytes(credential)

(* The JSON the wallet gets back, as far as it names what was matched. *)
DataOf(member) ==
  [query_id |-> member.query, credential_id |-> Stored(member.candidate.credential_id).id,
   combinations_dropped |-> dropped.count, is_exact |-> dropped.exact]

Slots(combination) ==
  LET members == Members(combination)
  IN [n \in DOMAIN members |->
        LET credential == Stored(members[n].candidate.credential_id)
        IN Member(credential.id, IconOf(credential), DataOf(members[n]), Fields(members[n]))]

SirosSetId(n) == "siros-" \o ToString(n)

(* Mutant: one set id for every combination. *)
SetIdFixed == SirosSetId(0)

(* Numbers are formatted each in a way of its own. *)
ASSUME NumbersTellSetsApart ==
  \A m, n \in 0..MaxCombinations : SirosSetId(m) = SirosSetId(n) => m = n

OfferedSetId == SirosSetId(index - 1)

(* What is handed to the picker is of the picker's types. *)
ASSUME ValuesAreThePickers ==
  /\ CredentialId \cup {"siros-debug-entry"} \subseteq CredId
  /\ \A n \in 0..MaxCombinations : SirosSetId(n) \in SetId
  /\ \A kind \in {"request", "unsatisfiable", "zero"} : DebugSetId(kind) \in SetId
  /\ Fallback \in Icon /\ None \notin Icon /\ None \notin Data
  /\ [query_id : QueryId, credential_id : CredentialId,
      combinations_dropped : 0..MaxUsize, is_exact : BOOLEAN] \subseteq Data
  /\ \A stored \in Wallets : \A w \in DOMAIN stored :
       /\ IconBytes(stored[w]) \in {None} \cup Icon
       /\ \A path \in Path : Row(stored[w], path) \in {None} \cup Field
  /\ \A asked \in Requests : \A i \in DOMAIN asked.credentials :
       PlanRows(asked.credentials[i]) \in {None} \cup Seq(Field)

(* One turn of the loop; a combination some member of which is not stored is *)
(* not offered at all.                                                       *)
Offer ==
  /\ phase = "offer" /\ Idle /\ index \in DOMAIN out
  /\ index' = index + 1
  /\ IF \A n \in DOMAIN Members(out[index]) : IsStored(Members(out[index])[n].candidate.credential_id)
     THEN EmitSet(OfferedSetId, Slots(out[index])) ELSE UNCHANGED sink
  /\ UNCHANGED <<engine, invocation, phase>>

SendNext == Send /\ UNCHANGED <<engine, run>>

Finish ==
  /\ phase = "offer" /\ Idle /\ index \notin DOMAIN out
  /\ phase' = "over"
  /\ UNCHANGED <<sink, engine, invocation, index>>

(* main has returned, or trapped. *)
Over == phase = "over" /\ (Idle \/ host.trapped)

Ended == Over /\ UNCHANGED vars

Next ==
  \/ Connect \/ ReadInputs \/ Evaluate
  \/ Unsatisfiable \/ NoCombinations \/ HasCombinations
  \/ Offer \/ SendNext \/ Finish \/ Ended

(* Nothing suspends the guest: it runs until main returns or it traps. *)
Spec == Init /\ [][Next]_vars /\ WF_vars(Next)
-----------------------------------------------------------------------------
(* What the picker shows of one declared set. *)
EntriesOfSet(id) ==
  Picked(Shown(host), {n \in DOMAIN Shown(host) : Shown(host)[n].key.set = id})

(* Every combination the engine found is offered once, in its order and under *)
(* an id of its own, whole: as many positions as declared, each filled by the *)
(* credential the engine chose for the query it chose it for. Nothing the     *)
(* picker does with a null icon or a repeated id loses any of it (main.rs,    *)
(* the loop over the combinations; picker.rs emit_set).                       *)
Offerable == Picked(out, {n \in DOMAIN out : Members(out[n]) # << >>})

EveryCombinationShownWhole ==
  Over /\ phase = "over" /\ pc = "done" /\ satisfiable /\ out # << >> =>
    /\ ~Discarded(host)
    /\ Len(host.sets) = Len(Offerable)
    /\ \A n \in DOMAIN host.sets :
         LET members == Members(Offerable[n])
             entries == EntriesOfSet(host.sets[n].id)
         IN /\ host.sets[n].length = Len(members)
            /\ Len(entries) = Len(members)
            /\ \A k \in DOMAIN entries :
                 /\ entries[k].key.index = k - 1
                 /\ entries[k].key.id = members[k].candidate.credential_id
                 /\ entries[k].metadata.data.query_id = members[k].query

(* To the user the invocation is one step that keeps the promise.             *)
ChoiceOf(id) ==
  LET entries == EntriesOfSet(id)
  IN [k \in DOMAIN entries |->
        [id |-> entries[k].key.id, rows |-> entries[k].fields,
         query |-> IF entries[k].metadata.data = None THEN None
                   ELSE entries[k].metadata.data.query_id]]

PickerChoices ==
  IF Discarded(host) THEN << >> ELSE [n \in DOMAIN host.sets |-> ChoiceOf(host.sets[n].id)]

Promise == INSTANCE PickerPromise WITH
  over    <- Over,
  choices <- IF Over THEN PickerChoices ELSE << >>

KeepsPromise == Promise!Spec

(* Every invocation ends: the guest returns or traps.                         *)
Ends == <>Over
=============================================================================
