------------------------------ MODULE DcqlEval ------------------------------
(***************************************************************************)
(* The DCQL engine (siros-dcql: eval.rs and eval/products.rs): `execute`   *)
(* evaluates a query against a wallet, then `combinations(limit)`          *)
(* enumerates the ways the wallet can answer it.                           *)
(*                                                                         *)
(* One step is one turn of one of the engine's loops:                      *)
(*                                                                         *)
(*   pc = "evaluate"  execute, one (query q, credential c) pair per step   *)
(*   pc = "combine"   combinations: the early returns                      *)
(*   pc = "group"     its loop over the credential sets, at set g          *)
(*   pc = "option"    its loops over partial p and option o of set g       *)
(*   pc = "multiply"  candidate_products: the product of the widths, dial d*)
(*   pc = "read"      its odometer, `left` readings to go                  *)
(*   pc = "done"      the answer is `out` and `dropped`                    *)
(*                                                                         *)
(* A combination keeps its members grouped by the dial that contributed    *)
(* them; the code keeps the same members in the same order in a flat list. *)
(***************************************************************************)
EXTENDS Dcql

VARIABLES
  request, wallet, limit,  \* the inputs; no step changes them
  pc,
  q, c,                    \* evaluate: the query and the credential considered
  candidates,              \* per query, the credentials that satisfy it
  satisfiable,
  g, p, o,                 \* combine: set, partial combination and option
  out, next,               \* the combinations over the sets so far; over this one too
  dropped,
  d, total,                \* candidate_products: dials multiplied, and their product
  dials, left              \* the position of each dial, and the readings to go

inputs   == <<request, wallet, limit>>
evaluating == <<q, c, candidates, satisfiable>>
products == <<d, total, dials, left>>
engine == <<inputs, pc, evaluating, g, p, o, out, next, dropped, products>>

EngineInit ==
  /\ request \in Requests
  /\ wallet \in Wallets
  /\ limit \in Limits
  /\ pc = "evaluate"
  /\ q = 1 /\ c = 1
  /\ candidates = [i \in 1..Len(request.credentials) |-> << >>]
  /\ satisfiable = FALSE
  /\ g = 1 /\ p = 1 /\ o = 1
  /\ out = << >> /\ next = << >>
  /\ dropped = [count |-> 0, exact |-> TRUE]
  /\ d = 1 /\ total = [count |-> 1, exact |-> TRUE]
  /\ dials = << >> /\ left = 0

-----------------------------------------------------------------------------
(* execute *)

Queries == DOMAIN request.credentials

Filtered(kept, query, credential) ==
  IF IsCandidate(query, credential)
  THEN Append(kept, CandidateOf(query, credential)) ELSE kept

ConsiderCredential ==
  /\ pc = "evaluate" /\ q \in Queries /\ c \in DOMAIN wallet
  /\ candidates' = [candidates EXCEPT ![q] = Filtered(@, request.credentials[q], wallet[c])]
  /\ c' = c + 1
  /\ UNCHANGED <<inputs, pc, q, satisfiable, g, p, o, out, next, dropped, products>>

NextQuery ==
  /\ pc = "evaluate" /\ q \in Queries /\ c \notin DOMAIN wallet
  /\ q' = q + 1 /\ c' = 1
  /\ UNCHANGED <<inputs, pc, candidates, satisfiable, g, p, o, out, next, dropped, products>>

IsSatisfied(i) == candidates[i] # << >>

(* execute lets any query of that id answer a reference to it. *)
OptionMatched(option) ==
  \A k \in DOMAIN option :
    \E i \in Queries : request.credentials[i].id = option[k] /\ IsSatisfied(i)

RequiredSetsMet ==
  IF request.credential_sets = None
  THEN \A i \in Queries : IsSatisfied(i)
  ELSE \A s \in DOMAIN request.credential_sets :
         request.credential_sets[s].required =>
           \E k \in DOMAIN request.credential_sets[s].options :
             OptionMatched(request.credential_sets[s].options[k])

(* The verdict; a request without queries is refused before the sets are read, *)
(* and one whose sets are all optional still needs something to offer.         *)
Verdict == /\ Queries # {}
           /\ RequiredSetsMet
           /\ \E i \in Queries : IsSatisfied(i)

Judge ==
  /\ pc = "evaluate" /\ q \notin Queries
  /\ satisfiable' = Verdict
  /\ pc' = "combine"
  /\ UNCHANGED <<inputs, q, c, candidates, g, p, o, out, next, dropped, products>>

-----------------------------------------------------------------------------
(* combinations *)

(* QueryResult::query: the first query of that id. *)
HasQuery(id) == \E i \in Queries : request.credentials[i].id = id

QueryOf(id) == CHOOSE i \in Queries : /\ request.credentials[i].id = id
                                      /\ \A j \in 1..(i - 1) : request.credentials[j].id # id

(* Without credential_sets, one required set asks for every query at once. *)
Everything == [options |-> << [i \in Queries |-> request.credentials[i].id] >>,
               required |-> TRUE, purpose |-> None]

Sets == IF request.credential_sets = None THEN << Everything >> ELSE request.credential_sets

IsRequired(s) == Sets[s].required

(* Every id of the option has a first query, and that one has candidates. *)
OptionSatisfiable(option) ==
  \A k \in DOMAIN option : HasQuery(option[k]) /\ IsSatisfied(QueryOf(option[k]))

OfferNothing ==
  /\ pc = "combine"
  /\ satisfiable => \A s \in DOMAIN Sets : ~IsRequired(s)
  /\ pc' = "done"
  /\ UNCHANGED <<inputs, evaluating, g, p, o, out, next, dropped, products>>

BeginGroups ==
  /\ pc = "combine"
  /\ satisfiable
  /\ \E s \in DOMAIN Sets : IsRequired(s)
  /\ out' = << [answers |-> << >>, purposes |-> << >>] >>
  /\ pc' = "group"
  /\ UNCHANGED <<inputs, evaluating, g, p, o, next, dropped, products>>

SkipOptionalSet ==
  /\ pc = "group" /\ g \in DOMAIN Sets /\ ~IsRequired(g)
  /\ g' = g + 1
  /\ UNCHANGED <<inputs, pc, evaluating, p, o, out, next, dropped, products>>

EnterSet ==
  /\ pc = "group" /\ g \in DOMAIN Sets /\ IsRequired(g)
  /\ p' = 1 /\ o' = 1 /\ next' = << >>
  /\ pc' = "option"
  /\ UNCHANGED <<inputs, evaluating, g, out, dropped, products>>

SetsDone ==
  /\ pc = "group" /\ g \notin DOMAIN Sets
  /\ pc' = "done"
  /\ UNCHANGED <<inputs, evaluating, g, p, o, out, next, dropped, products>>

NextPartial ==
  /\ pc = "option" /\ p \in DOMAIN out /\ o \notin DOMAIN Sets[g].options
  /\ p' = p + 1 /\ o' = 1
  /\ UNCHANGED <<inputs, pc, evaluating, g, out, next, dropped, products>>

(* The set is exhausted; without a single combination the loop is left early. *)
LeaveSet ==
  /\ pc = "option" /\ p \notin DOMAIN out
  /\ out' = next
  /\ g' = g + 1
  /\ pc' = IF next = << >> THEN "done" ELSE "group"
  /\ UNCHANGED <<inputs, evaluating, p, o, next, dropped, products>>

-----------------------------------------------------------------------------
(* candidate_products *)

Option == Sets[g].options[o]

IsMultiple(id) == request.credentials[QueryOf(id)].multiple
CandidatesOf(id) == candidates[QueryOf(id)]

(* A `multiple` query is answered in one way, by everything it has. *)
Width(id) == IF IsMultiple(id) THEN 1 ELSE Len(CandidatesOf(id))

(* An option some query of which has no candidate contributes nothing. *)
SkipOption ==
  /\ pc = "option" /\ p \in DOMAIN out /\ o \in DOMAIN Sets[g].options
  /\ ~OptionSatisfiable(Option)
  /\ o' = o + 1
  /\ UNCHANGED <<inputs, pc, evaluating, g, p, out, next, dropped, products>>

OpenOption ==
  /\ pc = "option" /\ p \in DOMAIN out /\ o \in DOMAIN Sets[g].options
  /\ OptionSatisfiable(Option)
  /\ d' = 1
  /\ total' = [count |-> 1, exact |-> TRUE]
  /\ pc' = "multiply"
  /\ UNCHANGED <<inputs, evaluating, g, p, o, out, next, dropped, dials, left>>

(* usize::checked_mul, clamped and remembered when it fails. *)
CheckedMul(product, width) ==
  IF product.count * width > MaxUsize
  THEN [count |-> MaxUsize, exact |-> FALSE]
  ELSE [count |-> product.count * width, exact |-> product.exact]

MultiplyWidth ==
  /\ pc = "multiply" /\ d \in DOMAIN Option
  /\ total' = CheckedMul(total, Width(Option[d]))
  /\ d' = d + 1
  /\ UNCHANGED <<inputs, pc, evaluating, g, p, o, out, next, dropped, dials, left>>

(* Dropped::add. *)
AddDropped(a, b) ==
  IF a.count + b.count > MaxUsize
  THEN [count |-> MaxUsize, exact |-> FALSE]
  ELSE [count |-> a.count + b.count, exact |-> a.exact /\ b.exact]

(* What still fits under the limit: limit.saturating_sub(next.len()). *)
Budget == IF Len(next) >= limit THEN 0 ELSE limit - Len(next)

Take == IF total.count <= Budget THEN total.count ELSE Budget

(* Mutant: what was taken counts as skipped too. *)
SkippedWithTaken == [count |-> total.count, exact |-> total.exact]

Skipped == [count |-> total.count - Take, exact |-> total.exact]

SetDials ==
  /\ pc = "multiply" /\ d \notin DOMAIN Option
  /\ left' = Take
  /\ dropped' = AddDropped(dropped, Skipped)
  /\ dials' = [k \in DOMAIN Option |-> 1]
  /\ pc' = "read"
  /\ UNCHANGED <<inputs, evaluating, g, p, o, out, next, d, total>>

(* Mutant: every query is answered as if it were `multiple`. *)
ReadingEverything ==
  [k \in DOMAIN Option |-> [id |-> Option[k], picked |-> CandidatesOf(Option[k])]]

(* Dial::read, on every dial of the option. *)
Reading ==
  [k \in DOMAIN Option |->
     [id |-> Option[k],
      picked |-> IF IsMultiple(Option[k]) THEN CandidatesOf(Option[k])
                 ELSE << CandidatesOf(Option[k])[dials[k]] >>]]

(* Mutant: a dial past its last candidate stays there when it carries. *)
TurnedWithoutReset ==
  LET AtLast(k) == dials[k] = Width(Option[k])
  IN [k \in DOMAIN Option |->
        IF (\E j \in 1..(k - 1) : ~AtLast(j)) \/ AtLast(k) THEN dials[k] ELSE dials[k] + 1]

(* Dial::turn: a dial past its last candidate goes back to the first and *)
(* carries the turn to the next dial.                                    *)
Turned ==
  LET AtLast(k) == dials[k] = Width(Option[k])
  IN [k \in DOMAIN Option |->
        IF \E j \in 1..(k - 1) : ~AtLast(j) THEN dials[k]
        ELSE IF AtLast(k) THEN 1 ELSE dials[k] + 1]

(* The partial combination with this set's members and purpose. *)
Extended(partial) ==
  [answers  |-> partial.answers \o Reading,
   purposes |-> IF Sets[g].purpose = None THEN partial.purposes
                ELSE Append(partial.purposes, Sets[g].purpose)]

ReadDials ==
  /\ pc = "read" /\ left > 0
  /\ next' = Append(next, Extended(out[p]))
  /\ dials' = Turned
  /\ left' = left - 1
  /\ UNCHANGED <<inputs, pc, evaluating, g, p, o, out, dropped, d, total>>

(* Mutant: the loop over the options does not advance. *)
CloseOptionAgain ==
  /\ pc = "read" /\ left = 0
  /\ pc' = "option"
  /\ UNCHANGED <<inputs, evaluating, g, p, o, out, next, dropped, products>>

CloseOption ==
  /\ pc = "read" /\ left = 0
  /\ o' = o + 1
  /\ pc' = "option"
  /\ UNCHANGED <<inputs, evaluating, g, p, out, next, dropped, products>>

-----------------------------------------------------------------------------
(* The call has returned. *)
Returned == pc = "done" /\ UNCHANGED engine

EngineNext ==
  \/ ConsiderCredential \/ NextQuery \/ Judge
  \/ OfferNothing \/ BeginGroups
  \/ SkipOptionalSet \/ EnterSet \/ SetsDone \/ NextPartial \/ LeaveSet
  \/ SkipOption \/ OpenOption \/ MultiplyWidth \/ SetDials \/ ReadDials \/ CloseOption
  \/ Returned

(* A call runs to its end: nothing it does waits for anything. *)
EngineSpec == EngineInit /\ [][EngineNext]_engine /\ WF_engine(EngineNext)
=============================================================================
