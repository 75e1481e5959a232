---------------------------- MODULE PickerPromise ----------------------------
(***************************************************************************)
(* What the matcher promises the user, who sees the picker and nothing     *)
(* else: in one step, either nothing, or a single diagnostic if the wallet *)
(* asked for diagnostics, or a list of choices each of which answers the   *)
(* verifier's whole request with credentials that fit it.                  *)
(*                                                                         *)
(* A choice is the sequence of its members, each a credential's id, the    *)
(* query it answers (None in a diagnostic) and the rows shown on it.       *)
(***************************************************************************)
EXTENDS Dcql

CONSTANTS
  Row(_, _), PlanRows(_), MaxCombinations

VARIABLES request, wallet, invocation, over, choices

vars == <<request, wallet, invocation, over, choices>>

Queries == DOMAIN request.credentials

UniqueIds ==
  /\ \A i, j \in Queries : request.credentials[i].id = request.credentials[j].id => i = j
  /\ \A v, w \in DOMAIN wallet : wallet[v].id = wallet[w].id => v = w

(* Every member is a credential the query it is shown for accepts, and its    *)
(* rows say what that query would disclose of it and nothing more.            *)
Fits(member, query, credential) ==
  LET claims == SelectClaims(query, credential.content)
  IN /\ member.id = credential.id
     /\ IsCandidate(query, credential)
     /\ \A k \in DOMAIN member.rows :
          IF PlanRows(query) # None THEN \E n \in DOMAIN PlanRows(query) : member.rows[k] = PlanRows(query)[n]
          ELSE \E n \in DOMAIN claims : member.rows[k] = Row(credential, claims[n].path)

Honest(member) ==
  \E i \in Queries : \E w \in DOMAIN wallet :
    /\ request.credentials[i].id = member.query
    /\ Fits(member, request.credentials[i], wallet[w])

Answered(choice, id) == \E k \in DOMAIN choice : choice[k].query = id

Complete(choice) ==
  IF request.credential_sets = None
  THEN \A i \in Queries : Answered(choice, request.credentials[i].id)
  ELSE \A s \in DOMAIN request.credential_sets :
         request.credential_sets[s].required =>
           \E k \in DOMAIN request.credential_sets[s].options :
             \A j \in DOMAIN request.credential_sets[s].options[k] :
               Answered(choice, request.credential_sets[s].options[k][j])

IsAnswer(shown) ==
  /\ Len(shown) <= MaxCombinations
  /\ \A n \in DOMAIN shown :
       /\ shown[n] # << >>
       /\ Complete(shown[n])
       /\ UniqueIds => \A k \in DOMAIN shown[n] : Honest(shown[n][k])

IsDiagnostic(shown) ==
  /\ invocation.debug
  /\ Len(shown) = 1 /\ Len(shown[1]) = 1
  /\ shown[1][1].query = None /\ shown[1][1].rows = << >>

(* The wallet can answer: for every query, or for those of an option of each  *)
(* required set, it has a credential that fits.                               *)
CanAnswer(id) ==
  \E i \in Queries : \E w \in DOMAIN wallet :
    request.credentials[i].id = id /\ IsCandidate(request.credentials[i], wallet[w])

Answerable ==
  /\ UniqueIds
  /\ Queries # {}
  /\ IF request.credential_sets = None
     THEN \A i \in Queries : CanAnswer(request.credentials[i].id)
     ELSE /\ \E s \in DOMAIN request.credential_sets : request.credential_sets[s].required
          /\ \A s \in DOMAIN request.credential_sets :
               LET options == request.credential_sets[s].options
               IN /\ \A k \in DOMAIN options : options[k] # << >>
                  /\ request.credential_sets[s].required =>
                       \E k \in DOMAIN options : \A j \in DOMAIN options[k] : CanAnswer(options[k][j])

(* What has to be in order before anything can be shown. *)
Reached == invocation.level >= 2 /\ invocation.sound /\ invocation.readable

Init ==
  /\ request \in Requests /\ wallet \in Wallets
  /\ over = FALSE
  /\ choices = << >>

Return ==
  /\ ~over /\ over' = TRUE
  /\ \/ choices' = << >>
     \/ /\ Reached
        /\ IsDiagnostic(choices')
     \/ /\ Reached /\ invocation.understood
        /\ IsAnswer(choices')
  /\ Reached /\ invocation.understood /\ Answerable => choices' # << >> /\ IsAnswer(choices')
  /\ Reached /\ ~invocation.understood /\ invocation.debug => IsDiagnostic(choices')
  /\ UNCHANGED <<request, wallet, invocation>>

Spec == Init /\ [][Return]_vars
=============================================================================
