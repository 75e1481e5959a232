----------------------------- MODULE DcqlAnswer -----------------------------
(***************************************************************************)
(* What the DCQL engine promises its caller: in one step, an answer of at  *)
(* most `limit` combinations, each of which satisfies the whole request    *)
(* with credentials the wallet holds and the queries accept. How the       *)
(* combinations are found, in which order and how many are left out is for *)
(* DcqlEval.                                                               *)
(***************************************************************************)
EXTENDS Dcql

VARIABLES request, wallet, limit, returned, offered

vars == <<request, wallet, limit, returned, offered>>

Queries == DOMAIN request.credentials

(* The answer holds candidates of a query of its id; one, unless the query *)
(* takes several.                                                          *)
Honest(answer) ==
  \E i \in Queries :
    /\ request.credentials[i].id = answer.id
    /\ answer.picked # << >>
    /\ ~request.credentials[i].multiple => Len(answer.picked) = 1
    /\ \A n \in DOMAIN answer.picked :
         \E w \in DOMAIN wallet :
           /\ IsCandidate(request.credentials[i], wallet[w])
           /\ answer.picked[n] = CandidateOf(request.credentials[i], wallet[w])

Answered(combination, id) ==
  \E k \in DOMAIN combination.answers : combination.answers[k].id = id

(* Every query of a request without sets (§6.4); with them, all of an option *)
(* of each required one (§6.2).                                              *)
Complete(combination) ==
  IF request.credential_sets = None
  THEN \A i \in Queries : Answered(combination, request.credentials[i].id)
  ELSE \A s \in DOMAIN request.credential_sets :
         request.credential_sets[s].required =>
           \E k \in DOMAIN request.credential_sets[s].options :
             \A j \in DOMAIN request.credential_sets[s].options[k] :
               Answered(combination, request.credential_sets[s].options[k][j])

Init ==
  /\ request \in Requests /\ wallet \in Wallets /\ limit \in Limits
  /\ returned = FALSE
  /\ offered = << >>

Return ==
  /\ ~returned /\ returned' = TRUE
  /\ offered' \in Seq(Combination)
  /\ Len(offered') <= limit
  /\ \A n \in DOMAIN offered' :
       /\ Complete(offered'[n])
       /\ \A k \in DOMAIN offered'[n].answers : Honest(offered'[n].answers[k])
  /\ UNCHANGED <<request, wallet, limit>>

Spec == Init /\ [][Return]_vars
=============================================================================
