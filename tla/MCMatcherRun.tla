---------------------------- MODULE MCMatcherRun ----------------------------
(***************************************************************************)
(* Small instances of MatcherRun: requests with claims, claim sets,        *)
(* credential sets and a zkp_req query, wallets of up to three credentials *)
(* with and without images, hosts of level 1, 2 and 7, and every way an    *)
(* invocation stops early.                                                 *)
(***************************************************************************)
EXTENDS MatcherRun

ExactFormat(query, credential) == query.format = credential.format

MCPath == {"name", "birth", "photo"}
MCValue == {"ann", "bob"}

Asks(id, path) == [id |-> id, path |-> path, values |-> MCValue]

Query(id, format, multiple, claims, claim_sets) ==
  [id |-> id, format |-> format, multiple |-> multiple, require_binding |-> TRUE,
   claims |-> claims, claim_sets |-> claim_sets]

Name == << Asks("n", "name") >>
All == << Asks("n", "name"), Asks("b", "birth"), Asks("f", "photo") >>
Preferring == << << "n", "b", "f" >>, << "f", "n" >>, << "b" >> >>

Pid(m) == Query("pid", "mdoc", m, All, Preferring)
Age == Query("age", "sdjwt", FALSE, Name, None)
Zkp == Query("zkp", "zkp", FALSE, << >>, None)

Set(options, required) == [options |-> options, required |-> required, purpose |-> None]

MCRequests ==
  {[credentials |-> << Pid(m), Age >>, credential_sets |-> sets] :
     m \in BOOLEAN,
     sets \in {None,
               << Set(<< <<"pid">>, <<"age">> >>, TRUE) >>,
               << Set(<< << >>, <<"age">> >>, TRUE) >>,
               << Set(<< <<"pid">> >>, TRUE), Set(<< <<"age">>, <<"pid">> >>, TRUE) >>,
               << Set(<< <<"pid">> >>, FALSE) >>}}
  \cup {[credentials |-> << Zkp, Age >>, credential_sets |-> None],
        [credentials |-> << Age, Age >>, credential_sets |-> None],
        [credentials |-> << >>, credential_sets |-> None]}

Holding(paths) == [path \in MCPath |-> IF path \in paths THEN {"ann"} ELSE {}]

Stores(id, format, paths) ==
  [id |-> id, format |-> format, bound |-> TRUE, content |-> Holding(paths)]

MCWallets ==
  { << >>,
    << Stores("c1", "mdoc", {"name", "photo"}), Stores("c2", "sdjwt", {"name"}) >>,
    << Stores("c1", "mdoc", {"birth"}), Stores("c2", "mdoc", MCPath), Stores("c3", "sdjwt", MCPath) >>,
    << Stores("c3", "sdjwt", {"name", "birth"}), Stores("c2", "sdjwt", {"name"}), Stores("c1", "zkp", {}) >>,
    << Stores("c1", "mdoc", {"name"}) >> }

(* c2 is registered without an image. *)
MCIconBytes(credential) == IF credential.id = "c2" THEN None ELSE "png"

(* The rows of c1 and c2 differ, and no credential has one for its photo. *)
MCRow(credential, path) ==
  CASE path = "name" /\ credential.id = "c1" -> "name of c1"
    [] path = "name" /\ credential.id # "c1" -> "name"
    [] path = "birth" -> "birth"
    [] path = "photo" -> None

MCPlanRows(query) == IF query.format = "zkp" THEN << "age check" >> ELSE None

Invoked(reported, sound, readable, understood) ==
  [level : {reported}, sound : {sound}, readable : {readable}, debug : BOOLEAN,
   understood : {understood}]

MCInvocations ==
  Invoked(1, TRUE, TRUE, TRUE) \cup Invoked(2, TRUE, TRUE, TRUE) \cup Invoked(7, TRUE, TRUE, TRUE)
  \cup Invoked(2, FALSE, TRUE, TRUE) \cup Invoked(2, TRUE, FALSE, TRUE)
  \cup Invoked(2, TRUE, TRUE, FALSE)

MCSetId == {SirosSetId(n) : n \in 0..MaxCombinations}
           \cup {DebugSetId(kind) : kind \in {"request", "unsatisfiable", "zero"}}

MCData ==
  [query_id : QueryId, credential_id : CredentialId,
   combinations_dropped : 0..MaxUsize, is_exact : BOOLEAN]
=============================================================================
