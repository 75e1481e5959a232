------------------------ MODULE CircuitCapabilities ------------------------
(***************************************************************************)
(* What a circuit declares it can prove, and whether it serves a planned   *)
(* request (circuit_capabilities.rs).  Any error of `Capabilities::read`   *)
(* means the same to its caller, so reading is a predicate: which of       *)
(* several errors comes first is left out.  `unknown` of an object tells   *)
(* whether it has a member the schema does not list.                       *)
(***************************************************************************)
EXTENDS ZkpRequest

(* Constraint::read: exactly one of enum and type. *)
IsEnum(list) ==
  /\ Is(list, "array") /\ list.items # << >>
  /\ \A i \in DOMAIN list.items :
       IsFilled(list.items[i]) /\ \A j \in 1..(i - 1) : list.items[j] # list.items[i]

ReadableConstraint(c) ==
  /\ Is(c, "object") /\ ~ c.unknown
  /\ \/ IsAbsent(c.enum) /\ Is(c.type, "string") /\ c.type.text \in {"full-date", "string", "integer"}
     \/ IsAbsent(c.type) /\ IsEnum(c.enum)

(* Constraint::accepts *)
Accepts(c, value) ==
  IF ~ IsAbsent(c.enum) THEN \E i \in DOMAIN c.enum.items : c.enum.items[i] = value
  ELSE IF c.type.text = "string" THEN Is(value, "string")
  ELSE IF c.type.text = "full-date" THEN Is(value, "string") /\ IsFullDate(value.text)
  ELSE Is(value, "number") /\ value.exact

(* FunctionCap::read *)
ReadableFunction(f) ==
  /\ Is(f, "object") /\ ~ f.unknown /\ IsFilled(f.id)
  /\ IsAbsent(f.max) \/ (Is(f.max, "number") /\ f.max.integer /\ f.max.n >= 1)
  /\ IsAbsent(f.always) \/ Is(f.always, "bool")
  /\ \/ IsAbsent(f.params)
     \/ /\ Is(f.params, "object")
        /\ \A name \in DOMAIN f.params.members :
             name # "" /\ ReadableConstraint(f.params.members[name])

(* Capabilities::read.  issuance_profile is read and ignored. *)
Readable(description) ==
  /\ Is(description, "object") /\ ~ description.unknown
  /\ Is(description.schema, "number") /\ description.schema.integer /\ description.schema.n = 1
  /\ IsFilled(description.presentation)
  /\ Is(description.credential, "object") /\ ~ description.credential.unknown
  /\ description.credential.issuance_profile = None \/ IsFilled(description.credential.issuance_profile)
  /\ IsFilled(description.credential.format) /\ IsFilled(description.credential.type)
  /\ Is(description.functions, "array") /\ description.functions.items # << >>
  /\ \A i \in DOMAIN description.functions.items :
       /\ ReadableFunction(description.functions.items[i])
       /\ \A j \in 1..(i - 1) :
            description.functions.items[j].id # description.functions.items[i].id

FunctionsOf(description) == {description.functions.items[i] : i \in DOMAIN description.functions.items}

(* An item's function is declared, and each param it carries listed there     *)
(* with a value its constraint accepts.                                       *)
Supports(f, item) ==
  /\ f.id.text = item.function_id
  /\ \A name \in DOMAIN item.params :
       /\ Is(f.params, "object") /\ name \in DOMAIN f.params.members
       /\ Accepts(f.params.members[name], item.params[name])

Asked(f, items) == {i \in DOMAIN items : items[i].function_id = f.id.text}

CountIsServed(f, items) ==
  LET n == Cardinality(Asked(f, items))
  IN /\ Is(f.max, "number") => n <= f.max.n
     /\ n > 0 \/ f.always # Flag(TRUE)

(* Mutant: a function declared `always` may be left out. *)
ServesPartOf(description, presentation, formats, types, items) ==
  /\ description.presentation.text = presentation
  /\ description.credential.format.text \in formats /\ description.credential.type.text \in types
  /\ \A i \in DOMAIN items : \E f \in FunctionsOf(description) : Supports(f, items[i])

(* Capabilities::serves *)
Serves(description, presentation, formats, types, items) ==
  /\ description.presentation.text = presentation
  /\ description.credential.format.text \in formats /\ description.credential.type.text \in types
  /\ \A i \in DOMAIN items : \E f \in FunctionsOf(description) : Supports(f, items[i])
  /\ \A f \in FunctionsOf(description) : CountIsServed(f, items)
=============================================================================
