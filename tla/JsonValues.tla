----------------------------- MODULE JsonValues -----------------------------
(***************************************************************************)
(* A JSON value (serde_json::Value) by what is asked of it: its type, and  *)
(* what as_str, as_array, as_bool and the like read.  An object whose      *)
(* members are read is a record of its own with is = "object", a member    *)
(* that is not there is None.  What is read out of a text (a date, a       *)
(* length, more JSON) is given by constants over the texts of an instance. *)
(***************************************************************************)
EXTENDS Basics, FiniteSets

CONSTANTS
  DateOf,       \* text -> the date <<y, m, d>> of a "dddd-dd-dd", None for another text
  LengthOf,     \* text -> its length in bytes
  JsonOf,       \* text -> the JSON value written in it, None when it is no JSON
  ItemsOf       \* text -> the items a comma separates in it, trimmed

Str(text) == [is |-> "string", text |-> text]
(* `integer`: written without fraction or exponent, and within 64 bits.       *)
(* `exact`: no fractional part, and at most 2^53.                             *)
Number(n, integer, exact) == [is |-> "number", n |-> n, integer |-> integer, exact |-> exact]
Flag(b) == [is |-> "bool", flag |-> b]
Arr(items) == [is |-> "array", items |-> items]
Null == [is |-> "null"]
Members(members) == [is |-> "object", members |-> members]

Is(v, type) == v # None /\ v.is = type
HasType(v, type) == v.is = type    \* of a value that is there
IsText(v, text) == Is(v, "string") /\ v.text = text
IsFilled(v) == Is(v, "string") /\ v.text # ""
IsTexts(v) == Is(v, "array") /\ \A i \in DOMAIN v.items : Is(v.items[i], "string")
TextsOf(v) == {v.items[i].text : i \in {i \in DOMAIN v.items : Is(v.items[i], "string")}}

(* What a value of each type looks like, an array with what is in it. *)
IsSequence(s) == s \in Seq({s[i] : i \in DOMAIN s})
IsPlain(v) == v # None /\ (v.is = "string" => v = Str(v.text))
IsJson(v) ==
  /\ IsPlain(v)
  /\ Is(v, "array") =>
       /\ IsSequence(v.items)
       /\ \A i \in DOMAIN v.items :
            Is(v.items[i], "object") => \A key \in DOMAIN v.items[i].members : IsPlain(v.items[i].members[key])

(* `None | Some(Value::Null)`: both read as absent. *)
IsAbsent(v) == v = None \/ Is(v, "null")

FirstIndex(set) == CHOOSE i \in set : \A j \in set : i <= j

(* The items of a sequence at a set of its positions, in order. *)
ItemsAt(seq, positions) ==
  [n \in 1..Cardinality(positions) |->
     seq[CHOOSE i \in positions : Cardinality({j \in positions : j <= i}) = n]]
=============================================================================
