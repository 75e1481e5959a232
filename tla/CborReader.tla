----------------------------- MODULE CborReader -----------------------------
(***************************************************************************)
(* The strict CBOR reader of presentations (zkp_req_response.rs: Reader,   *)
(* decode_cbor).  The recursion of `item` is a stack of the items that are *)
(* open, one frame for each array, map or tag whose content is still being *)
(* read; its length is the parameter `depth`.  `at` counts the bytes       *)
(* taken, so the rest is input[at + 1], ...  Bytes keep their values.      *)
(* Numbers above MaxArgument are all alike, and so are the texts that are  *)
(* not UTF-8.                                                              *)
(***************************************************************************)
EXTENDS Basics

CONSTANTS
  Inputs,        \* the byte strings that arrive
  MaxDepth,      \* CBOR_MAX_DEPTH
  MaxArgument,   \* larger numbers are not told apart
  IsUtf8(_)      \* is this byte string UTF-8

ASSUME BoundsAssumption == MaxDepth \in Nat /\ MaxArgument \in Nat
ASSUME NoneAssumption ==
  None \notin {"ok", "malformed", "indefinite", "trailing", "duplicate_key"}
ASSUME InputsAssumption == Inputs \subseteq Seq(0..255)

VARIABLES
  input, at,
  depth, stack,  \* the open items, the outermost first
  item,          \* the item read last, not yet put where it belongs
  outcome        \* None, "ok" or the error

vars == <<input, at, depth, stack, item, outcome>>

Uint(n) == [cbor |-> "uint", n |-> n]
Nint == [cbor |-> "nint"]
Bytes(bytes) == [cbor |-> "bytes", bytes |-> bytes]
Text(bytes) == [cbor |-> "text", bytes |-> bytes]
List(items) == [cbor |-> "array", items |-> items]
Map(entries) == [cbor |-> "map", entries |-> entries]
Tag(n, inner) == [cbor |-> "tag", n |-> n, inner |-> inner]
Bool(b) == [cbor |-> "bool", b |-> b]
Other(raw) == [cbor |-> "other", raw |-> raw]

Init ==
  /\ input \in Inputs
  /\ at = 0 /\ depth = 0 /\ stack = << >>
  /\ item = None /\ outcome = None

-----------------------------------------------------------------------------
(* What the next bytes say. *)
Left == Len(input) - at
Major == input[at + 1] \div 32
Info == input[at + 1] % 32

(* The bytes of the argument after the initial byte. *)
Width(info) ==
  IF info = 24 THEN 1 ELSE IF info = 25 THEN 2 ELSE IF info = 26 THEN 4 ELSE IF info = 27 THEN 8 ELSE 0
HeadLength == 1 + Width(Info)
HeadIsWhole == Left >= 1 /\ Info < 28 /\ HeadLength <= Left

(* The fold of Reader::argument: big-endian, over one, two, four, eight bytes. *)
Byte(n, i) == IF n * 256 + input[i] > MaxArgument THEN MaxArgument + 1 ELSE n * 256 + input[i]
Pair(n, i) == Byte(Byte(n, i), i + 1)
Quad(n, i) == Pair(Pair(n, i), i + 2)

(* Reader::argument *)
Argument ==
  IF Info < 24 THEN Info
  ELSE IF Info = 24 THEN Byte(0, at + 2)
  ELSE IF Info = 25 THEN Pair(0, at + 2)
  ELSE IF Info = 26 THEN Quad(0, at + 2)
  ELSE Quad(Quad(0, at + 2), at + 6)

(* What a string or a container finds behind its head. *)
Behind == Left - HeadLength
Content == SubSeq(input, at + HeadLength + 1, at + HeadLength + Argument)

Top == stack[depth]

(* The loops of `item`: the next call reads at `depth`. *)
Reading == outcome = None /\ item = None /\ (depth > 0 => Top.left > 0)

AtHead == Reading /\ depth <= MaxDepth /\ HeadIsWhole

Stop(error) == outcome' = error /\ UNCHANGED <<input, at, depth, stack, item>>
Give(value, length) ==
  /\ item' = value /\ at' = at + length
  /\ UNCHANGED <<input, depth, stack, outcome>>
Push(frame, length) ==
  /\ stack' = [i \in 1..(depth + 1) |-> IF i = depth + 1 THEN frame ELSE stack[i]]
  /\ depth' = depth + 1 /\ at' = at + length
  /\ UNCHANGED <<input, item, outcome>>
Pop(value) ==
  /\ stack' = [i \in 1..(depth - 1) |-> stack[i]]
  /\ depth' = depth - 1 /\ item' = value
  /\ UNCHANGED <<input, at, outcome>>
Refill(frame) ==
  /\ stack' = [i \in 1..depth |-> IF i = depth THEN frame ELSE stack[i]]
  /\ item' = None
  /\ UNCHANGED <<input, at, depth, outcome>>

-----------------------------------------------------------------------------
(* Reader::item up to the first content. *)

RefuseDepth == Reading /\ depth > MaxDepth /\ Stop("malformed")

(* An item of indefinite length, or the break that would end one. *)
RefuseIndefinite ==
  /\ Reading /\ depth <= MaxDepth /\ Left >= 1 /\ Major < 7 /\ Info = 31
  /\ Stop(IF Major \in 2..5 THEN "indefinite" ELSE "malformed")

(* The end of the input, within a head or before one, or a reserved head. *)
RefuseHead ==
  /\ Reading /\ depth <= MaxDepth /\ ~ HeadIsWhole
  /\ ~ (Left >= 1 /\ Major < 7 /\ Info = 31)
  /\ Stop("malformed")

(* Mutant: the byte of a simple value looked at and left. *)
ReadSimpleInPlace ==
  /\ AtHead /\ Major = 7
  /\ Give(IF Info = 20 THEN Bool(FALSE) ELSE IF Info = 21 THEN Bool(TRUE)
          ELSE Other(SubSeq(input, at + 1, at + HeadLength)), Width(Info))

ReadSimple ==
  /\ AtHead /\ Major = 7
  /\ Give(IF Info = 20 THEN Bool(FALSE) ELSE IF Info = 21 THEN Bool(TRUE)
          ELSE Other(SubSeq(input, at + 1, at + HeadLength)), HeadLength)

ReadNumber ==
  /\ AtHead /\ Major \in {0, 1}
  /\ Give(IF Major = 0 THEN Uint(Argument) ELSE Nint, HeadLength)

StringIsWhole == Argument <= Behind /\ (Major = 3 => IsUtf8(Content))

ReadString ==
  /\ AtHead /\ Major \in {2, 3} /\ StringIsWhole
  /\ Give(IF Major = 2 THEN Bytes(Content) ELSE Text(Content), HeadLength + Argument)

RefuseString ==
  /\ AtHead /\ Major \in {2, 3} /\ ~ StringIsWhole
  /\ Stop("malformed")

(* `want` is what Vec::with_capacity reserves, `from` where the content       *)
(* starts, `left` what the loop has still to read.                            *)
Frame(opens, want) ==
  [opens |-> opens, want |-> want, left |-> want, from |-> at + HeadLength, items |-> << >>]

(* Mutant: memory reserved for whatever the head says. *)
OpenContainerUnchecked ==
  /\ AtHead /\ Major \in {4, 5}
  /\ Push(Frame(IF Major = 4 THEN "array" ELSE "map", Argument), HeadLength)

(* Every element takes at least a byte. *)
OpenContainer ==
  /\ AtHead /\ Major \in {4, 5} /\ Argument <= Behind
  /\ Push(Frame(IF Major = 4 THEN "array" ELSE "map", Argument), HeadLength)

RefuseContainer ==
  /\ AtHead /\ Major \in {4, 5} /\ Argument > Behind
  /\ Stop("malformed")

(* A tag reserves nothing; its one content is read as an item below it. *)
OpenTag ==
  /\ AtHead /\ Major = 6
  /\ Push([Frame("tag", 0) EXCEPT !.left = 1, !.items = <<Argument>>], HeadLength)

-----------------------------------------------------------------------------
(* Reader::item, the loops: an item goes into the innermost that is open. *)

Held == outcome = None /\ item # None /\ depth > 0

(* Array elements and the content of a tag. *)
AddElement ==
  /\ Held /\ Top.opens # "map"
  /\ Refill([Top EXCEPT !.items = Append(@, item), !.left = @ - 1])

(* A map reads key and value by turns: an odd length is a key waiting. *)
KeyIsWaiting == Len(Top.items) % 2 = 1
Keys == {Top.items[i] : i \in {i \in 1..(Len(Top.items) - 1) : i % 2 = 1}}

AddKey ==
  /\ Held /\ Top.opens = "map" /\ ~ KeyIsWaiting
  /\ Refill([Top EXCEPT !.items = Append(@, item)])

(* Mutant: a key compared with the one before it only. *)
IsRepeatedLastOnly(key) ==
  Len(Top.items) > 2 /\ Top.items[Len(Top.items) - 2] = key

IsRepeated(key) == key \in Keys

AddEntry ==
  /\ Held /\ Top.opens = "map" /\ KeyIsWaiting
  /\ ~ IsRepeated(Top.items[Len(Top.items)])
  /\ Refill([Top EXCEPT !.items = Append(@, item), !.left = @ - 1])

RefuseKey ==
  /\ Held /\ Top.opens = "map" /\ KeyIsWaiting
  /\ IsRepeated(Top.items[Len(Top.items)])
  /\ Stop("duplicate_key")

Entries(items) == [i \in 1..(Len(items) \div 2) |-> <<items[2 * i - 1], items[2 * i]>>]
Closed(frame) ==
  IF frame.opens = "array" THEN List(frame.items)
  ELSE IF frame.opens = "map" THEN Map(Entries(frame.items))
  ELSE Tag(frame.items[1], frame.items[2])

Close ==
  /\ outcome = None /\ item = None /\ depth > 0 /\ Top.left = 0
  /\ Pop(Closed(Top))

(* decode_cbor *)
Finish ==
  /\ outcome = None /\ item # None /\ depth = 0
  /\ Stop(IF Left = 0 THEN "ok" ELSE "trailing")

Next ==
  \/ RefuseDepth \/ RefuseIndefinite \/ RefuseHead
  \/ ReadSimple \/ ReadNumber \/ ReadString \/ RefuseString
  \/ OpenContainer \/ RefuseContainer \/ OpenTag
  \/ AddElement \/ AddKey \/ AddEntry \/ RefuseKey \/ Close
  \/ Finish

(* A call runs to its end. *)
Spec == Init /\ [][Next]_vars /\ WF_vars(Next)

-----------------------------------------------------------------------------
(* What the reader does to the process that runs it: how much it reserves,   *)
(* how long it runs, how deep it goes.                                        *)

(* The open items are as many as the calls, at most MaxDepth below the first. *)
TypeOK ==
  /\ at \in 0..Len(input)
  /\ depth \in 0..(MaxDepth + 1) /\ DOMAIN stack = 1..depth
  /\ \A i \in 1..depth :
       /\ stack[i].want \in Nat /\ stack[i].left \in Nat /\ stack[i].from \in 0..Len(input)
       /\ stack[i].opens \in {"array", "map", "tag"}
  /\ outcome \in {None, "ok", "malformed", "indefinite", "trailing", "duplicate_key"}

(* Whatever length a head claims, no open container has reserved more than    *)
(* there are bytes behind its head, the innermost included before anything of *)
(* it is read: the length is checked before the memory is asked for.          *)
ReservedIsBacked ==
  \A i \in 1..depth :
    /\ stack[i].want <= Len(input) - stack[i].from
    /\ stack[i].from <= at
    /\ i > 1 => stack[i - 1].from < stack[i].from

(* What the reader has still to do, at most: a byte may open an item, that is *)
(* added to another, that is closed.                                          *)
Budget ==
  4 * (Len(input) - at) + 2 * depth + (IF item = None THEN 0 ELSE 1) + (IF outcome = None THEN 1 ELSE 0)

(* Every step takes a byte, puts an item away, closes one or ends: a response *)
(* of n bytes is read or refused within 4 * n + 1 steps, however its heads    *)
(* nest and whatever lengths they claim.                                      *)
EveryStepIsPaid == [][Budget' < Budget]_vars
=============================================================================
