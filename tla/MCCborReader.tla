---------------------------- MODULE MCCborReader ----------------------------
(***************************************************************************)
(* The reader against RFC 8949 as a reference: which byte strings encode   *)
(* an item, every form of its heads included; written from the grammar,    *)
(* item first, where the reader goes by the bytes.                         *)
(*                                                                         *)
(* The instance: every input of up to three bytes over an alphabet of      *)
(* heads, and the encodings of nested items in every form, cut, continued, *)
(* or with a byte changed.                                                 *)
(***************************************************************************)
EXTENDS CborReader, FiniteSets, SequencesExt

CONSTANT Written   \* items that a response may hold; a negative number has its n here

RECURSIVE BigEndian(_, _, _)
BigEndian(s, i, width) ==
  IF width = 0 THEN 0 ELSE BigEndian(s, i, width - 1) * 256 + s[i + width]

(* The ends, in s, of the heads of a major type and a number that start       *)
(* behind s[i].                                                               *)
HeadEnds(major, n, s, i) ==
  {i + 1 : k \in {k \in {n} : n < 24 /\ i < Len(s) /\ s[i + 1] = major * 32 + n}} \cup
  {i + 1 + 2^k : k \in {k \in 0..3 : /\ i + 1 + 2^k <= Len(s) /\ s[i + 1] = major * 32 + 24 + k
                                     /\ BigEndian(s, i + 1, 2^k) = n}}

(* The ends of a byte string that stands right behind some head. *)
Strings(bytes, s, ends) ==
  {j + Len(bytes) : j \in {j \in ends : j + Len(bytes) <= Len(s) /\ SubSeq(s, j + 1, j + Len(bytes)) = bytes}}

RECURSIVE Ends(_, _, _)
RECURSIVE EndsOfAll(_, _, _)

(* The items one behind the other. *)
EndsOfAll(items, s, starts) ==
  IF items = << >> THEN starts
  ELSE EndsOfAll(Tail(items), s, UNION {Ends(Head(items), s, i) : i \in starts})

Ends(x, s, i) ==
  CASE x.cbor = "uint" -> HeadEnds(0, x.n, s, i)
    [] x.cbor = "nint" -> UNION {HeadEnds(1, n, s, i) : n \in IF "n" \in DOMAIN x THEN {x.n} ELSE 0..255}
    [] x.cbor = "bytes" -> Strings(x.bytes, s, HeadEnds(2, Len(x.bytes), s, i))
    [] x.cbor = "text" -> Strings(x.bytes, s, HeadEnds(3, Len(x.bytes), s, i))
    [] x.cbor = "array" -> EndsOfAll(x.items, s, HeadEnds(4, Len(x.items), s, i))
    [] x.cbor = "map" ->
         EndsOfAll([k \in 1..(2 * Len(x.entries)) |-> x.entries[(k + 1) \div 2][IF k % 2 = 1 THEN 1 ELSE 2]],
                   s, HeadEnds(5, Len(x.entries), s, i))
    [] x.cbor = "tag" -> EndsOfAll(<<x.inner>>, s, HeadEnds(6, x.n, s, i))
    [] x.cbor = "bool" -> Strings(<<IF x.b THEN 245 ELSE 244>>, s, {i})
    [] OTHER -> Strings(x.raw, s, {i})

(* Text that is UTF-8, keys that differ, at most d levels below. *)
RECURSIVE Fits(_, _)
Fits(x, d) ==
  /\ x.cbor = "text" => IsUtf8(x.bytes)
  /\ x.cbor = "array" => \A i \in DOMAIN x.items : d > 0 /\ Fits(x.items[i], d - 1)
  /\ x.cbor = "map" =>
       /\ Cardinality({x.entries[i][1] : i \in DOMAIN x.entries}) = Len(x.entries)
       /\ \A i \in DOMAIN x.entries : \A part \in {1, 2} : d > 0 /\ Fits(x.entries[i][part], d - 1)
  /\ x.cbor = "tag" => d > 0 /\ Fits(x.inner, d - 1)

(* What is read is what the bytes encode, all of them, within the limits:     *)
(* nothing is skipped, repeated or made up on any path through the heads. And *)
(* whatever encodes an item within the limits is read, in whatever form its   *)
(* heads are written (decode_cbor, against the grammar).                      *)
ReadsTheGrammar ==
  /\ outcome = "ok" => Len(input) \in Ends(item, input, 0) /\ Fits(item, MaxDepth)
  /\ outcome \notin {None, "ok"} =>
       \A x \in Written : Fits(x, MaxDepth) => Len(input) \notin Ends(x, input, 0)

-----------------------------------------------------------------------------
Ascii(bytes) == \A i \in DOMAIN bytes : bytes[i] < 128

(* 0; -1; strings of one byte; arrays, maps and strings of a length to        *)
(* follow, indefinite; a tag; true; a break.                                  *)
Alphabet == {0, 32, 65, 97, 129, 130, 161, 162, 24, 152, 95, 191, 193, 245, 248, 255}
ShortInputs == UNION {[1..n -> Alphabet] : n \in 0..3}

-----------------------------------------------------------------------------
(* Heads of the given form: the shortest, or one, two, four, eight bytes.     *)
HeadOf(major, n, form) ==
  IF form = 0 /\ n < 24 THEN <<major * 32 + n>>
  ELSE LET width == IF form = 0 THEN 1 ELSE 2^(form - 1)
           info == IF form = 0 THEN 24 ELSE 23 + form
       IN <<major * 32 + info>> \o [i \in 1..width |->
            IF i = width THEN n % 256 ELSE IF i = width - 1 THEN n \div 256 ELSE 0]

RECURSIVE Encode(_, _)
Encode(x, form) ==
  CASE x.cbor = "uint" -> HeadOf(0, x.n, form)
    [] x.cbor = "nint" -> HeadOf(1, x.n, form)
    [] x.cbor = "bytes" -> HeadOf(2, Len(x.bytes), form) \o x.bytes
    [] x.cbor = "text" -> HeadOf(3, Len(x.bytes), form) \o x.bytes
    [] x.cbor = "array" ->
         HeadOf(4, Len(x.items), form) \o FlattenSeq([i \in DOMAIN x.items |-> Encode(x.items[i], form)])
    [] x.cbor = "map" ->
         HeadOf(5, Len(x.entries), form) \o
           FlattenSeq([i \in DOMAIN x.entries |-> Encode(x.entries[i][1], form) \o Encode(x.entries[i][2], form)])
    [] x.cbor = "tag" -> HeadOf(6, x.n, form) \o Encode(x.inner, form)
    [] x.cbor = "bool" -> <<IF x.b THEN 245 ELSE 244>>
    [] OTHER -> x.raw

(* One negative number only: the reader takes them all for one, so that a map *)
(* with the keys -1 and -2 is refused for a repeated key.                     *)
Negative(n) == [cbor |-> "nint", n |-> n]
Leaves == {Uint(0), Uint(24), Uint(300), Negative(0), Bytes(<< >>), Bytes(<<1, 255>>), Text(<<97>>), Bool(TRUE),
           Other(<<246>>), Other(<<248, 32>>)}
Few == {Uint(0), Text(<<97>>), Bytes(<< >>), Negative(0)}
Shallow ==
  {List(<< >>), Map(<< >>)} \cup {List(<<a, b>>) : a, b \in Few} \cup {Tag(0, a) : a \in Few}
  \cup {Map(<<<<a, b>>>>) : a, b \in Few}
Deeper ==
  {List(<<a>>) : a \in Shallow} \cup {Tag(300, a) : a \in Shallow}
  \cup {Map(<<<<a, Uint(0)>>, <<Text(<<97>>), b>>>>) : a, b \in {List(<<Uint(0)>>), Map(<<<<Uint(0), Uint(0)>>>>), Uint(0)}}
  \cup {List(<<a, a>>) : a \in {Map(<<<<Uint(0), Uint(0)>>>>), Tag(0, Tag(0, Uint(0)))}}
AllWritten == Leaves \cup Shallow \cup Deeper

Repeating == {Map(<<<<a, Uint(0)>>, <<Bool(TRUE), b>>, <<a, Uint(1)>>>>) : a \in Few, b \in Few}
Encodings == {Encode(x, form) : x \in AllWritten \cup Repeating, form \in 0..4}
Cut(s) == {SubSeq(s, 1, n) : n \in 0..Len(s)}
Changed(s) == {ReplaceAt(s, i, byte) : i \in DOMAIN s, byte \in {0, 97, 129, 162, 95, 255, 156}}
Inexact == Encodings \cup {Append(s, 0) : s \in Encodings} \cup
           UNION {Cut(Encode(x, 0)) \cup Changed(Encode(x, 0)) : x \in Shallow \cup Deeper}

MCInputs == ShortInputs \cup Inexact
=============================================================================
