-------------------------- MODULE CborReaderProofs --------------------------
(***************************************************************************)
(* The limits of the CBOR reader for inputs of any length, any nesting     *)
(* limit and any content.  The invariant is the type of the stack with the *)
(* claim about its reservations; the budget is then a matter of counting.  *)
(***************************************************************************)
EXTENDS CborReader, TLAPS

(* A frame of an input of the given length, `taken` bytes of it read. *)
FrameOK(frame, length, taken) ==
  /\ DOMAIN frame = {"opens", "want", "left", "from", "items"}
  /\ frame.opens \in {"array", "map", "tag"}
  /\ frame.want \in Nat /\ frame.left \in Nat /\ frame.from \in Nat
  /\ frame.want <= length - frame.from /\ frame.from <= taken

StackOK ==
  /\ depth \in Nat /\ depth <= MaxDepth + 1 /\ DOMAIN stack = 1..depth
  /\ \A i \in 1..depth : FrameOK(stack[i], Len(input), at)
  /\ \A i \in 2..depth : stack[i - 1].from < stack[i].from

(* A loop with an item of its own open, or just read, is not over. *)
LoopsOpen == \A i \in 1..depth : (i # depth \/ item # None) => stack[i].left > 0

Outcomes == {None, "ok", "malformed", "indefinite", "trailing", "duplicate_key"}

InputOK == input \in Seq(0..255) /\ at \in Nat /\ at <= Len(input)

IInv == InputOK /\ StackOK /\ LoopsOpen /\ outcome \in Outcomes

-----------------------------------------------------------------------------
LEMMA Elements ==
  ASSUME NEW S, NEW s \in Seq(S)
  PROVE  Len(s) \in Nat /\ \A i \in 1..Len(s) : s[i] \in S
  BY SMT

LEMMA ByteIsNat ==
  ASSUME NEW n \in Nat, NEW i, input[i] \in 0..255
  PROVE  Byte(n, i) \in Nat
<1>1. \A b \in 0..255 : (IF n * 256 + b > MaxArgument THEN MaxArgument + 1 ELSE n * 256 + b) \in Nat
  BY SMT, BoundsAssumption
<1> QED
  BY Zenon, <1>1 DEF Byte

(* A whole head lies in the input, and its argument is a number. *)
LEMMA HeadFacts ==
  ASSUME InputOK, HeadIsWhole
  PROVE  /\ HeadLength \in Nat /\ HeadLength >= 1 /\ at + HeadLength <= Len(input)
         /\ Argument \in Nat
<1>1. Len(input) \in Nat /\ \A i \in 1..Len(input) : input[i] \in 0..255
  BY Zenon, Elements DEF InputOK
<1>2. at + 1 \in 1..Len(input)
  BY SMT, <1>1 DEF HeadIsWhole, Left, InputOK
<1>3. Info \in 0..27
  <2>1. \A b \in 0..255 : b % 32 < 28 => b % 32 \in 0..27
    BY SMT
  <2> QED
    BY Zenon, <1>1, <1>2, <2>1 DEF HeadIsWhole, Info
<1>4. HeadLength \in Nat /\ HeadLength >= 1 /\ at + HeadLength <= Len(input)
  BY SMT, <1>1 DEF HeadIsWhole, HeadLength, Width, Left, InputOK
<1>5. ASSUME NEW n \in Nat, NEW i \in 1..Len(input)
      PROVE  Byte(n, i) \in Nat
  BY Zenon, <1>1, ByteIsNat
<1>6. ASSUME NEW n \in Nat, NEW i \in 1..Len(input), i + 1 <= Len(input)
      PROVE  Pair(n, i) \in Nat
  <2>1. i + 1 \in 1..Len(input)
    BY SMT, <1>1, <1>6
  <2> QED
    BY Zenon, <1>5, <2>1 DEF Pair
<1>7. ASSUME NEW n \in Nat, NEW i \in 1..Len(input), i + 3 <= Len(input)
      PROVE  Quad(n, i) \in Nat
  <2>1. Pair(n, i) \in Nat
    BY SMT, <1>1, <1>6, <1>7
  <2>2. i + 2 \in 1..Len(input) /\ (i + 2) + 1 <= Len(input)
    BY SMT, <1>1, <1>7
  <2> QED
    BY <1>6, <2>1, <2>2 DEF Quad
<1>8. Argument \in Nat
  <2>1. CASE Info < 24
    BY SMT, <1>3, <2>1 DEF Argument
  <2>2. CASE Info = 24
    <3>1. at + 2 \in 1..Len(input)
      BY SMT, <1>1, <1>4, <2>2 DEF HeadLength, Width, InputOK
    <3>2. Byte(0, at + 2) \in Nat
      BY <1>5, <3>1
    <3> QED
      BY SMT, <2>2, <3>2 DEF Argument
  <2>3. CASE Info = 25
    <3>1. at + 2 \in 1..Len(input) /\ (at + 2) + 1 <= Len(input)
      BY SMT, <1>1, <1>4, <2>3 DEF HeadLength, Width, InputOK
    <3>2. Pair(0, at + 2) \in Nat
      BY <1>6, <3>1
    <3> QED
      BY SMT, <2>3, <3>2 DEF Argument
  <2>4. CASE Info = 26
    <3>1. at + 2 \in 1..Len(input) /\ (at + 2) + 3 <= Len(input)
      BY SMT, <1>1, <1>4, <2>4 DEF HeadLength, Width, InputOK
    <3>2. Quad(0, at + 2) \in Nat
      BY <1>7, <3>1
    <3> QED
      BY SMT, <2>4, <3>2 DEF Argument
  <2>5. CASE Info = 27
    <3>1. /\ at + 2 \in 1..Len(input) /\ (at + 2) + 3 <= Len(input)
          /\ at + 6 \in 1..Len(input) /\ (at + 6) + 3 <= Len(input)
      BY SMT, <1>1, <1>4, <2>5 DEF HeadLength, Width, InputOK
    <3>2. Quad(0, at + 2) \in Nat
      BY <1>7, <3>1
    <3>3. Quad(Quad(0, at + 2), at + 6) \in Nat
      BY <1>7, <3>1, <3>2
    <3> QED
      BY SMT, <2>5, <3>3 DEF Argument
  <2> QED
    BY SMT, <1>3, <2>1, <2>2, <2>3, <2>4, <2>5
<1> QED
  BY <1>4, <1>8

(* More read leaves a frame as good as it was. *)
LEMMA FrameStays ==
  ASSUME NEW frame, NEW length, NEW taken \in Nat, NEW later \in Nat, taken <= later,
         FrameOK(frame, length, taken)
  PROVE  FrameOK(frame, length, later)
  BY SMT DEF FrameOK

(* Reading on leaves the open items as they are. *)
LEMMA GiveKeeps ==
  ASSUME IInv, NEW value, NEW length \in Nat, length >= 1, at + length <= Len(input), Give(value, length),
         Reading
  PROVE  IInv' /\ Budget' < Budget
<1>1. /\ at' \in Nat /\ at' <= Len(input) /\ at < at' /\ at <= at' /\ Len(input) \in Nat /\ at \in Nat
      /\ input' = input /\ stack' = stack /\ depth' = depth /\ outcome' = outcome
  BY SMT DEF IInv, InputOK, Give
<1>2. InputOK'
  BY SMT, <1>1 DEF IInv, InputOK
<1>3. \A i \in 1..depth : FrameOK(stack[i], Len(input), at')
  BY Zenon, <1>1, FrameStays DEF IInv, StackOK
<1>4. StackOK'
  BY Zenon, <1>1, <1>3 DEF IInv, StackOK
<1>5. LoopsOpen'
  <2> SUFFICES ASSUME NEW i \in 1..depth PROVE stack[i].left > 0
    BY Zenon, <1>1 DEF LoopsOpen
  <2>1. i = depth => depth > 0
    BY SMT DEF IInv, StackOK
  <2> QED
    BY Zenon, <2>1 DEF IInv, LoopsOpen, Reading, Top
<1>6. Budget' < Budget
  BY SMT, <1>1 DEF IInv, StackOK, Budget, Reading, Give
<1> QED
  BY Zenon, <1>1, <1>2, <1>4, <1>5, <1>6 DEF IInv, Outcomes

(* A frame opened over its whole reservation. *)
LEMMA PushKeeps ==
  ASSUME IInv, NEW frame, NEW length \in Nat, length >= 1, at + length <= Len(input), Push(frame, length),
         depth <= MaxDepth, Reading, frame.from = at + length, FrameOK(frame, Len(input), at + length)
  PROVE  IInv' /\ Budget' < Budget
<1>1. /\ at' = at + length /\ at' \in Nat /\ at' <= Len(input) /\ at < at' /\ at <= at'
      /\ Len(input) \in Nat /\ at \in Nat /\ depth \in Nat
      /\ input' = input /\ item' = item /\ depth' = depth + 1 /\ outcome' = outcome
  BY SMT DEF IInv, InputOK, StackOK, Push
<1>2. InputOK'
  BY SMT, <1>1 DEF IInv, InputOK
<1>3. /\ DOMAIN stack' = 1..depth'
      /\ \A i \in 1..depth : stack'[i] = stack[i]
      /\ stack'[depth + 1] = frame
  BY SMT, <1>1 DEF Push
<1>4. \A i \in 1..depth : FrameOK(stack[i], Len(input), at')
  BY Zenon, <1>1, FrameStays DEF IInv, StackOK
<1>5. \A i \in 1..depth' : i \in 1..depth \/ i = depth + 1
  BY SMT, <1>1
<1>6. \A i \in 1..depth' : FrameOK(stack'[i], Len(input'), at')
  BY Zenon, <1>1, <1>3, <1>4, <1>5
<1>7. ASSUME NEW i \in 2..depth'
      PROVE  stack'[i - 1].from < stack'[i].from
  <2>1. CASE i \in 2..depth
    <3>1. i - 1 \in 1..depth /\ i \in 1..depth
      BY SMT, <1>1, <2>1
    <3> QED
      BY Zenon, <1>3, <2>1, <3>1 DEF IInv, StackOK
  <2>2. CASE i = depth + 1
    <3>1. depth \in 1..depth /\ i - 1 = depth
      BY SMT, <1>1, <2>2
    <3>2. stack[depth].from <= at /\ stack[depth].from \in Nat
      BY Zenon, <3>1 DEF IInv, StackOK, FrameOK
    <3>3. stack'[i - 1] = stack[depth] /\ stack'[i] = frame
      BY Zenon, <1>3, <2>2, <3>1
    <3>4. stack[depth].from < frame.from
      BY SMT, <1>1, <3>2
    <3> QED
      BY Zenon, <3>3, <3>4
  <2> QED
    BY SMT, <1>1, <2>1, <2>2
<1>8. depth' \in Nat /\ depth' <= MaxDepth + 1
  BY SMT, <1>1, BoundsAssumption
<1>9. StackOK'
  BY Zenon, <1>3, <1>6, <1>7, <1>8 DEF StackOK
<1>10. LoopsOpen'
  <2> SUFFICES ASSUME NEW i \in 1..depth', i # depth' \/ item # None PROVE stack'[i].left > 0
    BY Zenon, <1>1 DEF LoopsOpen
  <2>1. i \in 1..depth /\ stack'[i] = stack[i]
    BY Zenon, <1>1, <1>3, <1>5 DEF Reading
  <2>2. i = depth => depth > 0
    BY SMT, <1>1, <2>1
  <2> QED
    BY Zenon, <2>1, <2>2 DEF IInv, LoopsOpen, Reading, Top
<1>11. Budget' < Budget
  BY SMT, <1>1 DEF Budget, Reading
<1> QED
  BY Zenon, <1>1, <1>2, <1>9, <1>10, <1>11 DEF IInv, Outcomes

(* An item put into the innermost open one. *)
LEMMA RefillKeeps ==
  ASSUME IInv, NEW frame, Refill(frame), item # None, depth > 0,
         frame.from = Top.from, FrameOK(frame, Len(input), at)
  PROVE  IInv' /\ Budget' < Budget
<1>1. /\ Len(input) \in Nat /\ at \in Nat /\ depth \in Nat
      /\ input' = input /\ at' = at /\ depth' = depth /\ outcome' = outcome /\ item' = None
  BY SMT DEF IInv, InputOK, StackOK, Refill
<1>2. InputOK'
  BY SMT, <1>1 DEF IInv, InputOK
<1>3. /\ DOMAIN stack' = 1..depth
      /\ \A i \in 1..depth : i # depth => stack'[i] = stack[i]
      /\ stack'[depth] = frame
  BY SMT, <1>1 DEF Refill
<1>4. \A i \in 1..depth : FrameOK(stack'[i], Len(input), at)
  BY Zenon, <1>3 DEF IInv, StackOK
<1>5. \A i \in 1..depth : stack'[i].from = stack[i].from
  BY Zenon, <1>3 DEF Top
<1>6. ASSUME NEW i \in 2..depth
      PROVE  stack'[i - 1].from < stack'[i].from
  <2>1. i - 1 \in 1..depth /\ i \in 1..depth
    BY SMT, <1>1
  <2> QED
    BY Zenon, <1>5, <2>1 DEF IInv, StackOK
<1>7. StackOK'
  BY Zenon, <1>1, <1>3, <1>4, <1>6 DEF IInv, StackOK
<1>8. LoopsOpen'
  BY Zenon, <1>1, <1>3 DEF IInv, LoopsOpen
<1>9. Budget' < Budget
  BY SMT, <1>1 DEF Budget, IInv, Outcomes
<1> QED
  BY Zenon, <1>1, <1>2, <1>7, <1>8, <1>9 DEF IInv, Outcomes

(* The innermost open item closed. *)
LEMMA PopKeeps ==
  ASSUME IInv, NEW value, Pop(value), item = None, depth > 0
  PROVE  IInv' /\ Budget' < Budget
<1>1. /\ Len(input) \in Nat /\ at \in Nat /\ depth \in Nat /\ depth <= MaxDepth + 1
      /\ input' = input /\ at' = at /\ depth' = depth - 1 /\ outcome' = outcome
      /\ depth' \in Nat /\ depth' <= MaxDepth + 1
  BY SMT, BoundsAssumption DEF IInv, InputOK, StackOK, Pop
<1>2. InputOK'
  BY SMT, <1>1 DEF IInv, InputOK
<1>3. DOMAIN stack' = 1..depth' /\ \A i \in 1..depth' : i \in 1..depth /\ stack'[i] = stack[i]
  BY SMT, <1>1 DEF Pop
<1>4. \A i \in 1..depth' : FrameOK(stack'[i], Len(input), at)
  BY Zenon, <1>3 DEF IInv, StackOK
<1>5. ASSUME NEW i \in 2..depth'
      PROVE  stack'[i - 1].from < stack'[i].from
  <2>1. i - 1 \in 1..depth' /\ i \in 1..depth' /\ i \in 2..depth
    BY SMT, <1>1
  <2> QED
    BY Zenon, <1>3, <2>1 DEF IInv, StackOK
<1>6. StackOK'
  BY Zenon, <1>1, <1>3, <1>4, <1>5 DEF StackOK
<1>7. LoopsOpen'
  <2>1. \A i \in 1..depth' : i # depth
    BY SMT, <1>1
  <2> QED
    BY Zenon, <1>3, <2>1 DEF IInv, LoopsOpen
<1>8. Budget' < Budget
  BY SMT, <1>1 DEF Budget, Pop
<1> QED
  BY Zenon, <1>1, <1>2, <1>6, <1>7, <1>8 DEF IInv, Outcomes

(* The end, with or without an error. *)
LEMMA StopKeeps ==
  ASSUME IInv, NEW error \in {"ok", "malformed", "indefinite", "trailing", "duplicate_key"}, Stop(error),
         outcome = None
  PROVE  IInv' /\ Budget' < Budget
<1>1. /\ input' = input /\ at' = at /\ depth' = depth /\ stack' = stack /\ item' = item
      /\ outcome' = error
  BY Zenon DEF Stop
<1>2. IInv'
  BY Zenon, <1>1 DEF IInv, InputOK, StackOK, LoopsOpen, Outcomes
<1>3. outcome' # None
  BY Zenon, <1>1, NoneAssumption
<1>4. Len(input) \in Nat /\ at \in Nat /\ depth \in Nat
  BY SMT DEF IInv, InputOK, StackOK
<1>5. Budget' < Budget
  BY SMT, <1>1, <1>3, <1>4 DEF Budget
<1> QED
  BY <1>2, <1>5

-----------------------------------------------------------------------------
LEMMA InitEstablishes == Init => IInv
<1> SUFFICES ASSUME Init PROVE IInv
  OBVIOUS
<1>1. InputOK
  BY SMT, InputsAssumption DEF Init, InputOK
<1>2. StackOK
  BY SMT, BoundsAssumption DEF Init, StackOK, FrameOK
<1>3. LoopsOpen
  BY SMT DEF Init, LoopsOpen
<1> QED
  BY <1>1, <1>2, <1>3 DEF Init, IInv, Outcomes

(* The frame on top is as good with an item more. *)
LEMMA TopTakes ==
  ASSUME IInv, Held, NEW items
  PROVE  /\ FrameOK([Top EXCEPT !.items = items], Len(input), at)
         /\ FrameOK([Top EXCEPT !.items = items, !.left = Top.left - 1], Len(input), at)
         /\ [Top EXCEPT !.items = items].from = Top.from
         /\ [Top EXCEPT !.items = items, !.left = Top.left - 1].from = Top.from
<1>1. depth \in 1..depth
  BY SMT DEF IInv, StackOK, Held
<1>2. FrameOK(Top, Len(input), at)
  BY Zenon, <1>1 DEF IInv, StackOK, Top
<1>3. Top.left > 0
  BY Zenon, <1>1 DEF IInv, LoopsOpen, Held, Top
<1> QED
  BY SMT, <1>2, <1>3 DEF FrameOK

LEMMA StepKeeps ==
  ASSUME IInv, Next
  PROVE  IInv' /\ Budget' < Budget
<1>1. CASE RefuseDepth
  BY <1>1, StopKeeps DEF RefuseDepth, Reading
<1>2. CASE RefuseIndefinite
  BY <1>2, StopKeeps DEF RefuseIndefinite, Reading
<1>3. CASE RefuseHead
  BY <1>3, StopKeeps DEF RefuseHead, Reading
<1>4. CASE ReadSimple
  <2>1. HeadLength \in Nat /\ HeadLength >= 1 /\ at + HeadLength <= Len(input) /\ Reading
    BY <1>4, HeadFacts DEF IInv, ReadSimple, AtHead
  <2> QED
    BY <1>4, <2>1, GiveKeeps DEF ReadSimple
<1>5. CASE ReadNumber
  <2>1. HeadLength \in Nat /\ HeadLength >= 1 /\ at + HeadLength <= Len(input) /\ Reading
    BY <1>5, HeadFacts DEF IInv, ReadNumber, AtHead
  <2> QED
    BY <1>5, <2>1, GiveKeeps DEF ReadNumber
<1>6. CASE ReadString
  <2>1. /\ HeadLength \in Nat /\ HeadLength >= 1 /\ at + HeadLength <= Len(input) /\ Reading
        /\ Argument \in Nat /\ Argument <= Behind
    BY <1>6, HeadFacts DEF IInv, ReadString, StringIsWhole, AtHead
  <2>2. /\ HeadLength + Argument \in Nat /\ HeadLength + Argument >= 1
        /\ at + (HeadLength + Argument) <= Len(input)
    BY SMT, <2>1 DEF IInv, InputOK, Behind, Left
  <2> QED
    BY <1>6, <2>1, <2>2, GiveKeeps DEF ReadString
<1>7. CASE RefuseString
  BY <1>7, StopKeeps DEF RefuseString, AtHead, Reading
<1>8. CASE OpenContainer
  <2>1. /\ HeadLength \in Nat /\ HeadLength >= 1 /\ at + HeadLength <= Len(input) /\ Reading
        /\ Argument \in Nat /\ Argument <= Behind /\ depth <= MaxDepth
    BY <1>8, HeadFacts DEF IInv, OpenContainer, AtHead
  <2> DEFINE opens == IF Major = 4 THEN "array" ELSE "map"
             frame == Frame(opens, Argument)
  <2>2. Push(frame, HeadLength)
    BY <1>8 DEF OpenContainer
  <2>3. frame.from = at + HeadLength
    BY DEF Frame
  <2>5. opens \in {"array", "map", "tag"}
    OBVIOUS
  <2>6. FrameOK(frame, Len(input), at + HeadLength)
    <3>1. /\ at + HeadLength \in Nat /\ at + HeadLength <= at + HeadLength
          /\ Argument <= Len(input) - (at + HeadLength)
      BY SMT, <2>1 DEF IInv, InputOK, Behind, Left
    <3> QED
      BY SMT, <2>1, <2>5, <3>1 DEF FrameOK, Frame
  <2> QED
    BY <2>1, <2>2, <2>3, <2>6, PushKeeps
<1>9. CASE RefuseContainer
  BY <1>9, StopKeeps DEF RefuseContainer, AtHead, Reading
<1>10. CASE OpenTag
  <2>1. /\ HeadLength \in Nat /\ HeadLength >= 1 /\ at + HeadLength <= Len(input) /\ Reading
        /\ depth <= MaxDepth
    BY <1>10, HeadFacts DEF IInv, OpenTag, AtHead
  <2> DEFINE frame == [Frame("tag", 0) EXCEPT !.left = 1, !.items = <<Argument>>]
  <2>2. Push(frame, HeadLength)
    BY <1>10 DEF OpenTag
  <2>3. frame.from = at + HeadLength
    BY DEF Frame
  <2>5. FrameOK(frame, Len(input), at + HeadLength)
    <3>1. /\ at + HeadLength \in Nat /\ at + HeadLength <= at + HeadLength
          /\ 0 <= Len(input) - (at + HeadLength)
      BY SMT, <2>1 DEF IInv, InputOK
    <3> QED
      BY SMT, <3>1 DEF FrameOK, Frame
  <2> QED
    BY <2>1, <2>2, <2>3, <2>5, PushKeeps
<1>11. CASE AddElement
  BY <1>11, TopTakes, RefillKeeps DEF AddElement, Held
<1>12. CASE AddKey
  BY <1>12, TopTakes, RefillKeeps DEF AddKey, Held
<1>13. CASE AddEntry
  BY <1>13, TopTakes, RefillKeeps DEF AddEntry, Held
<1>14. CASE RefuseKey
  BY <1>14, StopKeeps DEF RefuseKey, Held
<1>15. CASE Close
  BY <1>15, PopKeeps DEF Close
<1>16. CASE Finish
  BY <1>16, StopKeeps DEF Finish
<1> QED
  BY <1>1, <1>2, <1>3, <1>4, <1>5, <1>6, <1>7, <1>8, <1>9, <1>10, <1>11, <1>12, <1>13, <1>14, <1>15,
     <1>16 DEF Next
-----------------------------------------------------------------------------
LEMMA Invariance == Spec => []IInv
<1>1. ASSUME IInv, [Next]_vars PROVE IInv'
  <2>1. CASE Next
    BY <1>1, <2>1, StepKeeps
  <2>2. CASE UNCHANGED vars
    BY Zenon, <1>1, <2>2 DEF vars, IInv, InputOK, StackOK, LoopsOpen, Outcomes
  <2> QED
    BY <1>1, <2>1, <2>2
<1> QED
  BY <1>1, InitEstablishes, PTL DEF Spec

LEMMA FramesGrow ==
  ASSUME IInv PROVE ReservedIsBacked
<1> SUFFICES ASSUME NEW i \in 1..depth
             PROVE  /\ stack[i].want <= Len(input) - stack[i].from /\ stack[i].from <= at
                    /\ i > 1 => stack[i - 1].from < stack[i].from
  BY Zenon DEF ReservedIsBacked
<1>1. i > 1 => i \in 2..depth
  BY SMT DEF IInv, StackOK
<1> QED
  BY Zenon, <1>1 DEF IInv, StackOK, FrameOK

(* Whatever arrives, of whatever length: the reader never opens more items    *)
(* than its limit, and stays within the input (the stack and the position of  *)
(* Reader::item).                                                             *)
THEOREM StaysInBounds == Spec => []TypeOK
<1>1. ASSUME IInv PROVE TypeOK
  <2>1. at \in 0..Len(input) /\ depth \in 0..(MaxDepth + 1) /\ DOMAIN stack = 1..depth
    BY SMT, <1>1, BoundsAssumption DEF IInv, InputOK, StackOK
  <2>2. ASSUME NEW i \in 1..depth
        PROVE  /\ stack[i].want \in Nat /\ stack[i].left \in Nat /\ stack[i].from \in 0..Len(input)
               /\ stack[i].opens \in {"array", "map", "tag"}
    <3>1. FrameOK(stack[i], Len(input), at)
      BY Zenon, <1>1 DEF IInv, StackOK
    <3>2. Len(input) \in Nat /\ at \in Nat /\ at <= Len(input)
      BY SMT, <1>1 DEF IInv, InputOK
    <3>3. stack[i].from \in Nat /\ stack[i].from <= at
      BY Zenon, <3>1 DEF FrameOK
    <3>4. stack[i].from \in 0..Len(input)
      BY SMT, <3>2, <3>3
    <3> QED
      BY Zenon, <3>1, <3>4 DEF FrameOK
  <2> QED
    BY Zenon, <1>1, <2>1, <2>2 DEF TypeOK, IInv, Outcomes
<1> QED
  BY <1>1, Invariance, PTL

(* No head makes the reader reserve more than the bytes that stand behind it  *)
(* (the length checks before Vec::with_capacity), for any input.              *)
THEOREM ReservationsAreBacked == Spec => []ReservedIsBacked
<1>1. IInv => ReservedIsBacked
  BY FramesGrow
<1> QED
  BY <1>1, Invariance, PTL

(* Every step of the reader lowers its budget, which starts at four for each  *)
(* byte and one: no input makes it run longer than its length pays for.       *)
THEOREM StepsArePaid == Spec => EveryStepIsPaid
<1>1. ASSUME IInv, [Next]_vars PROVE [Budget' < Budget]_vars
  BY <1>1, StepKeeps
<1> QED
  BY <1>1, Invariance, PTL DEF Spec, EveryStepIsPaid
=============================================================================
