------------------------ MODULE BlobAndMemoryProofs ------------------------
(***************************************************************************)
(* Proofs about the blob and about the memory a matcher has: the reads of  *)
(* the blob, for every blob, host and sequence of reads and seeks; the     *)
(* allocator, for every page size, address space, heap base and sequence   *)
(* of layouts; and the builder of the blob, for any number of calls of it. *)
(***************************************************************************)
EXTENDS CredentialReads, BumpAllocator, BlobBuilder, SequenceFacts, TLAPS

(* What the loop of credentials() has at its head. *)
Loop ==
  /\ phase = "idle" => delivered = 0
  /\ phase \in {"reading", "returned"} =>
       /\ Len(buffer) = Size /\ delivered <= Size
       /\ \A i \in 1..Size : i <= delivered => buffer[i] = blob[i]
  /\ phase = "returned" => delivered >= Size

(* The contract is either kept, and no call traps, or broken, and none       *)
(* counts.                                                                   *)
Belief ==
  /\ answers = "short" => phase # "trapped"
  /\ answers # "short" => delivered = 0 /\ out = << >>

Inv == TypeOK /\ Loop /\ Belief

-----------------------------------------------------------------------------
LEMMA BlobType ==
  ASSUME TypeOK
  PROVE  blob \in Seq(Byte) /\ Size \in Nat /\ Size <= MaxUsize
BY ReadsAssumption DEF TypeOK, Size

(* Before the end, an honest answer passes the three assertions and no other *)
(* one does.                                                                 *)
LEMMA TrustedIffHonest ==
  ASSUME TypeOK, NEW offset \in Nat, offset < Size, NEW asked \in Nat, asked > 0,
         NEW answer \in Answer(offset, asked)
  PROVE  /\ Trusted(answer, offset, asked) <=> answers = "short"
         /\ answers = "short" => /\ answer.copied = answer.reported
                                 /\ answer.reported \in 1..asked
                                 /\ answer.reported <= Size - offset
         /\ answers # "short" => answer.copied \in 0..(Size - offset)
<1>0. Size \in Nat
  BY BlobType
<1> DEFINE most == Minimum(asked, Size - offset)
<1>1. most \in Nat /\ most > 0 /\ most <= asked /\ most <= Size - offset
      /\ (most = asked \/ most = Size - offset)
  BY <1>0 DEF Minimum
<1>2. Answer(offset, asked) =
        CASE answers = "short" -> {[copied |-> n, reported |-> n] : n \in 1..most}
          [] answers = "over"  -> {[copied |-> most, reported |-> most + 1]}
          [] answers = "stall" -> {[copied |-> 0, reported |-> 0]}
  <2> HIDE DEF most
  <2>1. (IF most = 0 THEN {0} ELSE 1..most) = 1..most
    BY <1>1
  <2> QED BY <1>0, <2>1 DEF Answer, most
<1> HIDE DEF most
<1>3. CASE answers = "short"
  <2>1. PICK n \in 1..most : answer = [copied |-> n, reported |-> n]
    BY <1>2, <1>3
  <2> QED BY <1>0, <1>1, <1>3, <2>1 DEF Trusted
<1>4. CASE answers = "over"
  <2>1. answer = [copied |-> most, reported |-> most + 1]
    BY <1>2, <1>4
  <2> QED BY <1>0, <1>1, <1>4, <2>1 DEF Trusted
<1>5. CASE answers = "stall"
  <2>1. answer = [copied |-> 0, reported |-> 0]
    BY <1>2, <1>5
  <2> QED BY <1>0, <1>1, <1>5, <2>1 DEF Trusted
<1> QED BY <1>3, <1>4, <1>5 DEF TypeOK

-----------------------------------------------------------------------------
LEMMA Initially == Init => Inv
<1> SUFFICES ASSUME Init PROVE Inv
  OBVIOUS
<1> QED BY ReadsAssumption DEF Init, Inv, TypeOK, Loop, Belief

LEMMA CredentialsStep ==
  ASSUME Inv, Credentials
  PROVE  Inv'
<1>1. Size \in Nat /\ Size' = Size
  BY BlobType DEF Inv, Credentials, Size
<1>2. buffer' \in Seq(Byte \cup {Zero}) /\ Len(buffer') = Size
  BY <1>1 DEF Credentials
<1> QED BY <1>1, <1>2 DEF Inv, TypeOK, Loop, Belief, Credentials, stream

LEMMA ReadRestStep ==
  ASSUME Inv, ReadRest
  PROVE  Inv'
<1> DEFINE asked == Len(buffer) - delivered
<1>1. /\ phase = "reading" /\ Len(buffer) = Size /\ delivered \in Nat /\ delivered < Size
      /\ asked \in Nat /\ asked > 0
      /\ blob \in Seq(Byte) /\ Size \in Nat
  BY BlobType DEF Inv, TypeOK, Loop, ReadRest
<1>2. PICK answer \in Answer(delivered, asked) :
        /\ buffer' = [i \in DOMAIN buffer |->
                        IF i \in (delivered + 1)..(delivered + answer.copied)
                        THEN blob[delivered + (i - delivered)] ELSE buffer[i]]
        /\ IF Trusted(answer, delivered, asked)
           THEN delivered' = delivered + answer.reported /\ UNCHANGED phase
           ELSE phase' = "trapped" /\ UNCHANGED delivered
  BY DEF ReadRest, ReadFrom
<1>3. UNCHANGED <<blob, answers, position, out>>
  BY DEF ReadRest, stream
<1>4. /\ Trusted(answer, delivered, asked) <=> answers = "short"
      /\ answers = "short" => /\ answer.copied = answer.reported
                              /\ answer.reported \in 1..asked
                              /\ answer.reported <= Size - delivered
      /\ answers # "short" => answer.copied \in 0..(Size - delivered)
  <2> HIDE DEF asked
  <2> QED BY <1>1, TrustedIffHonest DEF Inv
<1>5. answer.copied \in 0..(Size - delivered)
  BY <1>1, <1>4
<1>6. buffer' \in Seq(Byte \cup {Zero}) /\ Len(buffer') = Size
  <2>1. buffer \in Seq(Byte \cup {Zero}) /\ DOMAIN buffer = 1..Size
    BY <1>1 DEF Inv, TypeOK
  <2>2. \A i \in 1..Size : buffer'[i] \in Byte \cup {Zero}
    <3> SUFFICES ASSUME NEW i \in 1..Size PROVE buffer'[i] \in Byte \cup {Zero}
      OBVIOUS
    <3>1. buffer[i] \in Byte \cup {Zero} /\ blob[i] \in Byte
      BY <1>1, <2>1 DEF Size
    <3>2. delivered + (i - delivered) = i
      BY <1>1
    <3> QED BY <1>2, <2>1, <3>1, <3>2
  <2>3. buffer' \in [1..Size -> Byte \cup {Zero}]
    BY <1>2, <2>1, <2>2
  <2> QED BY <1>1, <2>3
<1>7. CASE answers = "short"
  <2>1. delivered' = delivered + answer.reported /\ phase' = "reading"
    BY <1>1, <1>2, <1>4, <1>7
  <2>2. \A i \in 1..Size : i <= delivered' => buffer'[i] = blob[i]
    <3> SUFFICES ASSUME NEW i \in 1..Size, i <= delivered'
                 PROVE  buffer'[i] = blob[i]
      OBVIOUS
    <3>1. i \in DOMAIN buffer
      BY <1>1 DEF Inv, TypeOK
    <3>2. CASE i <= delivered
      <4>1. buffer'[i] = buffer[i]
        BY <1>1, <1>2, <1>5, <3>1, <3>2
      <4>2. buffer[i] = blob[i]
        BY <1>1, <3>2 DEF Inv, Loop
      <4> QED BY <4>1, <4>2
    <3>3. CASE i > delivered
      <4>1. i \in (delivered + 1)..(delivered + answer.copied)
        BY <1>1, <1>4, <1>7, <2>1, <3>3
      <4>2. delivered + (i - delivered) = i
        BY <1>1
      <4> QED BY <1>2, <3>1, <4>1, <4>2
    <3> QED BY <1>1, <3>2, <3>3
  <2> QED BY <1>1, <1>3, <1>4, <1>6, <1>7, <2>1, <2>2
          DEF Inv, TypeOK, Loop, Belief, Size
<1>8. CASE answers # "short"
  <2>1. phase' = "trapped" /\ delivered' = delivered
    BY <1>2, <1>4, <1>8
  <2> QED BY <1>1, <1>3, <1>6, <1>8, <2>1 DEF Inv, TypeOK, Loop, Belief, Size
<1> QED BY <1>7, <1>8

(* A read between two calls of the loop: its whole effect.                   *)
LEMMA ReadEffect ==
  ASSUME Inv, NEW asked \in OutLength, Read(asked)
  PROVE  /\ UNCHANGED <<blob, answers, buffer, delivered>>
         /\ \/ phase' = phase /\ HandsOver(asked) /\ answers = "short"
            \/ phase' = phase /\ HandsOver(asked) /\ out' = << >>
            \/ phase' = "trapped" /\ answers # "short" /\ UNCHANGED <<position, out>>
<1>1. blob \in Seq(Byte) /\ Size \in Nat /\ Size <= MaxUsize /\ asked \in Nat
      /\ position \in Nat /\ MaxUsize \in Nat
  BY BlobType, ReadsAssumption DEF Inv, TypeOK
<1>2. UNCHANGED <<blob, answers, buffer, delivered>>
  BY DEF Read
<1>3. CASE position > MaxUsize \/ position >= Size \/ asked = 0
  <2>1. out' = << >> /\ position' = position /\ phase' = phase
    BY <1>3 DEF Read
  <2>2. Len(out') = 0 /\ position' = position + Len(out')
    BY <1>1, <2>1
  <2>3. SubSeq(blob, position + 1, position + Len(out')) = << >>
    BY <1>1, <2>2
  <2>4. HandsOver(asked)
    <3>1. position < Size /\ asked > 0 => FALSE
      BY <1>1, <1>3
    <3> QED BY <1>1, <2>1, <2>2, <2>3, <3>1 DEF HandsOver
  <2> QED BY <1>2, <2>1, <2>4
<1>4. CASE ~(position > MaxUsize \/ position >= Size \/ asked = 0)
  <2>0. position < Size /\ asked > 0
    BY <1>1, <1>4
  <2>1. PICK answer \in Answer(position, asked) :
          IF Trusted(answer, position, asked)
          THEN /\ out' = [i \in 1..answer.reported |->
                            IF i <= answer.copied THEN blob[position + i] ELSE Zero]
               /\ position' = position + answer.reported
               /\ UNCHANGED phase
          ELSE phase' = "trapped" /\ UNCHANGED <<position, out>>
    BY <1>4 DEF Read, Advance
  <2>2. /\ Trusted(answer, position, asked) <=> answers = "short"
        /\ answers = "short" => /\ answer.copied = answer.reported
                                /\ answer.reported \in 1..asked
                                /\ answer.reported <= Size - position
    BY <1>1, <2>0, TrustedIffHonest DEF Inv
  <2>3. CASE answers = "short"
    <3> DEFINE n == answer.reported
    <3>1. /\ n \in 1..asked /\ n <= Size - position /\ answer.copied = n
          /\ position' = position + n /\ phase' = phase
          /\ out' = [i \in 1..n |-> IF i <= n THEN blob[position + i] ELSE Zero]
      BY <2>1, <2>2, <2>3
    <3> HIDE DEF n
    <3>2. out' = [i \in 1..n |-> blob[position + i]]
      BY <1>1, <3>1
    <3>3. Len(out') = n
      BY <1>1, <3>1, <3>2
    <3>4. out' # << >>
      BY <1>1, <3>1, <3>3
    <3>5. SubSeq(blob, position + 1, position + n) = [i \in 1..n |-> blob[position + i]]
      <4>1. SubSeq(blob, position + 1, position + n)
              = [i \in 1..(position + n - (position + 1) + 1) |-> blob[position + 1 + i - 1]]
        BY <1>1, <3>1 DEF Size
      <4>2. position + n - (position + 1) + 1 = n
        BY <1>1, <3>1
      <4>3. \A i \in 1..n : position + 1 + i - 1 = position + i
        BY <1>1, <3>1
      <4> QED BY <4>1, <4>2, <4>3
    <3>6. HandsOver(asked)
      <4>1. position' = position + Len(out') /\ Len(out') <= asked
        BY <1>1, <3>1, <3>3
      <4>2. out' = SubSeq(blob, position + 1, position + Len(out'))
        BY <3>2, <3>3, <3>5
      <4> QED BY <3>4, <4>1, <4>2 DEF HandsOver
    <3> QED BY <1>2, <2>3, <3>1, <3>6
  <2>4. CASE answers # "short"
    BY <1>2, <2>1, <2>2, <2>4
  <2> QED BY <2>3, <2>4
<1> QED BY <1>3, <1>4

LEMMA ReadStep ==
  ASSUME Inv, NEW asked \in OutLength, Read(asked)
  PROVE  Inv'
<1>1. blob \in Seq(Byte) /\ Size \in Nat /\ asked \in Nat /\ position \in Nat
      /\ Size <= MaxPosition /\ MaxPosition \in Nat /\ DOMAIN blob = 1..Size
  BY BlobType, ReadsAssumption DEF Inv, TypeOK, Size
<1>2. phase \in {"idle", "returned"}
  BY DEF Read, Free
<1>3. UNCHANGED <<blob, answers, buffer, delivered>>
  BY ReadEffect
<1>4. CASE phase' = phase /\ HandsOver(asked)
  <2> DEFINE n == Len(out')
  <2>1. out' \in Seq(Byte \cup {Zero}) /\ position' \in 0..MaxPosition
    <3>1. CASE position > MaxUsize \/ position >= Size \/ asked = 0
      <4>1. out' = << >> /\ position' = position
        BY <3>1 DEF Read
      <4>2. << >> \in Seq(Byte \cup {Zero})
        OBVIOUS
      <4> QED BY <4>1, <4>2 DEF Inv, TypeOK
    <3>2. CASE ~(position > MaxUsize \/ position >= Size \/ asked = 0)
      <4>0. position < Size /\ asked > 0
        BY <1>1, <3>2
      <4>1. PICK answer \in Answer(position, asked) :
              IF Trusted(answer, position, asked)
              THEN /\ out' = [i \in 1..answer.reported |->
                                IF i <= answer.copied THEN blob[position + i] ELSE Zero]
                   /\ position' = position + answer.reported
              ELSE UNCHANGED <<position, out>>
        BY <3>2 DEF Read, Advance
      <4>2. CASE Trusted(answer, position, asked)
        <5>1. answer.copied = answer.reported /\ answer.reported \in 1..asked
              /\ answer.reported <= Size - position
          BY <1>1, <4>0, <4>2, TrustedIffHonest DEF Inv
        <5>2. \A i \in 1..answer.reported : blob[position + i] \in Byte
          BY <1>1, <5>1
        <5>3. out' \in [1..answer.reported -> Byte \cup {Zero}]
          BY <4>1, <4>2, <5>2
        <5>4. out' \in Seq(Byte \cup {Zero})
          BY <1>1, <5>1, <5>3
        <5> QED BY <1>1, <4>1, <4>2, <5>1, <5>4
      <4>3. CASE ~Trusted(answer, position, asked)
        BY <4>1, <4>3 DEF Inv, TypeOK
      <4> QED BY <4>2, <4>3
    <3> QED BY <3>1, <3>2
  <2>2. answers # "short" => out' = << >>
    BY ReadEffect DEF Inv, Belief
  <2> QED BY <1>2, <1>3, <1>4, <2>1, <2>2 DEF Inv, TypeOK, Loop, Belief, Size
<1>5. CASE phase' = "trapped" /\ answers # "short" /\ UNCHANGED <<position, out>>
  BY <1>3, <1>5 DEF Inv, TypeOK, Loop, Belief, Size
<1> QED BY <1>4, <1>5, ReadEffect

LEMMA SeekStep ==
  ASSUME Inv, NEW target, Seek(target)
  PROVE  Inv'
BY DEF Inv, TypeOK, Loop, Belief, Size, Seek, whole

LEMMA Inductive == Inv /\ [Next]_vars => Inv'
<1> SUFFICES ASSUME Inv, [Next]_vars PROVE Inv'
  OBVIOUS
<1>1. CASE Credentials
  BY <1>1, CredentialsStep
<1>2. CASE ReadRest
  BY <1>2, ReadRestStep
<1>3. CASE Return
  BY <1>3 DEF Return, Inv, TypeOK, Loop, Belief, Size, stream
<1>4. CASE Stream
  BY <1>4, ReadStep, SeekStep DEF Stream
<1>5. CASE UNCHANGED vars
  BY <1>5 DEF vars, whole, stream, Inv, TypeOK, Loop, Belief, Size
<1> QED BY <1>1, <1>2, <1>3, <1>4, <1>5 DEF Next

(* The variables keep their types: the position stays a u64 though it is     *)
(* added to unchecked (reader.rs: `self.position += copied as u64`).         *)
THEOREM ReadsTypeCorrect == Spec => []TypeOK
<1>1. Spec => []Inv
  BY Initially, Inductive, PTL DEF Spec
<1> QED BY <1>1, PTL DEF Inv

(* Whatever blob the wallet registered and however the host slices it,       *)
(* credentials() returns that blob.                                          *)
THEOREM BlobIsWhole == Spec => []ReturnsTheBlob
<1>1. Inv => ReturnsTheBlob
  <2> SUFFICES ASSUME Inv, phase = "returned" PROVE buffer = blob
    BY DEF ReturnsTheBlob
  <2>1. blob \in Seq(Byte) /\ buffer \in Seq(Byte \cup {Zero}) /\ Len(buffer) = Len(blob)
    BY BlobType DEF Inv, TypeOK, Loop, Size
  <2>2. \A i \in 1..Len(blob) : buffer[i] = blob[i]
    BY BlobType DEF Inv, TypeOK, Loop, Size
  <2> QED BY <2>1, <2>2
<1> QED BY <1>1, Initially, Inductive, PTL DEF Spec

(* No read or seek sequence traps under a host that keeps the contract.      *)
THEOREM HonestHostIsServed == Spec => []HonestHostNeverTraps
<1>1. Inv => HonestHostNeverTraps
  BY DEF Inv, Belief, HonestHostNeverTraps
<1> QED BY <1>1, Initially, Inductive, PTL DEF Spec

(* No byte of a host that breaks the contract reaches the matcher.           *)
THEOREM BrokenHostIsRefused == Spec => []BrokenHostIsNotBelieved
<1>1. Inv => BrokenHostIsNotBelieved
  <2> SUFFICES ASSUME Inv, answers # "short", phase = "returned" PROVE blob = << >>
    BY DEF Inv, Belief, BrokenHostIsNotBelieved
  <2>1. Len(blob) = 0 /\ blob \in Seq(Byte)
    BY BlobType DEF Inv, Loop, Belief, Size
  <2> QED BY <2>1
<1> QED BY <1>1, Initially, Inductive, PTL DEF Spec

(* Every read hands over the next bytes of the blob.                         *)
THEOREM ReadsHandOverInOrder == Spec => ReadsAreInOrder
<1>1. Inv /\ [Next]_vars =>
        [\A asked \in OutLength : Read(asked) => phase' = "trapped" \/ HandsOver(asked)]_vars
  BY ReadEffect
<1> QED BY <1>1, Initially, Inductive, PTL DEF Spec, ReadsAreInOrder

-----------------------------------------------------------------------------
(* The allocator. *)

LEMMA DivisionTheorem ==
  ASSUME NEW n \in Nat, NEW d \in Nat \ {0}
  PROVE  /\ n \div d \in Nat /\ n % d \in 0..(d - 1)
         /\ n = d * (n \div d) + (n % d)
<1>1. n % d \in 0..(d - 1)
  OBVIOUS
<1>2. n - (n % d) = d * (n \div d)
  OBVIOUS
<1>3. n \div d \in Int /\ d * (n \div d) \in Int
  OBVIOUS
<1>4. ASSUME NEW q \in Int, NEW r \in 0..(d - 1), n = d * q + r PROVE q >= 0
  <2> SUFFICES ASSUME q <= -1 PROVE FALSE
    BY <1>4
  <2>1. d * q <= -d
    OBVIOUS
  <2> DEFINE product == d * q
  <2>2. product \in Int /\ product <= -d /\ n = product + r
    BY <1>4, <2>1
  <2> HIDE DEF product
  <2> QED BY <2>2
<1>5. n = d * (n \div d) + (n % d)
  BY <1>1, <1>2, <1>3
<1>6. n \div d >= 0
  <2> DEFINE quotient == n \div d
             rest == n % d
  <2>1. quotient \in Int /\ rest \in 0..(d - 1) /\ n = d * quotient + rest
    BY <1>1, <1>3, <1>5
  <2> HIDE DEF quotient, rest
  <2>2. quotient >= 0
    BY <1>4, <2>1
  <2> QED BY <2>2 DEF quotient
<1> QED BY <1>1, <1>3, <1>5, <1>6

LEMMA MultipleHasNoRemainder ==
  ASSUME NEW q \in Nat, NEW d \in Nat \ {0}
  PROVE  (d * q) % d = 0
OBVIOUS

(* Rounding up stays within one alignment and gives a multiple of it.       *)
LEMMA AlignUpFacts ==
  ASSUME NEW addr \in Nat, NEW align \in Nat \ {0}
  PROVE  /\ AlignUp(addr, align) \in Nat
         /\ addr <= AlignUp(addr, align)
         /\ AlignUp(addr, align) <= addr + (align - 1)
         /\ AlignUp(addr, align) % align = 0
<1> DEFINE sum == addr + (align - 1)
<1>1. sum \in Nat
  OBVIOUS
<1>2. /\ sum \div align \in Nat /\ sum % align \in 0..(align - 1)
      /\ sum = align * (sum \div align) + (sum % align)
  <2> HIDE DEF sum
  <2> QED BY <1>1, DivisionTheorem
<1>3. AlignUp(addr, align) = sum - (sum % align)
  BY DEF AlignUp
<1>4. addr <= AlignUp(addr, align) /\ AlignUp(addr, align) <= sum /\ AlignUp(addr, align) \in Nat
  BY <1>1, <1>2, <1>3
<1>5. AlignUp(addr, align) = align * (sum \div align)
  <2> HIDE DEF sum
  <2> QED BY <1>1, <1>2, <1>3
<1> QED BY <1>2, <1>4, <1>5, MultipleHasNoRemainder

(* Enough pages for the bytes, and the last of them not for nothing.        *)
LEMMA PagesForFacts ==
  ASSUME NEW bytes \in Nat \ {0}
  PROVE  /\ PagesFor(bytes) \in Nat \ {0}
         /\ bytes <= PagesFor(bytes) * PAGE_SIZE
         /\ (PagesFor(bytes) - 1) * PAGE_SIZE < bytes
<1> DEFINE sum == bytes + (PAGE_SIZE - 1)
           q == sum \div PAGE_SIZE
<1>0. PAGE_SIZE \in Nat \ {0}
  BY MemoryAssumption
<1>1. sum \in Nat /\ sum >= PAGE_SIZE
  BY <1>0
<1>2. q \in Nat /\ sum % PAGE_SIZE \in 0..(PAGE_SIZE - 1)
      /\ sum = PAGE_SIZE * q + (sum % PAGE_SIZE)
  <2> HIDE DEF sum
  <2> QED BY <1>0, <1>1, DivisionTheorem
<1>3. PagesFor(bytes) = q
  BY DEF PagesFor
<1>4. PAGE_SIZE * q <= sum /\ sum < PAGE_SIZE * q + PAGE_SIZE
  <2> HIDE DEF sum, q
  <2> QED BY <1>0, <1>1, <1>2
<1>5. q # 0
  <2> HIDE DEF sum, q
  <2> QED BY <1>0, <1>1, <1>4
<1>6. (q - 1) * PAGE_SIZE = PAGE_SIZE * q - PAGE_SIZE /\ q * PAGE_SIZE = PAGE_SIZE * q
  <2> HIDE DEF q
  <2> QED BY <1>0, <1>2
<1> DEFINE product == PAGE_SIZE * q
<1>7. product \in Nat /\ product <= sum /\ sum < product + PAGE_SIZE
      /\ q * PAGE_SIZE = product /\ (q - 1) * PAGE_SIZE = product - PAGE_SIZE
  BY <1>0, <1>2, <1>4, <1>6
<1>8. bytes <= product /\ product - PAGE_SIZE < bytes
  <2> HIDE DEF product
  <2> QED BY <1>0, <1>7
<1> QED BY <1>2, <1>3, <1>5, <1>7, <1>8

-----------------------------------------------------------------------------
(* The bump pointer separates what was handed out from what is free, and the *)
(* memory reaches at least up to it.                                         *)
Heap ==
  /\ memory >= InitialPages
  /\ NEXT_ADDR = 0 => used = {} /\ memory = InitialPages
  /\ NEXT_ADDR # 0 => /\ CURRENT_PAGES = memory
                      /\ HeapBase <= NEXT_ADDR /\ NEXT_ADDR <= memory * PAGE_SIZE
  /\ \A a \in used : HeapBase <= a /\ a < NEXT_ADDR
  /\ memory > InitialPages => (memory - 1) * PAGE_SIZE < NEXT_ADDR

AllocInv == AllocTypeOK /\ Heap

LEMMA Bytes ==
  ASSUME NEW pages \in 0..AddressPages
  PROVE  /\ MaxAddress \in Nat /\ pages * PAGE_SIZE \in 0..(MaxAddress + 1)
         /\ Limit(pages) \in 0..MaxAddress
         /\ Limit(pages) <= pages * PAGE_SIZE
         /\ pages * PAGE_SIZE <= MaxAddress => Limit(pages) = pages * PAGE_SIZE
         /\ pages * PAGE_SIZE > MaxAddress => Limit(pages) = MaxAddress
<1>1. PAGE_SIZE \in Nat \ {0} /\ AddressPages \in Nat \ {0} /\ pages \in Nat
  BY MemoryAssumption
<1> DEFINE all == AddressPages * PAGE_SIZE
           some == pages * PAGE_SIZE
<1>2. all \in Nat /\ all >= 1 /\ some \in Nat
  BY <1>1
<1>3. some <= all
  <2>1. PICK k \in Nat : AddressPages = pages + k
    <3>1. AddressPages - pages \in Nat /\ AddressPages = pages + (AddressPages - pages)
      BY <1>1
    <3> QED BY <3>1
  <2>2. AddressPages * PAGE_SIZE = pages * PAGE_SIZE + k * PAGE_SIZE /\ k * PAGE_SIZE \in Nat
    BY <1>1, <2>1
  <2> QED BY <1>2, <2>2
<1>4. MaxAddress = all - 1
  BY DEF MaxAddress
<1>5. Limit(pages) = IF some <= MaxAddress THEN some ELSE MaxAddress
  BY DEF Limit
<1> HIDE DEF all, some
<1>6. /\ MaxAddress \in Nat /\ some \in 0..(MaxAddress + 1)
      /\ Limit(pages) \in 0..MaxAddress
      /\ Limit(pages) <= some
      /\ some <= MaxAddress => Limit(pages) = some
      /\ some > MaxAddress => Limit(pages) = MaxAddress
  BY <1>2, <1>3, <1>4, <1>5
<1> QED BY <1>6 DEF some

(* Where an allocation starts to look, in a state the allocator can be in.   *)
LEMMA Start ==
  ASSUME AllocInv
  PROVE  /\ NextAddr \in Nat \ {0} /\ HeapBase <= NextAddr /\ HeapBase \in Nat
         /\ NextAddr <= memory * PAGE_SIZE
         /\ Pages = memory /\ memory \in 0..AddressPages
         /\ \A a \in used : a \in Nat /\ HeapBase <= a /\ a < NextAddr
         /\ NEXT_ADDR # 0 => NextAddr = NEXT_ADDR
<1>1. /\ HeapBase \in Nat \ {0} /\ HeapBase <= InitialPages * PAGE_SIZE
      /\ memory * PAGE_SIZE \in Nat
  BY MemoryAssumption, Bytes DEF AllocInv, AllocTypeOK
<1>2. MaxAddress \in Nat
  BY Bytes DEF AllocInv, AllocTypeOK
<1>3. CASE NEXT_ADDR = 0
  BY <1>1, <1>3 DEF AllocInv, AllocTypeOK, Heap, NextAddr, Pages
<1>4. CASE NEXT_ADDR # 0
  <2>1. NextAddr = NEXT_ADDR /\ Pages = CURRENT_PAGES /\ NEXT_ADDR \in Nat
    BY <1>4 DEF NextAddr, Pages, AllocInv, AllocTypeOK
  <2>2. used \subseteq Nat
    BY DEF AllocInv, AllocTypeOK
  <2> QED BY <1>1, <1>4, <2>1, <2>2 DEF AllocInv, AllocTypeOK, Heap
<1> QED BY <1>3, <1>4

(* Handing out a block at or past the pointer, inside the memory.            *)
LEMMA GrantKeeps ==
  ASSUME AllocInv, NEW at \in Nat, NEW end \in 0..MaxAddress, NextAddr <= at, at < end,
         memory' \in 0..AddressPages, memory' >= memory,
         end <= memory' * PAGE_SIZE,
         memory' > InitialPages => (memory' - 1) * PAGE_SIZE < end,
         Grant(at, end, memory')
  PROVE  AllocInv'
<1>1. /\ NextAddr \in Nat \ {0} /\ HeapBase <= NextAddr /\ HeapBase \in Nat
      /\ \A a \in used : a \in Nat /\ HeapBase <= a /\ a < NextAddr
      /\ memory \in Nat /\ memory' \in Nat
      /\ MaxAddress \in Nat /\ InitialPages \in Nat
  BY Start, Bytes, MemoryAssumption DEF AllocInv, AllocTypeOK
<1>2. /\ address' = at /\ NEXT_ADDR' = end /\ CURRENT_PAGES' = memory'
      /\ used' = used \cup (at..(end - 1))
  BY DEF Grant
<1>3. \A a \in used' : a \in Nat /\ HeapBase <= a /\ a < end
  BY <1>1, <1>2
<1>4. used' \subseteq 0..MaxAddress
  BY <1>1, <1>3
<1>5. AllocTypeOK'
  BY <1>2, <1>4 DEF AllocTypeOK
<1>6. end # 0
  BY <1>1
<1>7. memory' >= InitialPages
  BY <1>1 DEF AllocInv, Heap
<1>8. Heap'
  BY <1>1, <1>2, <1>3, <1>6, <1>7 DEF Heap
<1> QED BY <1>5, <1>8 DEF AllocInv

LEMMA RefuseKeeps ==
  ASSUME AllocInv, Refuse
  PROVE  AllocInv'
<1>1. Pages = memory /\ memory \in 0..AddressPages
  BY Start
<1> QED BY <1>1 DEF AllocInv, AllocTypeOK, Heap, Refuse

(* What one call does.                                                       *)
LEMMA AllocEffect ==
  ASSUME AllocInv, NEW size \in LayoutSize, NEW align \in LayoutAlign, Alloc(size, align)
  PROVE  \/ /\ Refuse
            /\ \/ Overflows(size, align)
               \/ AlignUp(NextAddr, align) + size > memory * PAGE_SIZE
         \/ /\ ~Overflows(size, align)
            /\ Grant(AlignUp(NextAddr, align), AlignUp(NextAddr, align) + size, memory')
            /\ memory' \in 0..AddressPages /\ memory' >= memory
            /\ AlignUp(NextAddr, align) + size <= memory' * PAGE_SIZE
            /\ memory' > InitialPages =>
                 (memory' - 1) * PAGE_SIZE < AlignUp(NextAddr, align) + size
<1> DEFINE at == AlignUp(NextAddr, align)
           end == at + size
           have == memory * PAGE_SIZE
<1>1. /\ size \in Nat \ {0} /\ align \in Nat \ {0} /\ PAGE_SIZE \in Nat \ {0}
      /\ NextAddr \in Nat \ {0} /\ Pages = memory /\ memory \in 0..AddressPages
      /\ AddressPages \in Nat /\ InitialPages \in Nat
  BY Start, MemoryAssumption
<1>2. at \in Nat /\ NextAddr <= at /\ end \in Nat /\ at < end
  <2>1. at \in Nat /\ NextAddr <= at
    BY <1>1, AlignUpFacts
  <2> HIDE DEF at
  <2> QED BY <1>1, <2>1
<1>3. /\ MaxAddress \in Nat /\ have \in 0..(MaxAddress + 1)
      /\ Limit(memory) \in 0..MaxAddress /\ Limit(memory) <= have
      /\ have <= MaxAddress => Limit(memory) = have
      /\ have > MaxAddress => Limit(memory) = MaxAddress
  BY <1>1, Bytes
<1>4. CASE Overflows(size, align) /\ Refuse
  BY <1>4
<1>5. CASE /\ ~Overflows(size, align) /\ end <= Limit(memory)
           /\ Grant(at, end, memory) /\ UNCHANGED memory
  <2>1. end <= memory' * PAGE_SIZE
    <3> HIDE DEF at, end
    <3>1. end <= have
      BY <1>2, <1>3, <1>5
    <3> QED BY <1>5, <3>1
  <2>2. memory' > InitialPages => (memory' - 1) * PAGE_SIZE < end
    <3> SUFFICES ASSUME memory > InitialPages PROVE (memory - 1) * PAGE_SIZE < end
      BY <1>5
    <3> DEFINE below == (memory - 1) * PAGE_SIZE
    <3>1. below \in Int /\ below < NEXT_ADDR /\ NEXT_ADDR \in Nat
      BY <1>1 DEF AllocInv, Heap, AllocTypeOK
    <3>2. NEXT_ADDR # 0
      BY DEF AllocInv, Heap, AllocTypeOK
    <3>3. NextAddr = NEXT_ADDR
      BY <3>2, Start
    <3> HIDE DEF at, end, below
    <3>4. below < end
      BY <1>1, <1>2, <3>1, <3>3
    <3> QED BY <3>4 DEF below
  <2> QED BY <1>1, <1>5, <2>1, <2>2
<1>6. CASE ~Overflows(size, align) /\ end > Limit(memory)
  <2>1. end <= MaxAddress
    BY <1>2, <1>3, <1>6 DEF Overflows
  <2>2. have <= MaxAddress /\ Limit(memory) = have /\ end > have
    <3> HIDE DEF at, end, have
    <3> QED BY <1>2, <1>3, <1>6, <2>1
  <2>3. CASE Refuse
    BY <2>2, <2>3
  <2> DEFINE needed == PagesFor(end - Limit(memory))
  <2>4. CASE /\ memory + needed <= AddressPages
             /\ memory' = memory + needed
             /\ Grant(at, end, memory + needed)
    <3> DEFINE missing == end - have
    <3>1. missing \in Nat \ {0} /\ end = have + missing
      <4> HIDE DEF at, end, have
      <4> QED BY <1>2, <1>3, <2>2
    <3>2. needed = PagesFor(missing)
      BY <2>2
    <3>3. /\ needed \in Nat \ {0} /\ missing <= needed * PAGE_SIZE
          /\ (needed - 1) * PAGE_SIZE < missing
      <4> HIDE DEF missing, needed
      <4> QED BY <3>1, <3>2, PagesForFacts
    <3>4. /\ (memory + needed) * PAGE_SIZE = have + needed * PAGE_SIZE
          /\ ((memory + needed) - 1) * PAGE_SIZE = have + (needed - 1) * PAGE_SIZE
          /\ needed * PAGE_SIZE \in Int /\ (needed - 1) * PAGE_SIZE \in Int
      <4> HIDE DEF needed
      <4> QED BY <1>1, <3>3
    <3>5. /\ end <= (memory + needed) * PAGE_SIZE
          /\ ((memory + needed) - 1) * PAGE_SIZE < end
      <4> DEFINE grown == needed * PAGE_SIZE
                 before == (needed - 1) * PAGE_SIZE
      <4>1. /\ grown \in Int /\ before \in Int /\ missing <= grown /\ before < missing
            /\ (memory + needed) * PAGE_SIZE = have + grown
            /\ ((memory + needed) - 1) * PAGE_SIZE = have + before
        BY <3>3, <3>4
      <4> HIDE DEF grown, before, missing, have, end, needed
      <4> QED BY <1>2, <1>3, <3>1, <4>1
    <3>6. memory + needed \in 0..AddressPages /\ memory + needed >= memory
      <4> HIDE DEF needed
      <4> QED BY <1>1, <2>4, <3>3
    <3>7. /\ ~Overflows(size, align) /\ Grant(at, end, memory')
          /\ memory' \in 0..AddressPages /\ memory' >= memory
          /\ end <= memory' * PAGE_SIZE
          /\ (memory' - 1) * PAGE_SIZE < end
      <4> HIDE DEF at, end, needed
      <4>1. memory' = memory + needed
        BY <2>4
      <4>2. Grant(at, end, memory')
        BY <2>4, <4>1
      <4>3. end <= memory' * PAGE_SIZE /\ (memory' - 1) * PAGE_SIZE < end
        BY <3>5, <4>1
      <4>4. memory' \in 0..AddressPages /\ memory' >= memory
        BY <3>6, <4>1
      <4> QED BY <1>6, <4>2, <4>3, <4>4
    <3> QED BY <3>7
  <2>5. Refuse \/ /\ memory + needed <= AddressPages
                  /\ memory' = memory + needed
                  /\ Grant(at, end, memory + needed)
    BY <1>1, <1>3, <1>6, <1>2 DEF Alloc
  <2> QED BY <2>3, <2>4, <2>5
<1>7. \/ Overflows(size, align) /\ Refuse
      \/ /\ ~Overflows(size, align) /\ end <= Limit(memory)
         /\ Grant(at, end, memory) /\ UNCHANGED memory
      \/ ~Overflows(size, align) /\ end > Limit(memory)
  BY <1>1 DEF Alloc
<1> QED BY <1>4, <1>5, <1>6, <1>7

-----------------------------------------------------------------------------
LEMMA AllocInitially == AllocInit => AllocInv
BY MemoryAssumption, Bytes DEF AllocInit, AllocInv, AllocTypeOK, Heap

LEMMA AllocKeeps ==
  ASSUME AllocInv, NEW size \in LayoutSize, NEW align \in LayoutAlign, Alloc(size, align)
  PROVE  AllocInv'
<1> DEFINE at == AlignUp(NextAddr, align)
           end == at + size
<1>1. CASE Refuse
  BY <1>1, RefuseKeeps
<1>2. CASE ~Refuse
  <2>1. /\ ~Overflows(size, align) /\ Grant(at, end, memory')
        /\ memory' \in 0..AddressPages /\ memory' >= memory
        /\ end <= memory' * PAGE_SIZE
        /\ memory' > InitialPages => (memory' - 1) * PAGE_SIZE < end
    BY <1>2, AllocEffect
  <2>2. /\ size \in Nat \ {0} /\ align \in Nat \ {0} /\ NextAddr \in Nat /\ MaxAddress \in Nat
    BY Start, MemoryAssumption, Bytes DEF AllocInv, AllocTypeOK
  <2>3. at \in Nat /\ NextAddr <= at
    BY <2>2, AlignUpFacts
  <2>4. end <= MaxAddress
    <3>1. ~(end > MaxAddress)
      BY <2>1 DEF Overflows
    <3> HIDE DEF at
    <3> QED BY <2>2, <2>3, <3>1
  <2>5. at < end /\ end \in 0..MaxAddress
    <3> HIDE DEF at
    <3> QED BY <2>2, <2>3, <2>4
  <2> HIDE DEF at, end
  <2> QED BY <2>1, <2>3, <2>5, GrantKeeps
<1> QED BY <1>1, <1>2

LEMMA AllocInductive == AllocInv /\ [AllocNext]_allocator => AllocInv'
<1> SUFFICES ASSUME AllocInv, [AllocNext]_allocator PROVE AllocInv'
  OBVIOUS
<1>1. CASE AllocNext
  BY <1>1, AllocKeeps DEF AllocNext
<1>2. CASE UNCHANGED allocator
  BY <1>2 DEF allocator, AllocInv, AllocTypeOK, Heap
<1> QED BY <1>1, <1>2

LEMMA Invariance == AllocSpec => []AllocInv
BY AllocInitially, AllocInductive, PTL DEF AllocSpec

(* The variables keep their types; in particular no address passes the end   *)
(* of the address space.                                                     *)
THEOREM AllocatorTypeCorrect == AllocSpec => []AllocTypeOK
BY Invariance, PTL DEF AllocInv

(* Every byte handed out is there.                                           *)
THEOREM BlocksAreInMemory == AllocSpec => []InsideMemory
<1>1. AllocInv => InsideMemory
  <2> SUFFICES ASSUME AllocInv, NEW a \in used PROVE HeapBase <= a /\ a < memory * PAGE_SIZE
    BY DEF InsideMemory
  <2>1. /\ a \in Nat /\ HeapBase <= a /\ a < NextAddr
        /\ NextAddr \in Nat /\ NextAddr <= memory * PAGE_SIZE /\ memory \in 0..AddressPages
    BY Start
  <2> DEFINE have == memory * PAGE_SIZE
  <2>2. have \in Nat
    BY <2>1, Bytes
  <2> HIDE DEF have
  <2>3. a < have
    BY <2>1, <2>2 DEF have
  <2> QED BY <2>1, <2>3 DEF have
<1> QED BY <1>1, Invariance, PTL

(* The memory never grows a page that was not needed, and CURRENT_PAGES      *)
(* never parts from it.                                                      *)
THEOREM GrowthIsTight == AllocSpec => []MemoryIsTight
<1>1. AllocInv => MemoryIsTight
  BY DEF AllocInv, Heap, MemoryIsTight
<1> QED BY <1>1, Invariance, PTL

(* No two blocks share a byte.                                               *)
THEOREM AllocatorSeparates == AllocSpec => BlocksAreSeparate
<1>1. ASSUME AllocInv, NEW size \in LayoutSize, NEW align \in LayoutAlign, Alloc(size, align)
      PROVE  Block(size, align)
  <2> DEFINE at == AlignUp(NextAddr, align)
             end == at + size
  <2>1. CASE Refuse
    BY <2>1 DEF Refuse, Block
  <2>2. CASE ~Refuse
    <3>1. Grant(at, end, memory')
      BY <1>1, <2>2, AllocEffect
    <3>2. size \in Nat \ {0} /\ align \in Nat \ {0} /\ NextAddr \in Nat
      BY <1>1, Start, MemoryAssumption
    <3>3. at \in Nat /\ NextAddr <= at /\ at % align = 0
      BY <3>2, AlignUpFacts
    <3>4. \A a \in used : a \in Nat /\ a < NextAddr
      BY <1>1, Start
    <3>5. address' = at /\ used' = used \cup (at..(at + size - 1))
      <4> HIDE DEF at, end
      <4>1. address' = at /\ used' = used \cup (at..(end - 1))
        BY <3>1 DEF Grant
      <4>2. end - 1 = at + size - 1
        BY <3>2, <3>3 DEF end
      <4> QED BY <4>1, <4>2
    <3> HIDE DEF at
    <3>6. (at..(at + size - 1)) \cap used = {}
      BY <3>2, <3>3, <3>4
    <3>7. (at..(at + size - 1)) \subseteq used'
      BY <3>5
    <3> QED BY <3>3, <3>5, <3>6, <3>7 DEF Block
  <2> QED BY <2>1, <2>2
<1>2. AllocInv /\ [AllocNext]_allocator =>
        [\A size \in LayoutSize, align \in LayoutAlign : Alloc(size, align) => Block(size, align)]_allocator
  BY <1>1
<1> QED BY <1>2, Invariance, PTL DEF AllocSpec, BlocksAreSeparate

(* What fits is granted.                                                     *)
THEOREM AllocatorUsesRoom == AllocSpec => RoomIsUsed
<1> DEFINE Fits(size, align) ==
             /\ Alloc(size, align)
             /\ NextAddr + (align - 1) <= MaxAddress
             /\ AlignUp(NextAddr, align) + size <= MaxAddress
             /\ AlignUp(NextAddr, align) + size <= memory * PAGE_SIZE
<1>1. ASSUME AllocInv, NEW size \in LayoutSize, NEW align \in LayoutAlign, Fits(size, align)
      PROVE  address' # Null
  <2> DEFINE at == AlignUp(NextAddr, align)
             end == at + size
             have == memory * PAGE_SIZE
  <2>1. /\ size \in Nat \ {0} /\ align \in Nat \ {0} /\ NextAddr \in Nat
        /\ memory \in 0..AddressPages /\ MaxAddress \in Nat
    BY <1>1, Start, MemoryAssumption, Bytes
  <2>2. at \in Nat /\ have \in Nat
    <3>1. at \in Nat
      BY <2>1, AlignUpFacts
    <3>2. have \in Nat
      BY <2>1, Bytes
    <3> QED BY <3>1, <3>2
  <2>3. NextAddr + (align - 1) <= MaxAddress /\ end <= MaxAddress /\ end <= have
    BY <1>1
  <2>4. ~(end > have) /\ ~(end > MaxAddress) /\ ~(NextAddr + (align - 1) > MaxAddress)
    <3> HIDE DEF at, have
    <3> QED BY <2>1, <2>2, <2>3
  <2>5. ~Overflows(size, align)
    BY <2>4 DEF Overflows
  <2>6. Grant(at, end, memory')
    BY <1>1, <2>4, <2>5, AllocEffect
  <2>7. address' = at
    BY <2>6 DEF Grant
  <2> HIDE DEF at
  <2> QED BY <2>2, <2>7, MemoryAssumption
<1>2. AllocInv /\ [AllocNext]_allocator =>
        [\A size \in LayoutSize, align \in LayoutAlign : Fits(size, align) => address' # Null]_allocator
  BY <1>1
<1>3. AllocSpec => [][\A size \in LayoutSize, align \in LayoutAlign :
                   Fits(size, align) => address' # Null]_allocator
  BY <1>2, Invariance, PTL DEF AllocSpec
<1> QED BY <1>3 DEF RoomIsUsed

-----------------------------------------------------------------------------
(* What the builder keeps, told from the calls: each collection is what the  *)
(* calls of its kind gave, one for one and in order; the icons are those of  *)
(* the calls whose icon was not added again.                                 *)
CredentialCall == [op : {"credential"}, id : CredId, icon : {None} \cup IconId]
IconCall == [op : {"icon"}, id : IconId, bytes : Icon]
ZkCall == [op : {"zk"}, capability : Capability]
ZkpReqCall == [op : {"zkp_req"}, capability : Capability]
DebugCall == [op : {"debug"}, value : BOOLEAN]
Call == CredentialCall \cup IconCall \cup ZkCall \cup ZkpReqCall \cup DebugCall

Credential == [id : CredId, icon : {None} \cup IconId]
NamedIcon == [id : IconId, bytes : Icon]

CredentialOf == [c \in CredentialCall |-> [id |-> c.id, icon |-> c.icon]]
IconOf == [c \in IconCall |-> [id |-> c.id, bytes |-> c.bytes]]
CapabilityOf == [c \in ZkCall \cup ZkpReqCall |-> c.capability]

CallsKept ==
  /\ calls \in Seq(Call)
  /\ credentials = Mapped(CredentialOf, CallsOf("credential"))
  /\ icons = Mapped(IconOf, Current)
  /\ zk_systems = Mapped(CapabilityOf, CallsOf("zk"))
  /\ zkp_req_systems = Mapped(CapabilityOf, CallsOf("zkp_req"))
  /\ debug = (CallsOf("debug") # << >> /\ Last(CallsOf("debug")).value)

LEMMA CallKinds ==
  ASSUME NEW c \in Call
  PROVE  /\ c.op = "credential" => c \in CredentialCall
         /\ c.op = "icon" => c \in IconCall
         /\ c.op = "zk" => c \in ZkCall
         /\ c.op = "zkp_req" => c \in ZkpReqCall
         /\ c.op = "debug" => c \in DebugCall
  BY DEF Call, CredentialCall, IconCall, ZkCall, ZkpReqCall, DebugCall

LEMMA CallMaps ==
  /\ Maps(CredentialOf, CredentialCall, Credential)
  /\ Maps(IconOf, IconCall, NamedIcon)
  /\ Maps(CapabilityOf, ZkCall \cup ZkpReqCall, Capability)
<1>1. Maps(CredentialOf, CredentialCall, Credential)
  BY DEF Maps, CredentialOf, CredentialCall, Credential
<1>2. Maps(IconOf, IconCall, NamedIcon)
  BY DEF Maps, IconOf, IconCall, NamedIcon
<1>3. Maps(CapabilityOf, ZkCall \cup ZkpReqCall, Capability)
  BY DEF Maps, CapabilityOf, ZkCall, ZkpReqCall
<1> QED
  BY <1>1, <1>2, <1>3

(* The calls of a kind, and the positions of the ones that count. *)
Kind(seq, op) == {n \in DOMAIN seq : seq[n].op = op}

LatestIn(seq) ==
  {n \in DOMAIN seq :
     /\ seq[n].op = "icon"
     /\ \A m \in (n + 1)..Len(seq) : ~ (seq[m].op = "icon" /\ seq[m].id = seq[n].id)}

LEMMA PickedWithin ==
  ASSUME NEW V, NEW seq \in Seq(V), NEW S, NEW C,
         \A n \in DOMAIN seq : n \in S => seq[n] \in C
  PROVE  Picked(seq, S) \in Seq(C)
<1> DEFINE p == Picked(seq, S)
           n == Len(p)
<1>1. /\ p \in Seq(V)
      /\ \A k \in DOMAIN p : \E i \in DOMAIN seq : i \in S /\ p[k] = seq[i]
  BY PickedAre
<1>2. \A k \in DOMAIN p : p[k] \in C
  BY <1>1
<1>3. n \in Nat /\ DOMAIN p = 1..n /\ p = [k \in 1..n |-> p[k]]
  BY <1>1
<1> HIDE DEF p, n
<1>4. p \in [1..n -> C]
  BY <1>2, <1>3
<1>5. p \in Seq(C)
  BY <1>3, <1>4, FunctionIsSequence
<1> QED
  BY <1>5 DEF p

LEMMA CallsAreSequences ==
  ASSUME NEW seq \in Seq(Call)
  PROVE  /\ Picked(seq, Kind(seq, "credential")) \in Seq(CredentialCall)
         /\ Picked(seq, LatestIn(seq)) \in Seq(IconCall)
         /\ Picked(seq, Kind(seq, "zk")) \in Seq(ZkCall)
         /\ Picked(seq, Kind(seq, "zkp_req")) \in Seq(ZkpReqCall)
         /\ Picked(seq, Kind(seq, "debug")) \in Seq(DebugCall)
<1>1. \A n \in DOMAIN seq : seq[n] \in Call
  OBVIOUS
<1>3. /\ \A n \in DOMAIN seq : n \in Kind(seq, "credential") => seq[n] \in CredentialCall
      /\ \A n \in DOMAIN seq : n \in LatestIn(seq) => seq[n] \in IconCall
      /\ \A n \in DOMAIN seq : n \in Kind(seq, "zk") => seq[n] \in ZkCall
      /\ \A n \in DOMAIN seq : n \in Kind(seq, "zkp_req") => seq[n] \in ZkpReqCall
      /\ \A n \in DOMAIN seq : n \in Kind(seq, "debug") => seq[n] \in DebugCall
  BY <1>1, CallKinds DEF Kind, LatestIn
<1> QED
  BY <1>3, PickedWithin

LEMMA KindAppends ==
  ASSUME NEW seq \in Seq(Call), NEW c \in Call, NEW op
  PROVE  Picked(Append(seq, c), Kind(Append(seq, c), op)) =
           IF c.op = op THEN Append(Picked(seq, Kind(seq, op)), c)
           ELSE Picked(seq, Kind(seq, op))
<1> DEFINE more == Append(seq, c)
           S == Kind(seq, op)
           T == Kind(more, op)
<1>1. \A i \in 1..Len(seq) : i \in S <=> i \in T
  BY DEF Kind
<1>2. Len(seq) + 1 \in T <=> c.op = op
  BY DEF Kind
<1> HIDE DEF S, T
<1>3. Picked(more, T) = IF Len(seq) + 1 \in T THEN Append(Picked(seq, S), c) ELSE Picked(seq, S)
  BY <1>1, PickedAppends
<1> QED
  BY <1>2, <1>3 DEF S, T

LEMMA OtherCallKeepsIcons ==
  ASSUME NEW seq \in Seq(Call), NEW c \in Call, c.op # "icon"
  PROVE  Picked(Append(seq, c), LatestIn(Append(seq, c))) = Picked(seq, LatestIn(seq))
<1> DEFINE more == Append(seq, c)
           n == Len(seq)
           S == LatestIn(seq)
           T == LatestIn(more)
<1>1. /\ more \in Seq(Call) /\ n \in Nat /\ DOMAIN seq = 1..n /\ DOMAIN more = 1..(n + 1)
      /\ Len(more) = n + 1 /\ more[n + 1] = c /\ \A i \in 1..n : more[i] = seq[i]
  OBVIOUS
<1> HIDE DEF more, n
<1>2. n + 1 \notin T
  BY <1>1 DEF LatestIn
<1>3. ASSUME NEW i \in 1..n PROVE i \in S <=> i \in T
  <2>1. \A m \in (i + 1)..(n + 1) : m = n + 1 \/ m \in (i + 1)..n
    BY <1>1
  <2>2. \A m \in (i + 1)..n : m \in (i + 1)..(n + 1) /\ more[m] = seq[m]
    BY <1>1
  <2>3. i \in DOMAIN seq /\ i \in DOMAIN more /\ more[i] = seq[i]
    BY <1>1
  <2>4. Len(seq) = n
    BY DEF n
  <2> QED
    BY <1>1, <2>1, <2>2, <2>3, <2>4 DEF LatestIn
<1> HIDE DEF S, T
<1>4. Picked(more, T) = IF n + 1 \in T THEN Append(Picked(seq, S), c) ELSE Picked(seq, S)
  <2>1. \A i \in 1..Len(seq) : i \in S <=> i \in T
    BY <1>3 DEF n
  <2> QED
    BY <2>1, PickedAppends DEF more, n
<1> QED
  BY <1>2, <1>4 DEF S, T, more

LEMMA IconCallReplaces ==
  ASSUME NEW seq \in Seq(Call), NEW c \in IconCall
  PROVE  LET Keep == {i \in NamedIcon : i.id # c.id}
         IN Mapped(IconOf, Picked(Append(seq, c), LatestIn(Append(seq, c)))) =
              Append(PickedIn(Mapped(IconOf, Picked(seq, LatestIn(seq))), Keep), IconOf[c])
<1> DEFINE more == Append(seq, c)
           n == Len(seq)
           S == LatestIn(seq)
           T == LatestIn(more)
           Keep == {i \in NamedIcon : i.id # c.id}
<1>1. /\ c \in Call /\ c.op = "icon" /\ IconOf[c].id = c.id
  BY DEF Call, IconCall, IconOf
<1>2. /\ more \in Seq(Call) /\ n \in Nat /\ DOMAIN seq = 1..n /\ DOMAIN more = 1..(n + 1)
      /\ Len(more) = n + 1 /\ more[n + 1] = c /\ \A i \in 1..n : more[i] = seq[i]
  BY <1>1
<1>3. n = Len(seq)
  OBVIOUS
<1> HIDE DEF more, n
<1>4. n + 1 \in T
  <2>1. (n + 1 + 1)..(n + 1) = {} /\ n + 1 \in 1..(n + 1)
    BY <1>2
  <2> QED
    BY <1>1, <1>2, <2>1 DEF LatestIn
<1>5. ASSUME NEW i \in 1..n PROVE i \in T <=> i \in S /\ seq[i].id # c.id
  <2>1. \A m \in (i + 1)..(n + 1) : m = n + 1 \/ m \in (i + 1)..n
    BY <1>2
  <2>2. \A m \in (i + 1)..n : m \in (i + 1)..(n + 1) /\ more[m] = seq[m]
    BY <1>2
  <2>3. i \in DOMAIN seq /\ i \in DOMAIN more /\ more[i] = seq[i] /\ n + 1 \in (i + 1)..(n + 1)
    BY <1>2
  <2> QED
    BY <1>1, <1>2, <1>3, <2>1, <2>2, <2>3 DEF LatestIn
<1> DEFINE kept == {i \in S : seq[i].id # c.id}
<1>6. \A i \in DOMAIN seq : i \in S => seq[i] \in IconCall
  BY <1>2, CallKinds DEF LatestIn
<1>7. \A i \in 1..n : i \in T <=> i \in kept
  BY <1>5
<1>8. \A i \in DOMAIN seq : i \in kept <=> i \in S /\ IconOf[seq[i]] \in Keep
  <2>1. \A i \in DOMAIN seq : i \in S =>
          IconOf[seq[i]].id = seq[i].id /\ IconOf[seq[i]] \in NamedIcon
    BY <1>6 DEF IconOf, IconCall, NamedIcon
  <2> QED
    BY <2>1
<1> HIDE DEF S, T
<1>9. \A i \in DOMAIN seq : i \in kept => seq[i] \in IconCall
  BY <1>6
<1> HIDE DEF kept, Keep
<1>10. Picked(more, T) = Append(Picked(seq, kept), c)
  <2>1. \A i \in 1..Len(seq) : i \in kept <=> i \in T
    BY <1>3, <1>7
  <2>2. Picked(Append(seq, c), T) = IF Len(seq) + 1 \in T THEN Append(Picked(seq, kept), c)
                                    ELSE Picked(seq, kept)
    BY <1>1, <2>1, PickedAppends
  <2> QED
    BY <1>3, <1>4, <2>2 DEF more
<1>11. Picked(seq, kept) \in Seq(IconCall)
  BY <1>9, PickedWithin
<1>12. Mapped(IconOf, Picked(more, T)) = Append(Mapped(IconOf, Picked(seq, kept)), IconOf[c])
  BY <1>10, <1>11, CallMaps, MappedAppends
<1>13. PickedIn(Mapped(IconOf, Picked(seq, S)), Keep) = Mapped(IconOf, Picked(seq, kept))
  BY <1>6, <1>8, CallMaps, PickedTwice
<1> QED
  BY <1>12, <1>13 DEF S, T, Keep, more

LEMMA CallsByKind ==
  /\ \A op : CallsOf(op) = Picked(calls, Kind(calls, op))
  /\ Current = Picked(calls, LatestIn(calls))
<1>1. LatestIn(calls) = {n \in DOMAIN calls : IsLatest(n, calls[n].id)}
  BY DEF LatestIn, IsLatest, Adds
<1> QED
  BY <1>1 DEF CallsOf, Kind, Current

LEMMA CallStep ==
  ASSUME calls \in Seq(Call), NEW c \in Call, calls' = Append(calls, c)
  PROVE  /\ calls' \in Seq(Call)
         /\ \A op : CallsOf(op)' = IF c.op = op THEN Append(CallsOf(op), c) ELSE CallsOf(op)
         /\ c.op # "icon" => Current' = Current
         /\ c.op = "icon" =>
              Mapped(IconOf, Current') =
                Append(PickedIn(Mapped(IconOf, Current), {i \in NamedIcon : i.id # c.id}), IconOf[c])
<1>1. /\ \A op : CallsOf(op)' = Picked(calls', Kind(calls', op))
      /\ Current' = Picked(calls', LatestIn(calls'))
  <2>1. LatestIn(calls') = {n \in DOMAIN calls' : IsLatest(n, calls[n].id)'}
    BY DEF LatestIn, IsLatest, Adds
  <2> QED
    BY <2>1 DEF CallsOf, Kind, Current
<1>2. \A op : CallsOf(op)' = IF c.op = op THEN Append(CallsOf(op), c) ELSE CallsOf(op)
  <2> SUFFICES ASSUME NEW op
               PROVE  CallsOf(op)' = IF c.op = op THEN Append(CallsOf(op), c) ELSE CallsOf(op)
    OBVIOUS
  <2>1. CallsOf(op) = Picked(calls, Kind(calls, op)) /\ CallsOf(op)' = Picked(calls', Kind(calls', op))
    BY <1>1, CallsByKind
  <2> QED
    BY <2>1, KindAppends
<1>3. c.op # "icon" => Current' = Current
  BY <1>1, CallsByKind, OtherCallKeepsIcons
<1>4. c.op = "icon" =>
        Mapped(IconOf, Current') =
          Append(PickedIn(Mapped(IconOf, Current), {i \in NamedIcon : i.id # c.id}), IconOf[c])
  <2> SUFFICES ASSUME c.op = "icon"
               PROVE  Mapped(IconOf, Current') =
                        Append(PickedIn(Mapped(IconOf, Current), {i \in NamedIcon : i.id # c.id}),
                               IconOf[c])
    OBVIOUS
  <2>1. c \in IconCall
    BY CallKinds
  <2> QED
    BY <1>1, <2>1, CallsByKind, IconCallReplaces
<1> QED
  BY <1>2, <1>3, <1>4

(* What the collections hold. *)
LEMMA KeptTypes ==
  ASSUME CallsKept
  PROVE  /\ CallsOf("credential") \in Seq(CredentialCall)
         /\ Current \in Seq(IconCall)
         /\ CallsOf("zk") \in Seq(ZkCall) /\ CallsOf("zkp_req") \in Seq(ZkpReqCall)
         /\ CallsOf("debug") \in Seq(DebugCall)
         /\ icons \in Seq(NamedIcon) /\ DOMAIN icons = DOMAIN Current
         /\ \A i \in DOMAIN icons : icons[i] = IconOf[Current[i]]
<1>1. calls \in Seq(Call)
  BY DEF CallsKept
<1>2. /\ CallsOf("credential") \in Seq(CredentialCall)
      /\ Current \in Seq(IconCall)
      /\ CallsOf("zk") \in Seq(ZkCall) /\ CallsOf("zkp_req") \in Seq(ZkpReqCall)
      /\ CallsOf("debug") \in Seq(DebugCall)
  BY <1>1, CallsByKind, CallsAreSequences
<1>3. icons = Mapped(IconOf, Current)
  BY DEF CallsKept
<1>4. \A i \in DOMAIN icons : icons[i] = IconOf[Current[i]]
  BY <1>3 DEF Mapped
<1>5. DOMAIN icons = DOMAIN Current
  BY <1>3 DEF Mapped
<1>6. icons \in Seq(NamedIcon)
  <2>1. Current = << >> \/ \E c : c \in IconCall
    BY <1>2
  <2>2. CASE Current = << >>
    BY <1>3, <2>2 DEF Mapped
  <2>3. ASSUME NEW c \in IconCall PROVE icons \in Seq(NamedIcon)
    BY <1>2, <1>3, CallMaps, MappedAppends
  <2> QED
    BY <2>1, <2>2, <2>3
<1> QED
  BY <1>2, <1>4, <1>5, <1>6

(* Every call of the wallet is in what the builder keeps, whichever thread   *)
(* died in between.                                                          *)
THEOREM CallsAreKept == BuilderSpec => []CallsKept
<1>1. BuilderInit => CallsKept
  <2> SUFFICES ASSUME BuilderInit PROVE CallsKept
    OBVIOUS
  <2>1. calls = << >> /\ calls \in Seq(Call)
    BY DEF BuilderInit
  <2>2. \A S : Picked(calls, S) = << >>
    BY <2>1, PickedNothing
  <2>3. Current = << >> /\ \A op : CallsOf(op) = << >>
    BY <2>2, CallsByKind
  <2>4. \A h : Mapped(h, << >>) = << >>
    BY DEF Mapped
  <2> QED
    BY <2>1, <2>3, <2>4 DEF BuilderInit, CallsKept
<1>2. CallsKept /\ [BuilderNext]_builder => CallsKept'
  <2> SUFFICES ASSUME CallsKept, [BuilderNext]_builder PROVE CallsKept'
    OBVIOUS
  <2>1. /\ calls \in Seq(Call)
        /\ CallsOf("credential") \in Seq(CredentialCall)
        /\ CallsOf("zk") \in Seq(ZkCall \cup ZkpReqCall)
        /\ CallsOf("zkp_req") \in Seq(ZkCall \cup ZkpReqCall)
        /\ CallsOf("debug") \in Seq(DebugCall)
    BY KeptTypes DEF CallsKept
  <2> USE DEF Updates, Called
  <2>2. ASSUME NEW id \in CredId, NEW icon \in {None} \cup IconId, AddCredential(id, icon)
        PROVE  CallsKept'
    <3> DEFINE c == [op |-> "credential", id |-> id, icon |-> icon]
    <3>1. /\ c \in Call /\ c \in CredentialCall /\ c.op = "credential"
          /\ CredentialOf[c] = [id |-> id, icon |-> icon]
      BY DEF Call, CredentialCall, CredentialOf
    <3>2. /\ calls' = Append(calls, c) /\ credentials' = Append(credentials, CredentialOf[c])
          /\ UNCHANGED <<icons, zk_systems, zkp_req_systems, debug>>
      BY <2>2, <3>1 DEF AddCredential
    <3> HIDE DEF c
    <3>3. /\ calls' \in Seq(Call) /\ Current' = Current
          /\ \A op : CallsOf(op)' = IF c.op = op THEN Append(CallsOf(op), c) ELSE CallsOf(op)
      BY <2>1, <3>1, <3>2, CallStep
    <3>4. Mapped(CredentialOf, Append(CallsOf("credential"), c)) =
            Append(Mapped(CredentialOf, CallsOf("credential")), CredentialOf[c])
      BY <2>1, <3>1, CallMaps, MappedAppends
    <3>5. /\ CallsOf("credential")' = Append(CallsOf("credential"), c)
          /\ CallsOf("zk")' = CallsOf("zk") /\ CallsOf("zkp_req")' = CallsOf("zkp_req")
          /\ CallsOf("debug")' = CallsOf("debug")
      BY <3>1, <3>3
    <3> QED
      BY <3>2, <3>3, <3>4, <3>5 DEF CallsKept
  <2>3. ASSUME NEW id \in IconId, NEW bytes \in Icon, AddIcon(id, bytes)
        PROVE  CallsKept'
    <3> DEFINE c == [op |-> "icon", id |-> id, bytes |-> bytes]
               Keep == {i \in NamedIcon : i.id # c.id}
               S == {i \in DOMAIN icons : icons[i].id # id}
    <3>1. /\ c \in Call /\ c \in IconCall /\ c.op = "icon" /\ c.id = id
          /\ IconOf[c] = [id |-> id, bytes |-> bytes]
      BY DEF Call, IconCall, IconOf
    <3>2. /\ calls' = Append(calls, c) /\ icons' = Append(Picked(icons, S), IconOf[c])
          /\ UNCHANGED <<credentials, zk_systems, zkp_req_systems, debug>>
      BY <2>3, <3>1 DEF AddIcon, WithIcon
    <3>3. Picked(icons, S) = PickedIn(icons, Keep)
      <4>1. S = {i \in DOMAIN icons : icons[i] \in Keep}
        BY <3>1, KeptTypes
      <4> QED
        BY <4>1 DEF PickedIn
    <3> HIDE DEF c
    <3>4. /\ calls' \in Seq(Call)
          /\ \A op : CallsOf(op)' = IF c.op = op THEN Append(CallsOf(op), c) ELSE CallsOf(op)
          /\ Mapped(IconOf, Current') = Append(PickedIn(Mapped(IconOf, Current), Keep), IconOf[c])
      BY <2>1, <3>1, <3>2, CallStep
    <3>5. /\ CallsOf("credential")' = CallsOf("credential")
          /\ CallsOf("zk")' = CallsOf("zk") /\ CallsOf("zkp_req")' = CallsOf("zkp_req")
          /\ CallsOf("debug")' = CallsOf("debug")
      BY <3>1, <3>4
    <3> HIDE DEF Keep, S
    <3> QED
      BY <3>2, <3>3, <3>4, <3>5 DEF CallsKept
  <2>4. ASSUME NEW k \in Capability, AddZkSystem(k)
        PROVE  CallsKept'
    <3> DEFINE c == [op |-> "zk", capability |-> k]
    <3>1. /\ c \in Call /\ c \in ZkCall \cup ZkpReqCall /\ c.op = "zk"
          /\ CapabilityOf[c] = k
      BY DEF Call, ZkCall, CapabilityOf
    <3>2. /\ calls' = Append(calls, c) /\ zk_systems' = Append(zk_systems, CapabilityOf[c])
          /\ UNCHANGED <<credentials, icons, zkp_req_systems, debug>>
      BY <2>4, <3>1 DEF AddZkSystem
    <3> HIDE DEF c
    <3>3. /\ calls' \in Seq(Call) /\ Current' = Current
          /\ \A op : CallsOf(op)' = IF c.op = op THEN Append(CallsOf(op), c) ELSE CallsOf(op)
      BY <2>1, <3>1, <3>2, CallStep
    <3>4. Mapped(CapabilityOf, Append(CallsOf("zk"), c)) =
            Append(Mapped(CapabilityOf, CallsOf("zk")), CapabilityOf[c])
      BY <2>1, <3>1, CallMaps, MappedAppends
    <3>5. /\ CallsOf("zk")' = Append(CallsOf("zk"), c)
          /\ CallsOf("credential")' = CallsOf("credential")
          /\ CallsOf("zkp_req")' = CallsOf("zkp_req")
          /\ CallsOf("debug")' = CallsOf("debug")
      BY <3>1, <3>3
    <3> QED
      BY <3>2, <3>3, <3>4, <3>5 DEF CallsKept
  <2>5. ASSUME NEW k \in Capability, AddZkpReqSystem(k)
        PROVE  CallsKept'
    <3> DEFINE c == [op |-> "zkp_req", capability |-> k]
    <3>1. /\ c \in Call /\ c \in ZkCall \cup ZkpReqCall /\ c.op = "zkp_req"
          /\ CapabilityOf[c] = k
      BY DEF Call, ZkpReqCall, CapabilityOf
    <3>2. /\ calls' = Append(calls, c) /\ zkp_req_systems' = Append(zkp_req_systems, CapabilityOf[c])
          /\ UNCHANGED <<credentials, icons, zk_systems, debug>>
      BY <2>5, <3>1 DEF AddZkpReqSystem
    <3> HIDE DEF c
    <3>3. /\ calls' \in Seq(Call) /\ Current' = Current
          /\ \A op : CallsOf(op)' = IF c.op = op THEN Append(CallsOf(op), c) ELSE CallsOf(op)
      BY <2>1, <3>1, <3>2, CallStep
    <3>4. Mapped(CapabilityOf, Append(CallsOf("zkp_req"), c)) =
            Append(Mapped(CapabilityOf, CallsOf("zkp_req")), CapabilityOf[c])
      BY <2>1, <3>1, CallMaps, MappedAppends
    <3>5. /\ CallsOf("zkp_req")' = Append(CallsOf("zkp_req"), c)
          /\ CallsOf("credential")' = CallsOf("credential")
          /\ CallsOf("zk")' = CallsOf("zk")
          /\ CallsOf("debug")' = CallsOf("debug")
      BY <3>1, <3>3
    <3> QED
      BY <3>2, <3>3, <3>4, <3>5 DEF CallsKept
  <2>6. ASSUME NEW d \in BOOLEAN, SetDebug(d)
        PROVE  CallsKept'
    <3> DEFINE c == [op |-> "debug", value |-> d]
               last == CallsOf("debug")
    <3>1. c \in Call /\ c \in DebugCall /\ c.op = "debug" /\ c.value = d
      BY DEF Call, DebugCall
    <3>2. /\ calls' = Append(calls, c) /\ debug' = d
          /\ UNCHANGED <<credentials, icons, zk_systems, zkp_req_systems>>
      BY <2>6, <3>1 DEF SetDebug
    <3> HIDE DEF c
    <3>3. /\ calls' \in Seq(Call) /\ Current' = Current
          /\ \A op : CallsOf(op)' = IF c.op = op THEN Append(CallsOf(op), c) ELSE CallsOf(op)
      BY <2>1, <3>1, <3>2, CallStep
    <3>4. /\ last' = Append(last, c)
          /\ CallsOf("credential")' = CallsOf("credential")
          /\ CallsOf("zk")' = CallsOf("zk") /\ CallsOf("zkp_req")' = CallsOf("zkp_req")
      BY <3>1, <3>3
    <3>5. Append(last, c) # << >> /\ Last(Append(last, c)) = c
      <4>1. last \in Seq(DebugCall)
        BY <2>1
      <4> HIDE DEF last
      <4> QED
        BY <3>1, <4>1 DEF Last
    <3> HIDE DEF last
    <3>6. debug' = (last' # << >> /\ Last(last').value)
      BY <3>1, <3>2, <3>4, <3>5
    <3> QED
      BY <3>2, <3>3, <3>4, <3>6 DEF CallsKept, last
  <2>7. CASE UNCHANGED <<state, calls>>
    <3>1. Current' = Current /\ \A op : CallsOf(op)' = CallsOf(op)
      BY <2>7 DEF Current, CallsOf, IsLatest, Adds
    <3> QED
      BY <2>7, <3>1 DEF CallsKept, state
  <2>8. CASE Panic
    BY <2>7, <2>8 DEF Panic
  <2>9. CASE UNCHANGED builder
    BY <2>7, <2>9 DEF builder
  <2> QED
    BY <2>2, <2>3, <2>4, <2>5, <2>6, <2>8, <2>9 DEF BuilderNext
<1> QED
  BY <1>1, <1>2, PTL DEF BuilderSpec

-----------------------------------------------------------------------------
(* The bytes of an icon. *)
LEMMA LatestIs ==
  ASSUME calls \in Seq(Call), NEW id
  PROVE  /\ WasAdded(id) => \E n \in DOMAIN calls : IsLatest(n, id)
         /\ \A n \in DOMAIN calls : IsLatest(n, id) => LatestBytes(id) = calls[n].bytes
<1> DEFINE L == Len(calls)
           adding == {n \in 1..L : Adds(n, id)}
<1>1. L \in Nat /\ DOMAIN calls = 1..L /\ Len(calls) = L
  OBVIOUS
<1> HIDE DEF L
<1>2. ASSUME WasAdded(id) PROVE \E n \in DOMAIN calls : IsLatest(n, id)
  <2>1. PICK n \in adding : \A m \in (n + 1)..L : m \notin adding
    <3>1. adding \in SUBSET (1..L)
      OBVIOUS
    <3>2. adding # {}
      BY <1>1, <1>2 DEF WasAdded
    <3> HIDE DEF adding
    <3> QED
      BY <1>1, <3>1, <3>2, LargestIn
  <2>2. n \in 1..L /\ Adds(n, id)
    BY <2>1
  <2>3. \A m \in (n + 1)..L : m \in 1..L /\ ~Adds(m, id)
    BY <1>1, <2>1, <2>2
  <2> QED
    BY <1>1, <2>2, <2>3 DEF IsLatest
<1>3. ASSUME NEW n \in DOMAIN calls, IsLatest(n, id) PROVE LatestBytes(id) = calls[n].bytes
  <2> DEFINE c == CHOOSE m \in DOMAIN calls : IsLatest(m, id)
  <2>1. c \in DOMAIN calls /\ IsLatest(c, id)
    BY <1>3
  <2>2. LatestBytes(id) = calls[c].bytes
    BY DEF LatestBytes
  <2> HIDE DEF c
  <2>3. ~(n < c) /\ ~(c < n)
    <3>1. n < c => c \in (n + 1)..L
      BY <1>1, <2>1
    <3>2. c < n => n \in (c + 1)..L
      BY <1>1, <2>1
    <3> QED
      BY <1>1, <1>3, <2>1, <3>1, <3>2 DEF IsLatest
  <2>4. c = n
    BY <1>1, <2>1, <2>3
  <2> QED
    BY <2>2, <2>4
<1> QED
  BY <1>2, <1>3

LEMMA IconsAreLatest ==
  ASSUME CallsKept
  PROVE  /\ \A id : HasOffset(id) <=> WasAdded(id)
         /\ \A i \in DOMAIN icons : icons[i].bytes = LatestBytes(icons[i].id)
<1>1. /\ calls \in Seq(Call) /\ Current = Picked(calls, LatestIn(calls))
      /\ \A n \in LatestIn(calls) : n \in DOMAIN calls /\ IsLatest(n, calls[n].id)
  BY CallsByKind DEF CallsKept, LatestIn, IsLatest, Adds
<1>2. \A i \in DOMAIN icons :
        \E n \in DOMAIN calls : IsLatest(n, calls[n].id) /\ Current[i] = calls[n]
  BY <1>1, KeptTypes, PickedAre
<1>3. \A i \in DOMAIN icons :
        /\ Current[i] \in IconCall
        /\ icons[i].id = Current[i].id /\ icons[i].bytes = Current[i].bytes
  <2>1. \A c \in IconCall : IconOf[c].id = c.id /\ IconOf[c].bytes = c.bytes
    BY DEF IconOf
  <2>2. \A i \in DOMAIN icons : Current[i] \in IconCall /\ icons[i] = IconOf[Current[i]]
    BY KeptTypes
  <2> QED
    BY <2>1, <2>2
<1>4. ASSUME NEW id, HasOffset(id) PROVE WasAdded(id)
  <2>1. PICK i \in DOMAIN icons : icons[i].id = id
    BY <1>4 DEF HasOffset
  <2>2. PICK n \in DOMAIN calls : IsLatest(n, calls[n].id) /\ Current[i] = calls[n]
    BY <1>2
  <2> QED
    BY <1>3, <2>1, <2>2 DEF WasAdded, IsLatest
<1>5. ASSUME NEW id, WasAdded(id) PROVE HasOffset(id)
  <2>1. PICK n \in DOMAIN calls : IsLatest(n, id)
    BY <1>1, <1>5, LatestIs
  <2>2. n \in LatestIn(calls) /\ calls[n].id = id
    BY <2>1 DEF LatestIn, IsLatest, Adds
  <2>3. PICK k \in DOMAIN Current : Current[k] = calls[n]
    BY <1>1, <2>2, PickedAre
  <2>4. k \in DOMAIN icons
    BY KeptTypes
  <2> QED
    BY <1>3, <2>2, <2>3, <2>4 DEF HasOffset
<1>6. ASSUME NEW i \in DOMAIN icons PROVE icons[i].bytes = LatestBytes(icons[i].id)
  <2>1. PICK n \in DOMAIN calls : IsLatest(n, calls[n].id) /\ Current[i] = calls[n]
    BY <1>2
  <2>2. LatestBytes(calls[n].id) = calls[n].bytes
    BY <1>1, <2>1, LatestIs
  <2> QED
    BY <1>3, <2>1, <2>2
<1> QED
  BY <1>4, <1>5, <1>6

LEMMA CredentialsAre ==
  ASSUME CallsKept
  PROVE  LET added == CallsOf("credential")
         IN /\ DOMAIN credentials = DOMAIN added /\ DOMAIN added = 1..Len(added) /\ Len(added) \in Nat
            /\ \A n \in DOMAIN added :
                 credentials[n].id = added[n].id /\ credentials[n].icon = added[n].icon
            /\ \A n \in DOMAIN added :
                 Dangles(credentials[n]) <=> added[n].icon # None /\ ~WasAdded(added[n].icon)
<1> DEFINE added == CallsOf("credential")
<1>1. added \in Seq(CredentialCall)
  BY KeptTypes
<1>2. credentials = Mapped(CredentialOf, added)
  BY DEF CallsKept
<1> HIDE DEF added
<1>3. /\ DOMAIN credentials = DOMAIN added
      /\ \A n \in DOMAIN added : credentials[n] = CredentialOf[added[n]] /\ added[n] \in CredentialCall
  BY <1>1, <1>2 DEF Mapped
<1>4. \A n \in DOMAIN added :
        credentials[n].id = added[n].id /\ credentials[n].icon = added[n].icon
  <2>1. \A c \in CredentialCall : CredentialOf[c].id = c.id /\ CredentialOf[c].icon = c.icon
    BY DEF CredentialOf
  <2> QED
    BY <1>3, <2>1
<1>5. \A n \in DOMAIN added :
        Dangles(credentials[n]) <=> added[n].icon # None /\ ~WasAdded(added[n].icon)
  BY <1>4, IconsAreLatest DEF Dangles
<1> QED
  BY <1>1, <1>3, <1>4, <1>5 DEF added

(* What build returns. *)
LEMMA BuildFails ==
  ASSUME NEW N \in Nat, DOMAIN credentials = 1..N, NEW n \in 1..N, Dangles(credentials[n]),
         \A j \in 1..(n - 1) : ~Dangles(credentials[j])
  PROVE  Build = [ok |-> FALSE, credential_id |-> credentials[n].id, icon_id |-> credentials[n].icon]
<1> DEFINE k == CHOOSE m \in DOMAIN credentials :
                  Dangles(credentials[m]) /\ \A j \in 1..(m - 1) : ~Dangles(credentials[j])
<1>1. /\ k \in DOMAIN credentials /\ Dangles(credentials[k])
      /\ \A j \in 1..(k - 1) : ~Dangles(credentials[j])
  BY Zenon
<1>2. Build = [ok |-> FALSE, credential_id |-> credentials[k].id, icon_id |-> credentials[k].icon]
  BY Zenon DEF Build
<1> HIDE DEF k
<1>3. k = n
  <2>1. k \in 1..N
    BY <1>1
  <2>2. ~(k < n) /\ ~(n < k)
    <3>1. k < n => k \in 1..(n - 1)
      BY <2>1
    <3>2. n < k => n \in 1..(k - 1)
      BY <2>1
    <3> QED
      BY <1>1, <3>1, <3>2
  <2> QED
    BY <2>1, <2>2
<1> QED
  BY <1>2, <1>3

LEMMA BuildPasses ==
  ASSUME \A n \in DOMAIN credentials : ~Dangles(credentials[n])
  PROVE  Build = [ok |-> TRUE,
        credentials |-> [n \in DOMAIN credentials |->
                           [id |-> credentials[n].id,
                            icon |-> IF credentials[n].icon = None \/ ~HasOffset(credentials[n].icon)
                                     THEN None ELSE OffsetOf(credentials[n].icon)]],
        icons |-> IconSection,
        capabilities |-> [k \in CapabilityKeys |->
                            IF k = "zk" THEN zk_systems ELSE zkp_req_systems],
        debug |-> debug]
  BY Zenon DEF Build

LEMMA BuildTells ==
  ASSUME CallsKept
  PROVE  UnknownIconIsTold
<1> DEFINE added == CallsOf("credential")
           unknown == {n \in DOMAIN added : added[n].icon # None /\ ~WasAdded(added[n].icon)}
           N == Len(added)
<1>1. /\ DOMAIN credentials = 1..N /\ DOMAIN added = 1..N /\ N \in Nat
      /\ \A n \in 1..N : credentials[n].id = added[n].id /\ credentials[n].icon = added[n].icon
      /\ \A n \in 1..N : Dangles(credentials[n]) <=> n \in unknown
  BY CredentialsAre
<1>2. unknown \in SUBSET (1..N)
  BY <1>1
<1> HIDE DEF N, unknown, added
<1>3. CASE unknown = {}
  <2>1. Build.ok = TRUE
    BY <1>1, <1>3, BuildPasses
  <2> QED
    BY <1>3, <2>1 DEF UnknownIconIsTold, unknown, added
<1>4. CASE unknown # {}
  <2>1. PICK n \in unknown : \A m \in unknown : n <= m
    <3>1. unknown \in SUBSET Nat
      BY <1>1, <1>2
    <3> QED
      BY <1>4, <3>1, SmallestNat
  <2>2. \A j \in 1..(n - 1) : j \in 1..N /\ j \notin unknown
    BY <1>1, <1>2, <2>1
  <2>3. /\ n \in 1..N /\ Dangles(credentials[n])
        /\ \A j \in 1..(n - 1) : ~Dangles(credentials[j])
    BY <1>1, <1>2, <2>1, <2>2
  <2>4. Build = [ok |-> FALSE, credential_id |-> credentials[n].id, icon_id |-> credentials[n].icon]
    BY <1>1, <2>3, BuildFails
  <2>5. /\ Build.ok = FALSE /\ Build.credential_id = added[n].id /\ Build.icon_id = added[n].icon
    BY <1>1, <2>3, <2>4
  <2> QED
    BY <1>4, <2>1, <2>5 DEF UnknownIconIsTold, unknown, added
<1> QED
  BY <1>3, <1>4

LEMMA OkMeansNoneDangles ==
  ASSUME CallsKept, Build.ok
  PROVE  \A n \in DOMAIN credentials : ~Dangles(credentials[n])
<1> DEFINE N == Len(CallsOf("credential"))
           dangling == {n \in 1..N : Dangles(credentials[n])}
<1>1. DOMAIN credentials = 1..N /\ N \in Nat
  BY CredentialsAre
<1> HIDE DEF N
<1> SUFFICES ASSUME dangling # {} PROVE FALSE
  BY <1>1
<1>2. PICK n \in dangling : \A m \in dangling : n <= m
  <2>1. dangling \in SUBSET Nat
    BY <1>1
  <2> HIDE DEF dangling
  <2> QED
    BY <2>1, SmallestNat
<1>3. n \in 1..N /\ Dangles(credentials[n])
  BY <1>2
<1>4. \A j \in 1..(n - 1) : ~Dangles(credentials[j])
  <2> SUFFICES ASSUME NEW j \in 1..(n - 1), Dangles(credentials[j]) PROVE FALSE
    OBVIOUS
  <2>1. j \in 1..N /\ j < n
    BY <1>1, <1>3
  <2>2. j \in dangling
    BY <2>1
  <2>3. n <= j
    BY <1>2, <2>2
  <2> QED
    BY <1>3, <2>1, <2>3
<1>5. Build = [ok |-> FALSE, credential_id |-> credentials[n].id, icon_id |-> credentials[n].icon]
  BY <1>1, <1>3, <1>4, BuildFails
<1>6. Build.ok = FALSE
  BY <1>5
<1> QED
  BY <1>6

LEMMA BlobHoldsAll ==
  ASSUME CallsKept
  PROVE  NothingIsLost
<1> SUFFICES ASSUME Build.ok PROVE NothingIsLost
  BY DEF NothingIsLost
<1> DEFINE added == CallsOf("credential")
           switched == CallsOf("debug")
           declared(k) == [n \in DOMAIN CallsOf(k) |-> CallsOf(k)[n].capability]
<1>1. /\ Build.credentials = [n \in DOMAIN credentials |->
                           [id |-> credentials[n].id,
                            icon |-> IF credentials[n].icon = None \/ ~HasOffset(credentials[n].icon)
                                     THEN None ELSE OffsetOf(credentials[n].icon)]]
      /\ Build.capabilities = [k \in CapabilityKeys |->
                                 IF k = "zk" THEN zk_systems ELSE zkp_req_systems]
      /\ Build.debug = debug
  BY OkMeansNoneDangles, BuildPasses
<1>2. [n \in DOMAIN Build.credentials |-> Build.credentials[n].id] = [n \in DOMAIN added |-> added[n].id]
  <2>1. DOMAIN Build.credentials = DOMAIN added
    BY <1>1, CredentialsAre
  <2>2. \A n \in DOMAIN added : Build.credentials[n].id = added[n].id
    BY <1>1, CredentialsAre
  <2> HIDE DEF added
  <2> QED
    BY <2>1, <2>2
<1>3. declared("zk") = zk_systems /\ declared("zkp_req") = zkp_req_systems
  <2>1. ASSUME NEW C \in {ZkCall, ZkpReqCall}, NEW f \in Seq(C)
        PROVE  [n \in DOMAIN f |-> f[n].capability] = Mapped(CapabilityOf, f)
    <3>1. \A n \in DOMAIN f : f[n] \in ZkCall \cup ZkpReqCall
      OBVIOUS
    <3>2. \A c \in ZkCall \cup ZkpReqCall : CapabilityOf[c] = c.capability
      BY DEF CapabilityOf
    <3> QED
      BY <3>1, <3>2 DEF Mapped
  <2>2. /\ declared("zk") = Mapped(CapabilityOf, CallsOf("zk"))
        /\ declared("zkp_req") = Mapped(CapabilityOf, CallsOf("zkp_req"))
    BY <2>1, KeptTypes
  <2> QED
    BY <2>2 DEF CallsKept
<1>4. \A k \in {"zk", "zkp_req"} :
        IF declared(k) = << >> THEN k \notin DOMAIN Build.capabilities
        ELSE k \in DOMAIN Build.capabilities /\ Build.capabilities[k] = declared(k)
  <2> HIDE DEF declared
  <2>1. IF declared("zk") = << >> THEN "zk" \notin DOMAIN Build.capabilities
        ELSE "zk" \in DOMAIN Build.capabilities /\ Build.capabilities["zk"] = declared("zk")
    BY <1>1, <1>3 DEF CapabilityKeys
  <2>2. IF declared("zkp_req") = << >> THEN "zkp_req" \notin DOMAIN Build.capabilities
        ELSE "zkp_req" \in DOMAIN Build.capabilities /\ Build.capabilities["zkp_req"] = declared("zkp_req")
    BY <1>1, <1>3 DEF CapabilityKeys
  <2> QED
    BY <2>1, <2>2
<1>5. Build.debug = (switched # << >> /\ Last(switched).value)
  BY <1>1 DEF CallsKept
<1> QED
  BY <1>2, <1>4, <1>5 DEF NothingIsLost

(* Where build says an icon is, it is. *)
LEMMA IconIsThere ==
  ASSUME CallsKept, Total < Width, NEW id, HasOffset(id)
  PROVE  LET at == OffsetOf(id)
         IN /\ at \in [start : Nat, len : Nat]
            /\ at.start + at.len < Width /\ at.start + at.len <= Len(IconSection)
            /\ Len(IconSection) \in Nat
            /\ SubSeq(IconSection, at.start + 1, at.start + at.len) = LatestBytes(id)
<1> DEFINE N == Len(icons)
           bytes == [i \in DOMAIN icons |-> icons[i].bytes]
           under == {i \in 1..N : icons[i].id = id}
           i == CHOOSE n \in DOMAIN icons :
                  icons[n].id = id /\ \A m \in (n + 1)..Len(icons) : icons[m].id # id
           start == StartOf(i)
<1>1. /\ N \in Nat /\ DOMAIN icons = 1..N
      /\ bytes \in [1..N -> Seq(IconByte)]
  <2>1. icons \in Seq(NamedIcon)
    BY KeptTypes
  <2>2. \A b \in Icon : b \in Seq(IconByte)
    BY BuilderAssumption DEF BuilderAssumption
  <2>3. \A c \in NamedIcon : c.bytes \in Icon
    BY DEF NamedIcon
  <2>4. \A j \in DOMAIN icons : icons[j] \in NamedIcon
    BY <2>1
  <2>5. \A j \in DOMAIN icons : icons[j].bytes \in Seq(IconByte)
    BY Zenon, <2>2, <2>3, <2>4
  <2> QED
    BY <2>1, <2>5
<1>2. Total = Len(IconSection) /\ IconSection = FlattenSeq(bytes)
  <2>1. [n \in DOMAIN Current |-> Current[n].bytes] = bytes
    <3>1. /\ DOMAIN icons = DOMAIN Current
          /\ \A j \in DOMAIN icons : Current[j] \in IconCall /\ icons[j] = IconOf[Current[j]]
      BY KeptTypes
    <3>2. \A c \in IconCall : IconOf[c].bytes = c.bytes
      BY DEF IconOf
    <3> QED
      BY <3>1, <3>2
  <2> QED
    BY <2>1 DEF Total, IconSection
<1>3. /\ i \in 1..N /\ icons[i].id = id
  <2>1. PICK n \in under : \A m \in (n + 1)..N : m \notin under
    <3>1. under \in SUBSET (1..N) /\ under # {}
      BY <1>1 DEF HasOffset
    <3> HIDE DEF under, N
    <3> QED
      BY <1>1, <3>1, LargestIn
  <2>2. n \in 1..N /\ icons[n].id = id
    BY <2>1
  <2>3. \A m \in (n + 1)..N : m \in 1..N /\ icons[m].id # id
    BY <1>1, <2>1, <2>2
  <2> QED
    BY <1>1, <2>2, <2>3
<1>4. bytes[i] = LatestBytes(id)
  BY <1>1, <1>3, IconsAreLatest
<1>5. OffsetOf(id) = [start |-> AsU32(start), len |-> AsU32(Len(icons[i].bytes))]
  BY Zenon DEF OffsetOf
<1> HIDE DEF i
<1>6. start = Len(FlattenSeq(SeqsUpTo(bytes, i - 1))) /\ icons[i].bytes = bytes[i]
  <2>1. \A j \in 1..(i - 1) : j \in DOMAIN icons
    BY <1>1, <1>3
  <2>2. SeqsUpTo(bytes, i - 1) = [j \in 1..(i - 1) |-> icons[j].bytes]
    BY <2>1 DEF SeqsUpTo
  <2> QED
    BY <1>1, <1>3, <2>2 DEF StartOf
<1> HIDE DEF bytes, start, N
<1> DEFINE len == Len(bytes[i])
<1>7. Lies(IconByte, bytes[i], start, IconSection)
  <2>1. Maps(bytes, 1..N, Seq(IconByte))
    BY <1>1 DEF Maps
  <2>2. Lies(IconByte, bytes[i], Len(FlattenSeq(SeqsUpTo(bytes, i - 1))), FlattenSeq(bytes))
    BY <1>1, <1>3, <2>1, FlattenPart
  <2> QED
    BY <1>2, <1>6, <2>2
<1>8. bytes[i] \in Seq(IconByte) /\ len \in Nat
  BY <1>1, <1>3
<1>9. ASSUME NEW n \in Nat, n < Width PROVE AsU32(n) = n
  <2>1. Width \in Nat \ {0} /\ 0 \in Nat /\ n = Width * 0 + n /\ n \in 0..(Width - 1)
    BY <1>9, BuilderAssumption DEF BuilderAssumption
  <2> QED
    BY <2>1, QuotientIs DEF AsU32
<1>10. /\ start \in Nat /\ Total \in Nat /\ start + len <= Total /\ Width \in Nat
  BY <1>2, <1>7, BuilderAssumption DEF Lies, BuilderAssumption
<1>11. OffsetOf(id) = [start |-> start, len |-> len]
  <2>1. start < Width /\ len < Width
    BY <1>8, <1>10
  <2> HIDE DEF len
  <2>2. AsU32(start) = start /\ AsU32(len) = len
    BY <1>8, <1>9, <1>10, <2>1
  <2> QED
    BY <1>5, <1>6, <2>2 DEF len
<1>12. SubSeq(IconSection, start + 1, start + len) = bytes[i]
  BY <1>7, <1>8, SubSeqIs
<1> HIDE DEF len
<1> QED
  BY <1>2, <1>4, <1>8, <1>10, <1>11, <1>12

LEMMA IconsAreFound ==
  ASSUME CallsKept
  PROVE  IconsAreTheirs
<1> SUFFICES ASSUME Build.ok, Total < Width, NEW n \in DOMAIN Build.credentials
             PROVE  IconBytes(Build, Build.credentials[n]) =
                      (IF CallsOf("credential")[n].icon = None THEN None
                       ELSE LatestBytes(CallsOf("credential")[n].icon))
  BY DEF IconsAreTheirs
<1> DEFINE icon == credentials[n].icon
<1>1. /\ Build.credentials = [m \in DOMAIN credentials |->
                           [id |-> credentials[m].id,
                            icon |-> IF credentials[m].icon = None \/ ~HasOffset(credentials[m].icon)
                                     THEN None ELSE OffsetOf(credentials[m].icon)]]
      /\ Build.icons = IconSection
  BY OkMeansNoneDangles, BuildPasses
<1>2. n \in DOMAIN credentials
  BY <1>1
<1>3. /\ icon = CallsOf("credential")[n].icon
      /\ Build.credentials[n].icon = IF icon = None \/ ~HasOffset(icon) THEN None ELSE OffsetOf(icon)
      /\ icon # None => HasOffset(icon)
  <2>1. ~Dangles(credentials[n])
    BY <1>2, OkMeansNoneDangles
  <2> QED
    BY <1>1, <1>2, <2>1, CredentialsAre DEF Dangles
<1> HIDE DEF icon
<1>4. CASE icon = None
  BY <1>3, <1>4 DEF IconBytes
<1>5. CASE icon # None
  <2> DEFINE at == OffsetOf(icon)
             end == at.start + at.len
  <2>1. HasOffset(icon) /\ Build.credentials[n].icon = at
    BY <1>3, <1>5
  <2>2. /\ at \in [start : Nat, len : Nat]
        /\ end < Width /\ end <= Len(IconSection) /\ Len(IconSection) \in Nat
        /\ SubSeq(IconSection, at.start + 1, end) = LatestBytes(icon)
    BY <2>1, IconIsThere
  <2>3. at # None
    BY <2>2, BuilderAssumption DEF BuilderAssumption
  <2>4. Width \in Nat
    BY BuilderAssumption DEF BuilderAssumption
  <2>5. ~(end >= Width \/ end > Len(IconSection))
    BY <2>2, <2>4
  <2> HIDE DEF at
  <2> QED
    BY <1>1, <1>3, <1>5, <2>1, <2>2, <2>3, <2>5 DEF IconBytes
<1> QED
  BY <1>4, <1>5

THEOREM UnknownIconsAreTold == BuilderSpec => []UnknownIconIsTold
  BY CallsAreKept, BuildTells, PTL

THEOREM NoCallIsLost == BuilderSpec => []NothingIsLost
  BY CallsAreKept, BlobHoldsAll, PTL

THEOREM EveryIconIsFound == BuilderSpec => []IconsAreTheirs
  BY CallsAreKept, IconsAreFound, PTL
=============================================================================
