-------------------------- MODULE CredentialReads --------------------------
(***************************************************************************)
(* How a matcher gets the credential blob (android-credman: host.rs and    *)
(* reader.rs): Host::credentials, which reads it whole in as many host     *)
(* calls as it takes, and CredentialReader, which streams it with Read and *)
(* Seek. The host is the one of siros-dc-matcher-testhost: it may copy     *)
(* less than it was asked for, stall, or report more than it copied.       *)
(***************************************************************************)
EXTENDS Integers, Sequences

CONSTANTS
  Blob,        \* the blobs a wallet may register
  Byte,
  Zero,        \* the byte of a fresh buffer, told apart from a copied one
  MaxUsize,    \* usize::MAX
  MaxPosition, \* u64::MAX
  OutLength,   \* lengths of the buffers a decoder reads into
  Offset       \* offsets it seeks by

ASSUME ReadsAssumption ==
  /\ Zero \notin Byte
  /\ MaxUsize \in Nat /\ MaxPosition \in Nat /\ MaxUsize <= MaxPosition
  /\ \A b \in Blob : b \in Seq(Byte) /\ Len(b) <= MaxUsize
  /\ OutLength \subseteq Nat /\ Offset \subseteq Int

VARIABLES
  blob,        \* what the host holds
  answers,     \* how it answers: "short", "over" or "stall"
  phase,       \* of credentials(): "idle", "reading", "returned"; or "trapped"
  buffer, delivered,
  position,    \* of the CredentialReader
  out          \* the bytes the last read reported into the caller's buffer

whole == <<phase, buffer, delivered>>
stream == <<position, out>>
vars == <<blob, answers, whole, stream>>

Init ==
  /\ blob \in Blob
  /\ answers \in {"short", "over", "stall"}
  /\ phase = "idle" /\ buffer = << >> /\ delivered = 0
  /\ position = 0 /\ out = << >>

Size == Len(blob)

Minimum(m, n) == IF m <= n THEN m ELSE n

(* What one ReadCredentialsBuffer copies and what it reports.               *)
Answer(offset, asked) ==
  LET most == Minimum(asked, IF offset < Size THEN Size - offset ELSE 0)
  IN CASE answers = "short" -> {[copied |-> n, reported |-> n] :
                                  n \in IF most = 0 THEN {0} ELSE 1..most}
       [] answers = "over"  -> {[copied |-> most, reported |-> most + 1]}
       [] answers = "stall" -> {[copied |-> 0, reported |-> 0]}

(* Mutant: the count is compared with the buffer only. *)
TrustedWithinBuffer(answer, offset, asked) ==
  answer.reported <= asked /\ answer.reported > 0

(* Mutant: a host that copies nothing is asked again. *)
TrustedEvenIfEmpty(answer, offset, asked) ==
  answer.reported <= asked /\ answer.reported <= Size - offset

(* Mutant: the last byte of the blob is taken for one past its end. *)
TrustedBeforeLast(answer, offset, asked) ==
  answer.reported <= asked /\ answer.reported > 0 /\ answer.reported < Size - offset

(* The three assertions of read_credentials_before_end. *)
Trusted(answer, offset, asked) ==
  /\ answer.reported <= asked
  /\ answer.reported > 0
  /\ answer.reported <= (IF offset < Size THEN Size - offset ELSE 0)

-----------------------------------------------------------------------------
(* Host::credentials. *)
Credentials ==
  /\ phase = "idle"
  /\ phase' = "reading"
  /\ buffer' = [i \in 1..Size |-> Zero] /\ delivered' = 0
  /\ UNCHANGED <<blob, answers, stream>>

(* Mutant: every call asks for the blob from its start. *)
ReadFromStart == 0

ReadFrom == delivered

ReadRest ==
  /\ phase = "reading" /\ delivered < Len(buffer)
  /\ LET asked == Len(buffer) - delivered
     IN \E answer \in Answer(ReadFrom, asked) :
          /\ buffer' = [i \in DOMAIN buffer |->
                          IF i \in (delivered + 1)..(delivered + answer.copied)
                          THEN blob[ReadFrom + (i - delivered)] ELSE buffer[i]]
          /\ IF Trusted(answer, ReadFrom, asked)
             THEN delivered' = delivered + answer.reported /\ UNCHANGED phase
             ELSE phase' = "trapped" /\ UNCHANGED delivered
  /\ UNCHANGED <<blob, answers, stream>>

Return ==
  /\ phase = "reading" /\ delivered >= Len(buffer)
  /\ phase' = "returned"
  /\ UNCHANGED <<blob, answers, buffer, delivered, stream>>

(* The guest is single-threaded: nothing else runs while it reads, and       *)
(* nothing at all after a trap.                                              *)
Free == phase \in {"idle", "returned"}

Advance(asked, reported) == reported

(* CredentialReader::read, into a buffer of the given length. *)
Read(asked) ==
  /\ Free
  /\ IF position > MaxUsize \/ position >= Size \/ asked = 0
     THEN out' = << >> /\ UNCHANGED <<position, phase>>
     ELSE \E answer \in Answer(position, asked) :
            IF Trusted(answer, position, asked)
            THEN /\ out' = [i \in 1..answer.reported |->
                              IF i <= answer.copied THEN blob[position + i] ELSE Zero]
                 /\ position' = position + Advance(asked, answer.reported)
                 /\ UNCHANGED phase
            ELSE phase' = "trapped" /\ UNCHANGED <<position, out>>
  /\ UNCHANGED <<blob, answers, buffer, delivered>>

(* CredentialReader::seek; a target that is no u64 is an error and leaves the *)
(* position.                                                                 *)
Seek(target) ==
  /\ Free
  /\ position' = IF target \in 0..MaxPosition THEN target ELSE position
  /\ UNCHANGED <<blob, answers, whole, out>>

(* From the start by an unsigned offset, from the end or the position by a    *)
(* signed one.                                                               *)
Stream ==
  \/ \E asked \in OutLength : Read(asked)
  \/ \E by \in Offset : \/ by \in 0..MaxPosition /\ Seek(by)
                       \/ Seek(Size + by)
                       \/ Seek(position + by)

Next == Credentials \/ ReadRest \/ Return \/ Stream

(* The call goes on until it returns or traps; a decoder need not read. *)
Spec == Init /\ [][Next]_vars /\ WF_vars(ReadRest) /\ WF_vars(Return)

-----------------------------------------------------------------------------
TypeOK ==
  /\ blob \in Blob
  /\ answers \in {"short", "over", "stall"}
  /\ phase \in {"idle", "reading", "returned", "trapped"}
  /\ buffer \in Seq(Byte \cup {Zero})
  /\ delivered \in Nat
  /\ position \in 0..MaxPosition
  /\ out \in Seq(Byte \cup {Zero})

(* credentials() returns the blob of the wallet, however short the host's    *)
(* reads are (credential_reads.rs: "a host that copies one byte per call     *)
(* yields the output of a host that copies it whole").                       *)
ReturnsTheBlob == phase = "returned" => buffer = blob

(* A host that keeps the contract never traps the matcher, whatever is read  *)
(* and wherever a decoder seeks.                                             *)
HonestHostNeverTraps == answers = "short" => phase # "trapped"

(* Of a host that breaks the contract no byte is believed: no call counts as *)
(* delivered, no read advances, and only an empty blob is returned.          *)
BrokenHostIsNotBelieved ==
  answers # "short" => /\ delivered = 0 /\ out = << >>
                       /\ phase = "returned" => blob = << >>

(* A read hands over the blob's bytes at the position, at least one before   *)
(* the end, and moves the position past them: consecutive reads neither skip *)
(* nor repeat a byte (std::io::Read).                                        *)
HandsOver(asked) ==
  /\ position' = position + Len(out')
  /\ Len(out') <= asked
  /\ position < Size /\ asked > 0 => out' # << >>
  /\ out' = SubSeq(blob, position + 1, position + Len(out'))

ReadsAreInOrder ==
  [][\A asked \in OutLength : Read(asked) => phase' = "trapped" \/ HandsOver(asked)]_vars

(* The loop ends: a host that stalls cannot keep the matcher, and with it    *)
(* the picker, waiting.                                                      *)
CallEnds == phase = "reading" ~> phase \in {"returned", "trapped"}
=============================================================================
