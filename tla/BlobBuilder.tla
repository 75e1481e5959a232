---------------------------- MODULE BlobBuilder ----------------------------
(***************************************************************************)
(* The object with which a wallet builds the blob it registers             *)
(* (siros-dc-matcher-ffi: SirosBlobBuilder), and the lookup with which the *)
(* matcher finds an icon in it again (CredentialDatabase::icon_bytes).     *)
(* Every method takes the lock for its whole body, so the calls of the     *)
(* wallet's threads are steps, in any order; a thread may die holding it.  *)
(***************************************************************************)
EXTENDS Basics, SequencesExt

CONSTANTS
  CredId, IconId, Capability, IconByte,
  Icon,        \* the byte strings the wallet has as icons
  Width,       \* 2^32: offsets and lengths in the blob are u32
  MaxCalls     \* bounds the calls that add something

ASSUME BuilderAssumption ==
  /\ Width \in Nat \ {0} /\ MaxCalls \in Nat
  /\ Icon \subseteq Seq(IconByte)
  /\ None \notin IconId /\ None \notin [start : Nat, len : Nat]

VARIABLES
  credentials, icons, zk_systems, zkp_req_systems, debug,
  poisoned,    \* the mutex's flag
  calls        \* what the wallet called, in order; no part of the object

state == <<credentials, icons, zk_systems, zkp_req_systems, debug>>
builder == <<state, poisoned, calls>>

BuilderInit ==
  /\ credentials = << >> /\ icons = << >>
  /\ zk_systems = << >> /\ zkp_req_systems = << >> /\ debug = FALSE
  /\ poisoned = FALSE
  /\ calls = << >>

(* Mutant: an update is dropped if a thread has died ("if let Ok"). *)
UpdatesUnlessPoisoned == ~poisoned

(* The lock is recovered from a thread that died holding it. *)
Updates == TRUE

-----------------------------------------------------------------------------
Called(call) == Len(calls) < MaxCalls /\ calls' = Append(calls, call) /\ UNCHANGED poisoned

AddCredential(id, icon) ==
  /\ Called([op |-> "credential", id |-> id, icon |-> icon])
  /\ credentials' = IF Updates THEN Append(credentials, [id |-> id, icon |-> icon]) ELSE credentials
  /\ UNCHANGED <<icons, zk_systems, zkp_req_systems, debug>>

WithIcon(id, bytes) ==
  Append(Picked(icons, {i \in DOMAIN icons : icons[i].id # id}), [id |-> id, bytes |-> bytes])

AddIcon(id, bytes) ==
  /\ Called([op |-> "icon", id |-> id, bytes |-> bytes])
  /\ icons' = IF Updates THEN WithIcon(id, bytes) ELSE icons
  /\ UNCHANGED <<credentials, zk_systems, zkp_req_systems, debug>>

AddZkSystem(capability) ==
  /\ Called([op |-> "zk", capability |-> capability])
  /\ zk_systems' = IF Updates THEN Append(zk_systems, capability) ELSE zk_systems
  /\ UNCHANGED <<credentials, icons, zkp_req_systems, debug>>

AddZkpReqSystem(capability) ==
  /\ Called([op |-> "zkp_req", capability |-> capability])
  /\ zkp_req_systems' = IF Updates THEN Append(zkp_req_systems, capability) ELSE zkp_req_systems
  /\ UNCHANGED <<credentials, icons, zk_systems, debug>>

SetDebug(value) ==
  /\ Called([op |-> "debug", value |-> value])
  /\ debug' = IF Updates THEN value ELSE debug
  /\ UNCHANGED <<credentials, icons, zk_systems, zkp_req_systems>>

(* A thread panics inside a method and leaves the mutex poisoned. Nothing in *)
(* the bodies panics between two writes, so none is half done.               *)
Panic == ~poisoned /\ poisoned' = TRUE /\ UNCHANGED <<state, calls>>

BuilderNext ==
  \/ \E id \in CredId, icon \in {None} \cup IconId : AddCredential(id, icon)
  \/ \E id \in IconId, bytes \in Icon : AddIcon(id, bytes)
  \/ \E c \in Capability : AddZkSystem(c) \/ AddZkpReqSystem(c)
  \/ \E d \in BOOLEAN : SetDebug(d)
  \/ Panic

BuilderSpec == BuilderInit /\ [][BuilderNext]_builder

-----------------------------------------------------------------------------
(* build: it changes nothing, so it is an operator on the state.             *)

IconSection == FlattenSeq([i \in DOMAIN icons |-> icons[i].bytes])

(* Mutant: taken after the bytes are in. *)
StartOfNext(i) == Len(FlattenSeq([j \in 1..i |-> icons[j].bytes]))

StartOf(i) == Len(FlattenSeq([j \in 1..(i - 1) |-> icons[j].bytes]))

AsU32(n) == n % Width

(* The reference offsets.get finds: the last inserted under the id. *)
HasOffset(id) == \E i \in DOMAIN icons : icons[i].id = id

OffsetOf(id) ==
  LET i == CHOOSE n \in DOMAIN icons :
             icons[n].id = id /\ \A m \in (n + 1)..Len(icons) : icons[m].id # id
  IN [start |-> AsU32(StartOf(i)), len |-> AsU32(Len(icons[i].bytes))]

(* Mutant: a dangling reference costs the credential its picture. *)
DanglesNever(c) == FALSE

Dangles(c) == c.icon # None /\ ~HasOffset(c.icon)

CapabilityKeys ==
  (IF zk_systems # << >> THEN {"zk"} ELSE {}) \cup (IF zkp_req_systems # << >> THEN {"zkp_req"} ELSE {})

Build ==
  IF \E n \in DOMAIN credentials : Dangles(credentials[n])
  THEN LET n == CHOOSE k \in DOMAIN credentials :
                  Dangles(credentials[k]) /\ \A j \in 1..(k - 1) : ~Dangles(credentials[j])
       IN [ok |-> FALSE, credential_id |-> credentials[n].id, icon_id |-> credentials[n].icon]
  ELSE [ok |-> TRUE,
        credentials |-> [n \in DOMAIN credentials |->
                           [id |-> credentials[n].id,
                            icon |-> IF credentials[n].icon = None \/ ~HasOffset(credentials[n].icon)
                                     THEN None ELSE OffsetOf(credentials[n].icon)]],
        icons |-> IconSection,
        capabilities |-> [k \in CapabilityKeys |->
                            IF k = "zk" THEN zk_systems ELSE zkp_req_systems],
        debug |-> debug]

(* On the matcher's side, whose usize is 32 bits wide too. *)
IconBytes(blob, c) ==
  IF c.icon = None THEN None
  ELSE LET end == c.icon.start + c.icon.len
       IN IF end >= Width \/ end > Len(blob.icons) THEN None
          ELSE SubSeq(blob.icons, c.icon.start + 1, end)

-----------------------------------------------------------------------------
(* What the blob says, told from the calls the wallet made and from nothing  *)
(* the builder keeps.                                                        *)

CallsOf(op) == Picked(calls, {n \in DOMAIN calls : calls[n].op = op})

Adds(n, icon) == calls[n].op = "icon" /\ calls[n].id = icon

WasAdded(icon) == \E n \in DOMAIN calls : Adds(n, icon)

IsLatest(n, icon) == Adds(n, icon) /\ \A m \in (n + 1)..Len(calls) : ~Adds(m, icon)

(* The bytes an icon id stands for: those it was last added with.            *)
LatestBytes(icon) == calls[CHOOSE n \in DOMAIN calls : IsLatest(n, icon)].bytes

(* The calls whose icons are in the blob: those after which their id was not *)
(* added again.                                                              *)
Current == Picked(calls, {n \in DOMAIN calls : IsLatest(n, calls[n].id)})

Total == Len(FlattenSeq([n \in DOMAIN Current |-> Current[n].bytes]))

(* build fails exactly when a credential names an icon that was never added, *)
(* and names the first such credential: no dangling reference costs one its  *)
(* picture with nothing said.                                                *)
UnknownIconIsTold ==
  LET added == CallsOf("credential")
      unknown == {n \in DOMAIN added : added[n].icon # None /\ ~WasAdded(added[n].icon)}
  IN /\ Build.ok <=> unknown = {}
     /\ ~Build.ok => \E n \in unknown :
                       /\ \A m \in unknown : n <= m
                       /\ Build.credential_id = added[n].id /\ Build.icon_id = added[n].icon

(* Nothing a wallet added is missing from the blob, whichever of its threads *)
(* died in between (lib.rs: "Silent data loss across an FFI boundary is      *)
(* close to undebuggable").                                                  *)
NothingIsLost ==
  Build.ok =>
    LET added == CallsOf("credential")
        switched == CallsOf("debug")
    IN /\ [n \in DOMAIN Build.credentials |-> Build.credentials[n].id]
            = [n \in DOMAIN added |-> added[n].id]
       /\ \A k \in {"zk", "zkp_req"} :
            LET declared == [n \in DOMAIN CallsOf(k) |-> CallsOf(k)[n].capability]
            IN IF declared = << >> THEN k \notin DOMAIN Build.capabilities
               ELSE k \in DOMAIN Build.capabilities /\ Build.capabilities[k] = declared
       /\ Build.debug = (switched # << >> /\ Last(switched).value)

(* The matcher finds, for each credential, the bytes its icon was last added *)
(* with, whatever was added, replaced and shared around it, as long as the   *)
(* icons together are shorter than 2^32 bytes.                               *)
IconsAreTheirs ==
  Build.ok /\ Total < Width =>
    \A n \in DOMAIN Build.credentials :
      IconBytes(Build, Build.credentials[n]) =
        (IF CallsOf("credential")[n].icon = None THEN None
         ELSE LatestBytes(CallsOf("credential")[n].icon))

(* What a comment says of the builder's collections, as the reason why a     *)
(* poisoned lock can be recovered: they are append-only (lib.rs:154).        *)
AppendOnly ==
  [][/\ IsPrefix(credentials, credentials') /\ IsPrefix(icons, icons')
     /\ IsPrefix(zk_systems, zk_systems') /\ IsPrefix(zkp_req_systems, zkp_req_systems')]_builder
=============================================================================
