------------------------------ MODULE EntrySets ------------------------------
(***************************************************************************)
(* Sending entry sets to the host (android-credman: sets_on_host.rs and    *)
(* set.rs). One step is one host call, or its omission on a host below the *)
(* call's level:                                                           *)
(*                                                                         *)
(*   add_entry_set: declare, then for every alternative of every slot      *)
(*     "add" -> "delegation" -> "link" -> "fields" (one by one) -> "text"  *)
(***************************************************************************)
EXTENDS PickerHost, SequencesExt

(* One alternative of a slot, as its builder leaves it. *)
SetEntry ==
  [id : CredId, kind : {"verification", "payment"}, icon : {None} \cup Icon, info : BOOLEAN,
   data : {None} \cup Data, delegation : {None} \cup {0, 1}, link : BOOLEAN, text : BOOLEAN,
   fields : Seq(Field)]

(* A set that may be sent. What the builders of set.rs cannot enforce is their *)
(* callers' part: the alternatives of one slot have distinct ids.             *)
WellFormedSet ==
  {s \in [id : SetId, slots : Seq(Seq(SetEntry))] :
     /\ s.slots # << >>
     /\ \A i \in DOMAIN s.slots :
          /\ s.slots[i] # << >>
          /\ \A a \in DOMAIN s.slots[i] :
               /\ s.slots[i][a].info => s.slots[i][a].kind = "payment"
               /\ \A b \in DOMAIN s.slots[i] :
                    s.slots[i][a].id = s.slots[i][b].id => a = b}

ASSUME NoneIsNoSet == None \notin [id : SetId, slots : Seq(Seq(SetEntry))]

VARIABLES
  level,       \* Credman::level, read once by connect
  default,     \* the host's default delegation
  set,         \* the set being sent; None between calls
  slot, alt,   \* the position and the alternative being sent
  part, field, \* the next call for it, and its next field
  host,
  sent         \* the sets handed to add_entry_set, in order

sending == <<set, slot, alt, part, field>>
sink == <<level, default, sending, host, sent>>

InitSink(reported, delegation) ==
  /\ level = reported
  /\ default = delegation
  /\ set = None /\ slot = 1 /\ alt = 1 /\ part = "add" /\ field = 1
  /\ host = FreshHost
  /\ sent = << >>

Idle == set = None

(* A trap ends the guest in the middle of a call. *)
Sending == ~Idle /\ ~host.trapped

Entry == set.slots[slot][alt]

(* Mutant: every entry is named as if it were in the first position. *)
EntryKeyAtZero == [set |-> set.id, index |-> 0, id |-> Entry.id]

EntryKey == [set |-> set.id, index |-> slot - 1, id |-> Entry.id]

(* SetEntry::display_skipped. *)
DisplaySkipped(entry) ==
  \/ entry.info /\ level < 3
  \/ entry.text /\ level < 5
  \/ entry.link /\ level < 6

(* The standard metadata object, written before any option is sent. *)
Metadata(entry) ==
  [level |-> level, skipped |-> DisplaySkipped(entry), data |-> entry.data]

-----------------------------------------------------------------------------
SlotCount(s) == Len(s.slots)

AddSet(s) ==
  /\ Idle
  /\ set' = s /\ slot' = 1 /\ alt' = 1 /\ part' = "add" /\ field' = 1
  /\ host' = AddEntrySet(host, s.id, SlotCount(s))
  /\ sent' = Append(sent, s)
  /\ UNCHANGED <<level, default>>

(* The kind selects the call, and the host its best one. *)
AddEntry ==
  /\ Sending /\ part = "add"
  /\ host' = IF Entry.kind = "verification"
             THEN AddEntryToSet(host, EntryKey, Entry.icon, Metadata(Entry))
             ELSE IF level >= 3
             THEN AddPaymentEntryToSetV2(host, level, EntryKey, Entry.icon, Entry.info, Metadata(Entry))
             ELSE AddPaymentEntryToSet(host, EntryKey, Entry.icon, Metadata(Entry))
  /\ part' = "delegation" /\ field' = 1
  /\ UNCHANGED <<level, default, sent, set, slot, alt>>

(* Mutant: the host's default overrides the entry's own. *)
DelegationDefaultFirst == IF default # None THEN default ELSE Entry.delegation

Delegation == IF Entry.delegation # None THEN Entry.delegation ELSE default

SendDelegation ==
  /\ Sending /\ part = "delegation"
  /\ host' = IF Delegation # None /\ level >= 7
             THEN SetDelegationTypeForEntryInSet(host, level, EntryKey, Delegation) ELSE host
  /\ part' = "link"
  /\ UNCHANGED <<level, default, sent, set, slot, alt, field>>

SendLink ==
  /\ Sending /\ part = "link"
  /\ host' = IF Entry.link /\ level >= 6
             THEN SetAdditionalDisclaimerAndUrl(host, level, EntryKey) ELSE host
  /\ part' = "fields"
  /\ UNCHANGED <<level, default, sent, set, slot, alt, field>>

SendField ==
  /\ Sending /\ part = "fields" /\ field \in DOMAIN Entry.fields
  /\ host' = AddFieldToEntrySet(host, EntryKey, Entry.fields[field])
  /\ field' = field + 1
  /\ UNCHANGED <<level, default, sent, set, slot, alt, part>>

(* Mutant: the gate lets a level-4 host through. *)
TextReachesFour == level >= 4

TextReaches == level >= 5

(* The entry is complete: its display text, and on to the next one, slot by *)
(* slot, until the call returns.                                            *)
SendText ==
  /\ Sending /\ part = "fields" /\ field \notin DOMAIN Entry.fields
  /\ host' = IF Entry.text /\ TextReaches
             THEN AddMetadataDisplayTextToEntrySet(host, level, EntryKey) ELSE host
  /\ part' = "add" /\ field' = 1
  /\ IF alt < Len(set.slots[slot])
     THEN alt' = alt + 1 /\ UNCHANGED <<set, slot>>
     ELSE /\ alt' = 1
          /\ IF slot < Len(set.slots) THEN slot' = slot + 1 /\ UNCHANGED set
             ELSE slot' = 1 /\ set' = None
  /\ UNCHANGED <<level, default, sent>>

Send == AddEntry \/ SendDelegation \/ SendLink \/ SendField \/ SendText

=============================================================================
