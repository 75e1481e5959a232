----------------------------- MODULE PickerHost -----------------------------
(***************************************************************************)
(* The picker's side of the matcher ABI, as the test host records it       *)
(* (siros-dc-matcher-testhost): the sets declared, the entries added, and  *)
(* what later calls attach to them. The real host is Play Services and     *)
(* closed; what it makes of the calls is Shown.                            *)
(***************************************************************************)
EXTENDS Basics, FiniteSets

CONSTANTS
  SetId, CredId, Field, Icon,
  Data         \* the JSON values a matcher may attach

Key == [set : SetId, index : Nat, id : CredId]

(* The standard metadata object, which the host hands the wallet on selection. *)
MetadataObject == [level : Nat, skipped : BOOLEAN, data : {None} \cup Data]

(* One entry as captured; an icon without bytes is none. *)
CapturedEntry ==
  [key : Key, icon : {None} \cup Icon, info : BOOLEAN, metadata : MetadataObject,
   fields : Seq(Field), delegation : {None} \cup {0, 1}, link : BOOLEAN, text : BOOLEAN]

HostState ==
  [sets : Seq([id : SetId, length : Nat]), entries : Seq(CapturedEntry), trapped : BOOLEAN]

FreshHost == [sets |-> << >>, entries |-> << >>, trapped |-> FALSE]

Trap(host) == [host EXCEPT !.trapped = TRUE]

AddEntrySet(host, id, length) ==
  [host EXCEPT !.sets = Append(@, [id |-> id, length |-> length])]

Add(host, key, icon, info, metadata) ==
  [host EXCEPT !.entries = Append(@,
     [key |-> key, icon |-> icon, info |-> info, metadata |-> metadata,
      fields |-> << >>, delegation |-> None, link |-> FALSE, text |-> FALSE])]

AddEntryToSet(host, key, icon, metadata) == Add(host, key, icon, FALSE, metadata)

(* A call above the reported level traps (`reached`). *)
Reached(reported, level) == reported >= level

(* The first entry added at the key (`entry_at`). *)
IsEntryAt(host, key, n) ==
  /\ n \in DOMAIN host.entries /\ host.entries[n].key = key
  /\ \A m \in 1..(n - 1) : host.entries[m].key # key

Known(host, key) == \E n \in DOMAIN host.entries : host.entries[n].key = key

EntryAt(host, key) == CHOOSE n \in DOMAIN host.entries : IsEntryAt(host, key, n)

AddFieldToEntrySet(host, key, field) ==
  IF Known(host, key)
  THEN [host EXCEPT !.entries[EntryAt(host, key)].fields = Append(@, field)]
  ELSE Trap(host)

AddMetadataDisplayTextToEntrySet(host, reported, key) ==
  IF Reached(reported, 5) /\ Known(host, key)
  THEN [host EXCEPT !.entries[EntryAt(host, key)].text = TRUE] ELSE Trap(host)

SetAdditionalDisclaimerAndUrl(host, reported, key) ==
  IF Reached(reported, 6) /\ Known(host, key)
  THEN [host EXCEPT !.entries[EntryAt(host, key)].link = TRUE] ELSE Trap(host)

SetDelegationTypeForEntryInSet(host, reported, key, delegation) ==
  IF Reached(reported, 7) /\ Known(host, key)
  THEN [host EXCEPT !.entries[EntryAt(host, key)].delegation = delegation] ELSE Trap(host)

(* The payment calls: level 2, and level 3 for the one with more text. *)
AddPaymentEntryToSet(host, key, icon, metadata) == Add(host, key, icon, FALSE, metadata)

AddPaymentEntryToSetV2(host, reported, key, icon, info, metadata) ==
  IF Reached(reported, 3) THEN Add(host, key, icon, info, metadata) ELSE Trap(host)

-----------------------------------------------------------------------------
(* What the picker makes of it (ABI.md 2 and 6, main.rs Diagnostics): a trap  *)
(* or a set id declared twice discards everything, an entry without an image  *)
(* is dropped, and the user picks a set whole.                                *)
Discarded(host) ==
  \/ host.trapped
  \/ \E i, j \in DOMAIN host.sets : i # j /\ host.sets[i].id = host.sets[j].id

Shown(host) ==
  IF Discarded(host) THEN << >>
  ELSE Picked(host.entries, {n \in DOMAIN host.entries : host.entries[n].icon # None})
=============================================================================
