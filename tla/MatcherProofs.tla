--------------------------- MODULE MatcherProofs ---------------------------
(***************************************************************************)
(* Proofs about the sending of entry sets to any host and about a whole    *)
(* invocation of the matcher, which composes it with the DCQL engine.      *)
(*                                                                         *)
(* First the sink alone, for every host level and every choice of sets     *)
(* whose slots name each credential once (SinkNext): AnySets and           *)
(* MatcherRun both send through it.  Then the invocation: the engine's     *)
(* invariants are kept by a run, what the run hands to the sink is of the  *)
(* sink's sets, and RunInv says what has been sent when it is over.  Last, *)
(* what the picker shows of it, against the promise made to the user.      *)
(***************************************************************************)
EXTENDS AnySets, DcqlProofs, MatcherRun

(* A host that has entry sets, and any sequence of well-formed sets, each id  *)
(* once: what AnySets and MatcherRun do with the sink.                        *)
SinkInit == \E l \in Nat, mode \in {None, 0, 1} : l >= 2 /\ InitSink(l, mode)

Declaring == \E s \in WellFormedSet : ~Declared(s.id) /\ AddSet(s)

SinkNext == Declaring \/ Send

SinkTypeOK ==
  /\ level \in Nat /\ level >= 2 /\ default \in {None, 0, 1}
  /\ set = None \/ set \in WellFormedSet
  /\ slot \in Nat \ {0} /\ alt \in Nat \ {0} /\ field \in Nat \ {0}
  /\ part \in {"add", "delegation", "link", "fields"}
  /\ host \in HostState
  /\ sent \in Seq(WellFormedSet)

LEMMA SetsAreWellFormed ==
  /\ None \notin WellFormedSet
  /\ \A s \in WellFormedSet :
       /\ s \in [id : SetId, slots : Seq(Seq(SetEntry))]
       /\ s.slots # << >>
       /\ \A i \in DOMAIN s.slots :
            /\ s.slots[i] # << >>
            /\ \A a \in DOMAIN s.slots[i] :
                 /\ s.slots[i][a].info => s.slots[i][a].kind = "payment"
                 /\ \A b \in DOMAIN s.slots[i] :
                      s.slots[i][a].id = s.slots[i][b].id => a = b
BY Zenon, NoneIsNoSet DEF WellFormedSet

(* Where the loops of add_entry_set stand. *)
SendCursor ==
  /\ Idle => part = "add"
  /\ ~Idle => /\ set \in WellFormedSet /\ Declared(set.id)
              /\ slot \in DOMAIN set.slots /\ alt \in DOMAIN set.slots[slot]

(* The key of an entry sent before the current one. *)
Earlier(key) ==
  key.set = set.id =>
    \/ key.index < slot - 1
    \/ key.index = slot - 1 /\ \E b \in 1..(alt - 1) : key.id = set.slots[slot][b].id

(* What the host has so far: entries of declared sets, all before the current *)
(* one, which is the last as soon as it is added.                            *)
Keys ==
  /\ \A n \in DOMAIN host.entries : Declared(host.entries[n].key.set)
  /\ ~Idle /\ part = "add" => \A n \in DOMAIN host.entries : Earlier(host.entries[n].key)
  /\ ~Idle /\ part # "add" =>
       /\ Len(host.entries) > 0
       /\ host.entries[Len(host.entries)].key = EntryKey
       /\ \A n \in 1..(Len(host.entries) - 1) : Earlier(host.entries[n].key)

SinkInv == SinkTypeOK /\ NeverTraps /\ SendCursor /\ Keys

-----------------------------------------------------------------------------
LEMMA HostFacts ==
  ASSUME SinkTypeOK
  PROVE  /\ host = [sets |-> host.sets, entries |-> host.entries, trapped |-> host.trapped]
         /\ host.sets \in Seq([id : SetId, length : Nat])
         /\ host.entries \in Seq(CapturedEntry) /\ host.trapped \in BOOLEAN
         /\ DOMAIN host.entries = 1..Len(host.entries) /\ Len(host.entries) \in Nat
         /\ level \in Nat /\ level >= 2
BY SetsAreWellFormed DEF SinkTypeOK, HostState

(* The entry being sent. *)
LEMMA EntryFacts ==
  ASSUME SinkInv, ~Idle
  PROVE  /\ set \in WellFormedSet /\ set.id \in SetId
         /\ slot \in Nat \ {0} /\ alt \in Nat \ {0}
         /\ Entry \in SetEntry /\ EntryKey \in Key
         /\ set.slots[slot] \in Seq(SetEntry) /\ set.slots \in Seq(Seq(SetEntry))
         /\ Len(set.slots) \in Nat /\ Len(set.slots[slot]) \in Nat
         /\ DOMAIN set.slots = 1..Len(set.slots)
         /\ DOMAIN set.slots[slot] = 1..Len(set.slots[slot])
         /\ \A a, b \in DOMAIN set.slots[slot] :
              set.slots[slot][a].id = set.slots[slot][b].id => a = b
<1>1. /\ set \in WellFormedSet /\ slot \in DOMAIN set.slots /\ alt \in DOMAIN set.slots[slot]
      /\ slot \in Nat \ {0} /\ alt \in Nat \ {0}
  BY DEF SinkInv, SendCursor, SinkTypeOK
<1>2. set \in [id : SetId, slots : Seq(Seq(SetEntry))]
  BY <1>1, SetsAreWellFormed
<1>3. set.id \in SetId /\ set.slots \in Seq(Seq(SetEntry))
  BY <1>2
<1>4. set.slots[slot] \in Seq(SetEntry)
  BY <1>1, <1>3
<1>5. Entry \in SetEntry
  BY <1>1, <1>4 DEF Entry
<1>6. EntryKey \in Key
  BY <1>1, <1>3, <1>5 DEF EntryKey, Key, SetEntry
<1>7. \A a, b \in DOMAIN set.slots[slot] :
        set.slots[slot][a].id = set.slots[slot][b].id => a = b
  BY <1>1, SetsAreWellFormed
<1> QED BY <1>1, <1>3, <1>4, <1>5, <1>6, <1>7

(* No earlier entry has the key of the current one. *)
LEMMA EarlierIsOther ==
  ASSUME SinkInv, ~Idle, NEW key \in Key, Earlier(key)
  PROVE  key # EntryKey
<1> SUFFICES ASSUME key = EntryKey PROVE FALSE
  OBVIOUS
<1>1. key.set = set.id /\ key.index = slot - 1 /\ key.id = set.slots[slot][alt].id
  BY DEF EntryKey, Entry
<1>2. PICK b \in 1..(alt - 1) : key.id = set.slots[slot][b].id
  BY <1>1, EntryFacts DEF Earlier
<1>3. alt \in DOMAIN set.slots[slot] /\ b \in DOMAIN set.slots[slot]
  BY <1>2, EntryFacts DEF SinkInv, SendCursor
<1>4. \A m, n \in DOMAIN set.slots[slot] :
        set.slots[slot][m].id = set.slots[slot][n].id => m = n
  BY EntryFacts
<1>5. b = alt
  BY <1>1, <1>2, <1>3, <1>4
<1>6. alt \in Nat
  BY EntryFacts
<1> QED BY <1>2, <1>5, <1>6

(* Once added, the current entry is the host's last, and the only one its    *)
(* key finds.                                                                *)
LEMMA LastIsEntry ==
  ASSUME SinkInv, ~Idle, part # "add"
  PROVE  /\ Known(host, EntryKey) /\ EntryAt(host, EntryKey) = Len(host.entries)
         /\ Len(host.entries) \in DOMAIN host.entries
<1> DEFINE last == Len(host.entries)
<1>1. /\ DOMAIN host.entries = 1..last /\ last \in Nat /\ last > 0
      /\ host.entries \in Seq(CapturedEntry)
      /\ host.entries[last].key = EntryKey
      /\ \A n \in 1..(last - 1) : Earlier(host.entries[n].key)
  BY HostFacts DEF SinkInv, Keys
<1> HIDE DEF last
<1>2. \A n \in 1..(last - 1) : host.entries[n].key # EntryKey
  <2> SUFFICES ASSUME NEW n \in 1..(last - 1) PROVE host.entries[n].key # EntryKey
    OBVIOUS
  <2>1. n \in DOMAIN host.entries
    BY <1>1
  <2>2. host.entries[n] \in CapturedEntry
    BY <1>1, <2>1
  <2>3. host.entries[n].key \in Key
    BY <2>2 DEF CapturedEntry
  <2> QED BY <1>1, <2>3, EarlierIsOther
<1>3. IsEntryAt(host, EntryKey, last)
  BY <1>1, <1>2 DEF IsEntryAt
<1>4. \A n : IsEntryAt(host, EntryKey, n) => n = last
  <2> SUFFICES ASSUME NEW n, IsEntryAt(host, EntryKey, n) PROVE n = last
    OBVIOUS
  <2>1. n \in 1..last /\ host.entries[n].key = EntryKey
    BY <1>1 DEF IsEntryAt
  <2> QED BY <1>1, <1>2, <2>1
<1>5. last \in DOMAIN host.entries
  BY <1>1
<1>6. EntryAt(host, EntryKey) = last
  BY <1>3, <1>4, <1>5 DEF EntryAt
<1>7. Known(host, EntryKey)
  BY <1>1, <1>5 DEF Known
<1> QED BY <1>5, <1>6, <1>7 DEF last

-----------------------------------------------------------------------------
(* What a call that attaches something to the current entry leaves alone.   *)
Attached(then) ==
  /\ then.sets = host.sets /\ then.trapped = host.trapped
  /\ then \in HostState
  /\ Len(then.entries) = Len(host.entries)
  /\ \A n \in 1..Len(host.entries) : then.entries[n].key = host.entries[n].key
  /\ \A n \in 1..(Len(host.entries) - 1) : then.entries[n] = host.entries[n]

LEMMA Untouched == ASSUME SinkTypeOK PROVE Attached(host)
BY HostFacts DEF Attached, SinkTypeOK

(* Replacing the last entry by one with its key attaches.                    *)
LEMMA ReplaceLast ==
  ASSUME SinkTypeOK, NEW e \in CapturedEntry, Len(host.entries) > 0,
         e.key = host.entries[Len(host.entries)].key
  PROVE  Attached([host EXCEPT !.entries = [@ EXCEPT ![Len(host.entries)] = e]])
<1> DEFINE entries == [host.entries EXCEPT ![Len(host.entries)] = e]
           then == [host EXCEPT !.entries = entries]
<1>1. /\ host.entries \in Seq(CapturedEntry) /\ DOMAIN host.entries = 1..Len(host.entries)
      /\ Len(host.entries) \in Nat
      /\ host.sets \in Seq([id : SetId, length : Nat]) /\ host.trapped \in BOOLEAN
      /\ host = [sets |-> host.sets, entries |-> host.entries, trapped |-> host.trapped]
  BY HostFacts
<1>2. /\ entries \in Seq(CapturedEntry) /\ Len(entries) = Len(host.entries)
      /\ \A n \in 1..Len(host.entries) : entries[n].key = host.entries[n].key
      /\ \A n \in 1..(Len(host.entries) - 1) : entries[n] = host.entries[n]
  BY <1>1
<1>3. then = [sets |-> host.sets, entries |-> entries, trapped |-> host.trapped]
  <2> HIDE DEF entries
  <2> QED BY <1>1
<1> HIDE DEF entries
<1>4. then \in HostState
  BY <1>1, <1>2, <1>3 DEF HostState
<1>5. Attached(then)
  <2> HIDE DEF then
  <2> QED BY <1>2, <1>3, <1>4 DEF Attached
<1> QED BY <1>5 DEF entries

(* The four calls that attach, made on a host that reaches them.             *)
LEMMA TextAttaches ==
  ASSUME SinkInv, ~Idle, part # "add", level >= 5
  PROVE  Attached(AddMetadataDisplayTextToEntrySet(host, level, EntryKey))
<1> DEFINE last == Len(host.entries)
           e == [host.entries[last] EXCEPT !.text = TRUE]
<1>1. /\ Known(host, EntryKey) /\ EntryAt(host, EntryKey) = last
      /\ last \in DOMAIN host.entries /\ host.entries \in Seq(CapturedEntry) /\ last > 0
  BY LastIsEntry, HostFacts DEF SinkInv
<1>2. e \in CapturedEntry /\ e.key = host.entries[last].key
  <2>1. host.entries[last] \in CapturedEntry
    BY <1>1
  <2> QED BY <2>1 DEF CapturedEntry
<1>3. AddMetadataDisplayTextToEntrySet(host, level, EntryKey)
        = [host EXCEPT !.entries = [@ EXCEPT ![last] = e]]
  BY <1>1 DEF AddMetadataDisplayTextToEntrySet, Reached
<1> HIDE DEF e
<1> QED BY <1>1, <1>2, <1>3, ReplaceLast DEF SinkInv

LEMMA LinkAttaches ==
  ASSUME SinkInv, ~Idle, part # "add", level >= 6
  PROVE  Attached(SetAdditionalDisclaimerAndUrl(host, level, EntryKey))
<1> DEFINE last == Len(host.entries)
           e == [host.entries[last] EXCEPT !.link = TRUE]
<1>1. /\ Known(host, EntryKey) /\ EntryAt(host, EntryKey) = last
      /\ last \in DOMAIN host.entries /\ host.entries \in Seq(CapturedEntry) /\ last > 0
  BY LastIsEntry, HostFacts DEF SinkInv
<1>2. e \in CapturedEntry /\ e.key = host.entries[last].key
  <2>1. host.entries[last] \in CapturedEntry
    BY <1>1
  <2> QED BY <2>1 DEF CapturedEntry
<1>3. SetAdditionalDisclaimerAndUrl(host, level, EntryKey)
        = [host EXCEPT !.entries = [@ EXCEPT ![last] = e]]
  BY <1>1 DEF SetAdditionalDisclaimerAndUrl, Reached
<1> HIDE DEF e
<1> QED BY <1>1, <1>2, <1>3, ReplaceLast DEF SinkInv

LEMMA DelegationAttaches ==
  ASSUME SinkInv, ~Idle, part # "add", level >= 7, NEW mode \in {None} \cup {0, 1}
  PROVE  Attached(SetDelegationTypeForEntryInSet(host, level, EntryKey, mode))
<1> DEFINE last == Len(host.entries)
           e == [host.entries[last] EXCEPT !.delegation = mode]
<1>1. /\ Known(host, EntryKey) /\ EntryAt(host, EntryKey) = last
      /\ last \in DOMAIN host.entries /\ host.entries \in Seq(CapturedEntry) /\ last > 0
  BY LastIsEntry, HostFacts DEF SinkInv
<1>2. e \in CapturedEntry /\ e.key = host.entries[last].key
  <2>1. host.entries[last] \in CapturedEntry
    BY <1>1
  <2> QED BY <2>1 DEF CapturedEntry
<1>3. SetDelegationTypeForEntryInSet(host, level, EntryKey, mode)
        = [host EXCEPT !.entries = [@ EXCEPT ![last] = e]]
  BY <1>1 DEF SetDelegationTypeForEntryInSet, Reached
<1> HIDE DEF e
<1> QED BY <1>1, <1>2, <1>3, ReplaceLast DEF SinkInv

LEMMA FieldAttaches ==
  ASSUME SinkInv, ~Idle, part # "add", NEW f \in Field
  PROVE  Attached(AddFieldToEntrySet(host, EntryKey, f))
<1> DEFINE last == Len(host.entries)
           e == [host.entries[last] EXCEPT !.fields = Append(@, f)]
<1>1. /\ Known(host, EntryKey) /\ EntryAt(host, EntryKey) = last
      /\ last \in DOMAIN host.entries /\ host.entries \in Seq(CapturedEntry) /\ last > 0
  BY LastIsEntry, HostFacts DEF SinkInv
<1>2. e \in CapturedEntry /\ e.key = host.entries[last].key
  <2>1. host.entries[last] \in CapturedEntry
    BY <1>1
  <2>2. Append(host.entries[last].fields, f) \in Seq(Field)
    BY <2>1 DEF CapturedEntry
  <2> QED BY <2>1, <2>2 DEF CapturedEntry
<1>3. AddFieldToEntrySet(host, EntryKey, f)
        = [host EXCEPT !.entries = [@ EXCEPT ![last] = e]]
  BY <1>1 DEF AddFieldToEntrySet
<1> HIDE DEF e
<1> QED BY <1>1, <1>2, <1>3, ReplaceLast DEF SinkInv

-----------------------------------------------------------------------------
LEMMA SinkInitially == SinkInit => SinkInv
<1> SUFFICES ASSUME SinkInit PROVE SinkInv
  OBVIOUS
<1>1. FreshHost \in HostState /\ FreshHost.trapped = FALSE /\ FreshHost.entries = << >>
  BY DEF FreshHost, HostState
<1>2. host = FreshHost /\ Idle /\ part = "add"
  BY DEF SinkInit, InitSink, Idle
<1>3. SinkTypeOK
  BY <1>1 DEF SinkInit, InitSink, SinkTypeOK
<1>4. SendCursor /\ Keys
  BY <1>1, <1>2 DEF SendCursor, Keys
<1> QED BY <1>1, <1>2, <1>3, <1>4 DEF SinkInv, NeverTraps

(* After a call for the current entry the loops stand where they stood.      *)
LEMMA AttachStep ==
  ASSUME SinkInv, ~Idle, part # "add", Attached(host'),
         UNCHANGED <<level, default, sent, set, slot, alt>>,
         part' \in {"delegation", "link", "fields"}, field' \in Nat \ {0}
  PROVE  SinkInv'
<1>1. host' \in HostState /\ ~host'.trapped
  BY DEF Attached, SinkInv, NeverTraps
<1>2. SinkTypeOK'
  BY <1>1 DEF SinkInv, SinkTypeOK
<1>3. ~Idle' /\ SendCursor'
  BY DEF SinkInv, SendCursor, Idle, Attached, Declared
<1>4. /\ DOMAIN host.entries = 1..Len(host.entries) /\ Len(host.entries) \in Nat
      /\ DOMAIN host'.entries = 1..Len(host.entries) /\ Len(host'.entries) = Len(host.entries)
      /\ \A n \in 1..Len(host.entries) : host'.entries[n].key = host.entries[n].key
  <2>1. host'.entries \in Seq(CapturedEntry)
    BY <1>1 DEF HostState
  <2> QED BY <2>1, HostFacts DEF Attached, SinkInv
<1>5. \A n \in DOMAIN host'.entries : Declared(host.entries[n].key.set)'
  BY <1>4 DEF SinkInv, Keys, Declared, Attached
<1>6. EntryKey' = EntryKey
  BY DEF EntryKey, Entry
<1>7. \A key : Earlier(key)' <=> Earlier(key)
  BY DEF Earlier
<1>8. /\ Len(host'.entries) > 0
      /\ host'.entries[Len(host'.entries)].key = EntryKey'
      /\ \A n \in 1..(Len(host'.entries) - 1) : Earlier(host.entries[n].key)'
  <2>1. /\ Len(host.entries) > 0 /\ host.entries[Len(host.entries)].key = EntryKey
        /\ \A n \in 1..(Len(host.entries) - 1) : Earlier(host.entries[n].key)
    BY DEF SinkInv, Keys
  <2>2. \A n \in 1..(Len(host.entries) - 1) : n \in 1..Len(host.entries)
    BY <1>4
  <2>3. host'.entries[Len(host'.entries)].key = EntryKey'
    BY <1>4, <1>6, <2>1
  <2> QED BY <1>4, <1>7, <2>1, <2>2, <2>3 DEF Earlier
<1>9. Keys'
  BY <1>3, <1>5, <1>8 DEF Keys
<1> QED BY <1>1, <1>2, <1>3, <1>9 DEF SinkInv, NeverTraps

LEMMA AddEntryAdds ==
  ASSUME SinkInv, AddEntry
  PROVE  \E info \in BOOLEAN : host' = Add(host, EntryKey, Entry.icon, info, Metadata(Entry))
BY EntryFacts DEF AddEntry, Sending, AddEntryToSet, AddPaymentEntryToSet,
     AddPaymentEntryToSetV2, Reached, SetEntry

LEMMA AddEntryStep ==
  ASSUME SinkInv, AddEntry
  PROVE  SinkInv'
<1>1. ~Idle /\ part = "add" /\ part' = "delegation" /\ field' = 1
      /\ UNCHANGED <<level, default, sent, set, slot, alt>>
  BY DEF AddEntry, Sending
<1>2. PICK info \in BOOLEAN : host' = Add(host, EntryKey, Entry.icon, info, Metadata(Entry))
  BY AddEntryAdds
<1> DEFINE e == [key |-> EntryKey, icon |-> Entry.icon, info |-> info,
                 metadata |-> Metadata(Entry), fields |-> << >>, delegation |-> None,
                 link |-> FALSE, text |-> FALSE]
<1>3. e \in CapturedEntry
  <2>1. Entry \in SetEntry /\ EntryKey \in Key /\ level \in Nat
    BY <1>1, EntryFacts, HostFacts DEF SinkInv
  <2>2. Metadata(Entry) \in MetadataObject
    <3>1. DisplaySkipped(Entry) \in BOOLEAN
      BY DEF DisplaySkipped
    <3> QED BY <2>1, <3>1 DEF Metadata, MetadataObject, SetEntry
  <2> QED BY <2>1, <2>2 DEF CapturedEntry, SetEntry
<1>4. /\ host = [sets |-> host.sets, entries |-> host.entries, trapped |-> host.trapped]
      /\ host.sets \in Seq([id : SetId, length : Nat])
      /\ host.entries \in Seq(CapturedEntry) /\ host.trapped = FALSE
      /\ DOMAIN host.entries = 1..Len(host.entries) /\ Len(host.entries) \in Nat
  BY HostFacts DEF SinkInv, NeverTraps
<1>5. host' = [sets |-> host.sets, entries |-> Append(host.entries, e), trapped |-> FALSE]
  <2>1. host' = [host EXCEPT !.entries = Append(host.entries, e)]
    BY <1>2 DEF Add
  <2> HIDE DEF e
  <2> QED BY <1>4, <2>1
<1>6. e.key = EntryKey
  OBVIOUS
<1> HIDE DEF e
<1>7. /\ host'.sets = host.sets /\ ~host'.trapped /\ host'.entries = Append(host.entries, e)
      /\ host' \in HostState
  BY <1>3, <1>4, <1>5 DEF HostState
<1>8. /\ Len(host'.entries) = Len(host.entries) + 1
      /\ DOMAIN host'.entries = 1..(Len(host.entries) + 1)
      /\ host'.entries[Len(host.entries) + 1] = e
      /\ \A n \in 1..Len(host.entries) : host'.entries[n] = host.entries[n]
  BY <1>3, <1>4, <1>7
<1>9. SinkTypeOK'
  BY <1>1, <1>7 DEF SinkInv, SinkTypeOK
<1>10. ~Idle' /\ SendCursor'
  BY <1>1, <1>7 DEF SinkInv, SendCursor, Idle, Declared
<1>11. EntryKey' = EntryKey /\ \A key : Earlier(key)' <=> Earlier(key)
  BY <1>1 DEF EntryKey, Entry, Earlier
<1>12. \A n \in DOMAIN host'.entries : Declared(host.entries[n].key.set)'
  <2> SUFFICES ASSUME NEW n \in 1..(Len(host.entries) + 1)
               PROVE  Declared(host.entries[n].key.set)'
    BY <1>8
  <2>1. CASE n = Len(host.entries) + 1
    <3>1. host'.entries[n].key.set = set.id
      BY <1>6, <1>8, <2>1 DEF EntryKey
    <3>2. Declared(set.id)
      BY <1>1 DEF SinkInv, SendCursor
    <3> QED BY <1>7, <3>1, <3>2 DEF Declared
  <2>2. CASE n # Len(host.entries) + 1
    <3>1. n \in DOMAIN host.entries /\ host'.entries[n] = host.entries[n]
      BY <1>4, <1>8, <2>2
    <3> QED BY <1>7, <3>1 DEF SinkInv, Keys, Declared
  <2> QED BY <2>1, <2>2
<1>13. \A n \in 1..(Len(host'.entries) - 1) : Earlier(host.entries[n].key)'
  <2>1. Len(host'.entries) - 1 = Len(host.entries)
    BY <1>4, <1>8
  <2>2. \A n \in DOMAIN host.entries : Earlier(host.entries[n].key)
    BY <1>1 DEF SinkInv, Keys
  <2> QED BY <1>1, <1>4, <1>8, <2>1, <2>2 DEF Earlier
<1>14. Keys'
  <2>1. Len(host'.entries) > 0 /\ host'.entries[Len(host'.entries)].key = EntryKey'
    BY <1>4, <1>6, <1>8, <1>11
  <2> QED BY <1>1, <1>12, <1>13, <2>1 DEF Keys
<1> QED BY <1>7, <1>9, <1>10, <1>14 DEF SinkInv, NeverTraps

LEMMA SendDelegationStep ==
  ASSUME SinkInv, SendDelegation
  PROVE  SinkInv'
<1>1. /\ ~Idle /\ part # "add" /\ part' = "link"
      /\ UNCHANGED <<level, default, sent, set, slot, alt, field>>
      /\ host' = IF Delegation # None /\ level >= 7
                 THEN SetDelegationTypeForEntryInSet(host, level, EntryKey, Delegation) ELSE host
  BY DEF SendDelegation, Sending
<1>2. Delegation \in {None} \cup {0, 1}
  <2>1. Entry \in SetEntry /\ default \in {None, 0, 1}
    BY <1>1, EntryFacts DEF SinkInv, SinkTypeOK
  <2> QED BY <2>1 DEF Delegation, SetEntry
<1>3. Attached(host')
  BY <1>1, <1>2, DelegationAttaches, Untouched DEF SinkInv
<1> QED BY <1>1, <1>3, AttachStep DEF SinkInv, SinkTypeOK

LEMMA SendLinkStep ==
  ASSUME SinkInv, SendLink
  PROVE  SinkInv'
<1>1. /\ ~Idle /\ part # "add" /\ part' = "fields"
      /\ UNCHANGED <<level, default, sent, set, slot, alt, field>>
      /\ host' = IF Entry.link /\ level >= 6
                 THEN SetAdditionalDisclaimerAndUrl(host, level, EntryKey) ELSE host
  BY DEF SendLink, Sending
<1>2. Attached(host')
  BY <1>1, LinkAttaches, Untouched DEF SinkInv
<1> QED BY <1>1, <1>2, AttachStep DEF SinkInv, SinkTypeOK

LEMMA SendFieldStep ==
  ASSUME SinkInv, SendField
  PROVE  SinkInv'
<1>1. /\ ~Idle /\ part # "add" /\ part' = part /\ part = "fields"
      /\ field \in DOMAIN Entry.fields /\ field' = field + 1
      /\ UNCHANGED <<level, default, sent, set, slot, alt>>
      /\ host' = AddFieldToEntrySet(host, EntryKey, Entry.fields[field])
  BY DEF SendField, Sending
<1>2. Entry.fields[field] \in Field
  <2>1. Entry.fields \in Seq(Field)
    BY <1>1, EntryFacts DEF SetEntry
  <2> QED BY <1>1, <2>1
<1>3. Attached(host')
  BY <1>1, <1>2, FieldAttaches
<1>4. field' \in Nat \ {0}
  BY <1>1 DEF SinkInv, SinkTypeOK
<1> QED BY <1>1, <1>3, <1>4, AttachStep

(* The current entry becomes one of the earlier ones. *)
LEMMA SendTextStep ==
  ASSUME SinkInv, SendText
  PROVE  SinkInv'
<1>1. /\ ~Idle /\ part # "add" /\ part' = "add" /\ field' = 1
      /\ UNCHANGED <<level, default, sent>>
      /\ host' = IF Entry.text /\ level >= 5
                 THEN AddMetadataDisplayTextToEntrySet(host, level, EntryKey) ELSE host
  BY DEF SendText, Sending, TextReaches
<1>2. Attached(host')
  BY <1>1, TextAttaches, Untouched DEF SinkInv
<1>3. \/ alt < Len(set.slots[slot]) /\ alt' = alt + 1 /\ UNCHANGED <<set, slot>>
      \/ alt' = 1 /\ slot < Len(set.slots) /\ slot' = slot + 1 /\ UNCHANGED set
      \/ alt' = 1 /\ slot' = 1 /\ set' = None
  BY DEF SendText
<1>4. /\ DOMAIN host.entries = 1..Len(host.entries) /\ Len(host.entries) \in Nat
      /\ DOMAIN host'.entries = 1..Len(host.entries) /\ Len(host'.entries) = Len(host.entries)
      /\ \A n \in 1..Len(host.entries) : host'.entries[n].key = host.entries[n].key
      /\ host' \in HostState /\ ~host'.trapped /\ host'.sets = host.sets
      /\ host.entries \in Seq(CapturedEntry)
  <2>1. host' \in HostState /\ ~host'.trapped /\ host'.sets = host.sets
    BY <1>2 DEF Attached, SinkInv, NeverTraps
  <2>2. host'.entries \in Seq(CapturedEntry)
    BY <2>1 DEF HostState
  <2> QED BY <1>2, <2>1, <2>2, HostFacts DEF Attached, SinkInv
<1>5. \A id : Declared(id)' <=> Declared(id)
  BY <1>4 DEF Declared
<1>6. /\ set \in WellFormedSet /\ slot \in Nat \ {0} /\ alt \in Nat \ {0}
      /\ Len(set.slots) \in Nat /\ Len(set.slots[slot]) \in Nat
      /\ DOMAIN set.slots = 1..Len(set.slots)
      /\ DOMAIN set.slots[slot] = 1..Len(set.slots[slot])
      /\ slot \in DOMAIN set.slots /\ alt \in DOMAIN set.slots[slot]
      /\ Declared(set.id)
  BY <1>1, EntryFacts DEF SinkInv, SendCursor
<1>7. SinkTypeOK'
  BY <1>1, <1>3, <1>4, <1>6 DEF SinkInv, SinkTypeOK
<1>8. SendCursor'
  <2>1. CASE alt < Len(set.slots[slot]) /\ alt' = alt + 1 /\ UNCHANGED <<set, slot>>
    BY <1>1, <1>5, <1>6, <2>1 DEF SendCursor, Idle
  <2>2. CASE alt' = 1 /\ slot < Len(set.slots) /\ slot' = slot + 1 /\ UNCHANGED set
    <3>1. slot + 1 \in DOMAIN set.slots
      BY <1>6, <2>2
    <3>2. set.slots[slot + 1] # << >> /\ set.slots[slot + 1] \in Seq(SetEntry)
      BY <1>6, <3>1, SetsAreWellFormed
    <3>3. 1 \in DOMAIN set.slots[slot + 1]
      BY <3>2
    <3> QED BY <1>1, <1>5, <1>6, <2>2, <3>1, <3>3 DEF SendCursor, Idle
  <2>3. CASE alt' = 1 /\ slot' = 1 /\ set' = None
    BY <1>1, <2>3 DEF SendCursor, Idle
  <2> QED BY <1>3, <2>1, <2>2, <2>3
<1>9. \A n \in DOMAIN host'.entries : Declared(host.entries[n].key.set)'
  BY <1>4, <1>5 DEF SinkInv, Keys, Declared
<1>10. ~Idle' => \A n \in DOMAIN host'.entries : Earlier(host.entries[n].key)'
  <2> SUFFICES ASSUME ~Idle', NEW n \in 1..Len(host.entries),
                      host.entries[n].key.set = set'.id
               PROVE  Earlier(host.entries[n].key)'
    <3>1. \A n \in 1..Len(host.entries) :
            host.entries[n].key.set # set'.id => Earlier(host.entries[n].key)'
      BY <1>4 DEF Earlier
    <3> QED BY <1>4, <3>1
  <2> DEFINE key == host.entries[n].key
  <2>1. key \in Key /\ key = (host.entries[n].key)'
    <3>1. host.entries[n] \in CapturedEntry
      BY <1>4
    <3> QED BY <1>4, <3>1 DEF CapturedEntry
  <2>2. set' = set
    BY <1>1, <1>3 DEF Idle
  <2>3. \/ key.index < slot - 1
        \/ key.index = slot - 1 /\ \E b \in 1..alt : key.id = set.slots[slot][b].id
    <3>1. CASE n = Len(host.entries)
      <4>1. key = EntryKey
        BY <1>1, <3>1 DEF SinkInv, Keys
      <4>2. key.index = slot - 1 /\ key.id = set.slots[slot][alt].id /\ alt \in 1..alt
        BY <1>6, <4>1 DEF EntryKey, Entry
      <4> QED BY <4>2
    <3>2. CASE n # Len(host.entries)
      <4>1. n \in 1..(Len(host.entries) - 1)
        BY <1>4, <3>2
      <4>2. Earlier(key)
        BY <1>1, <4>1 DEF SinkInv, Keys
      <4>3. 1..(alt - 1) \subseteq 1..alt
        BY <1>6
      <4> QED BY <2>2, <4>2, <4>3 DEF Earlier
    <3> QED BY <3>1, <3>2
  <2>4. key.index \in Nat
    BY <2>1 DEF Key
  <2>5. \/ key.index < slot' - 1
        \/ key.index = slot' - 1 /\ \E b \in 1..(alt' - 1) : key.id = set'.slots[slot'][b].id
    <3> HIDE DEF key
    <3>1. CASE alt' = alt + 1 /\ UNCHANGED <<set, slot>>
      <4>1. alt' - 1 = alt
        BY <1>6, <3>1
      <4> QED BY <2>3, <3>1, <4>1
    <3>2. CASE slot' = slot + 1
      <4>1. key.index <= slot - 1
        BY <1>6, <2>3, <2>4
      <4> QED BY <1>6, <2>4, <3>2, <4>1
    <3>3. CASE set' = None
      BY <1>1, <2>2, <3>3 DEF Idle
    <3> QED BY <1>3, <3>1, <3>2, <3>3
  <2> QED BY <2>1, <2>5 DEF Earlier
<1>11. Keys'
  BY <1>1, <1>9, <1>10 DEF Keys
<1> QED BY <1>4, <1>7, <1>8, <1>11 DEF SinkInv, NeverTraps

LEMMA DeclareStep ==
  ASSUME SinkInv, Declaring
  PROVE  SinkInv'
<1>1. PICK s \in WellFormedSet : ~Declared(s.id) /\ AddSet(s)
  BY DEF Declaring
<1>2. /\ Idle /\ set' = s /\ slot' = 1 /\ alt' = 1 /\ part' = "add" /\ field' = 1
      /\ host' = AddEntrySet(host, s.id, SlotCount(s))
      /\ sent' = Append(sent, s) /\ UNCHANGED <<level, default>>
  BY <1>1 DEF AddSet
<1>3. /\ s \in [id : SetId, slots : Seq(Seq(SetEntry))] /\ s.slots # << >>
      /\ \A i \in DOMAIN s.slots : s.slots[i] # << >>
  BY SetsAreWellFormed
<1>4. /\ s.id \in SetId /\ s.slots \in Seq(Seq(SetEntry)) /\ SlotCount(s) \in Nat
      /\ 1 \in DOMAIN s.slots /\ 1 \in DOMAIN s.slots[1]
  <2>1. s.slots \in Seq(Seq(SetEntry)) /\ 1 \in DOMAIN s.slots /\ s.id \in SetId
    BY <1>3
  <2>2. s.slots[1] \in Seq(SetEntry) /\ s.slots[1] # << >>
    BY <1>3, <2>1
  <2>3. 1 \in DOMAIN s.slots[1]
    BY <2>2
  <2> QED BY <2>1, <2>3 DEF SlotCount
<1>5. /\ host = [sets |-> host.sets, entries |-> host.entries, trapped |-> host.trapped]
      /\ host.sets \in Seq([id : SetId, length : Nat])
      /\ host.entries \in Seq(CapturedEntry) /\ host.trapped = FALSE
  BY HostFacts DEF SinkInv, NeverTraps
<1> DEFINE declaration == [id |-> s.id, length |-> SlotCount(s)]
<1>6. declaration \in [id : SetId, length : Nat] /\ declaration.id = s.id
  BY <1>4
<1> HIDE DEF declaration
<1>7. host' = [sets |-> Append(host.sets, declaration), entries |-> host.entries, trapped |-> FALSE]
  <2>1. host' = [host EXCEPT !.sets = Append(host.sets, declaration)]
    BY <1>2 DEF AddEntrySet, declaration
  <2> QED BY <1>5, <2>1
<1>8. /\ host'.sets = Append(host.sets, declaration) /\ host'.entries = host.entries
      /\ ~host'.trapped /\ host' \in HostState
  BY <1>5, <1>6, <1>7 DEF HostState
<1>9. \A id : Declared(id)' <=> Declared(id) \/ id = s.id
  <2> SUFFICES ASSUME NEW id PROVE Declared(id)' <=> Declared(id) \/ id = s.id
    OBVIOUS
  <2>1. /\ DOMAIN host'.sets = 1..(Len(host.sets) + 1) /\ DOMAIN host.sets = 1..Len(host.sets)
        /\ Len(host.sets) \in Nat
        /\ host'.sets[Len(host.sets) + 1] = declaration
        /\ \A n \in 1..Len(host.sets) : host'.sets[n] = host.sets[n]
    BY <1>5, <1>6, <1>8
  <2>2. ASSUME Declared(id) PROVE Declared(id)'
    <3>1. PICK n \in 1..Len(host.sets) : host.sets[n].id = id
      BY <2>1, <2>2 DEF Declared
    <3>2. n \in DOMAIN host'.sets /\ host'.sets[n].id = id
      BY <2>1, <3>1
    <3> QED BY <3>2 DEF Declared
  <2>3. ASSUME id = s.id PROVE Declared(id)'
    <3>1. Len(host.sets) + 1 \in DOMAIN host'.sets
      BY <2>1
    <3> QED BY <1>6, <2>1, <2>3, <3>1 DEF Declared
  <2>4. ASSUME Declared(id)' PROVE Declared(id) \/ id = s.id
    <3>1. PICK n \in 1..(Len(host.sets) + 1) : host'.sets[n].id = id
      BY <2>1, <2>4 DEF Declared
    <3>2. CASE n = Len(host.sets) + 1
      BY <1>6, <2>1, <3>1, <3>2
    <3>3. CASE n # Len(host.sets) + 1
      <4>1. n \in DOMAIN host.sets /\ host.sets[n].id = id
        BY <2>1, <3>1, <3>3
      <4> QED BY <4>1 DEF Declared
    <3> QED BY <3>2, <3>3
  <2> QED BY <2>2, <2>3, <2>4
<1>10. SinkTypeOK'
  <2>1. sent' \in Seq(WellFormedSet)
    BY <1>2 DEF SinkInv, SinkTypeOK
  <2> QED BY <1>2, <1>8, <2>1 DEF SinkInv, SinkTypeOK
<1>11. SendCursor'
  <2>1. Declared(set.id)'
    BY <1>2, <1>9 DEF Declared
  <2> QED BY <1>2, <1>4, <2>1 DEF SendCursor
<1>12. \A n \in DOMAIN host.entries : Declared(host.entries[n].key.set)
  BY DEF SinkInv, Keys
<1>13. \A n \in DOMAIN host'.entries : Declared(host.entries[n].key.set)'
  BY <1>8, <1>9, <1>12 DEF Declared
<1>14. \A n \in DOMAIN host'.entries : Earlier(host.entries[n].key)'
  <2>1. \A n \in DOMAIN host.entries : host.entries[n].key.set # s.id
    BY <1>1, <1>12
  <2> QED BY <1>2, <1>8, <2>1 DEF Earlier
<1>15. Keys'
  BY <1>2, <1>13, <1>14 DEF Keys
<1> QED BY <1>8, <1>10, <1>11, <1>15 DEF SinkInv, NeverTraps

LEMMA SendStep ==
  ASSUME SinkInv, Send
  PROVE  SinkInv'
BY AddEntryStep, SendDelegationStep, SendLinkStep, SendFieldStep, SendTextStep DEF Send

LEMMA SinkInductive == SinkInv /\ [SinkNext]_sink => SinkInv'
<1> SUFFICES ASSUME SinkInv, [SinkNext]_sink PROVE SinkInv'
  OBVIOUS
<1>1. CASE Declaring
  BY <1>1, DeclareStep
<1>2. CASE Send
  BY <1>2, SendStep
<1>3. CASE UNCHANGED sink
  <2>1. UNCHANGED <<level, default, set, slot, alt, part, field, host, sent>>
    BY <1>3 DEF sink, sending
  <2>2. SinkTypeOK' /\ NeverTraps'
    BY <2>1 DEF SinkInv, SinkTypeOK, NeverTraps
  <2>3. SendCursor'
    BY <2>1 DEF SinkInv, SendCursor, Idle, Declared
  <2>4. Keys'
    BY <2>1 DEF SinkInv, Keys, Idle, Declared, Earlier, EntryKey, Entry
  <2> QED BY <2>2, <2>3, <2>4 DEF SinkInv
<1> QED BY <1>1, <1>2, <1>3 DEF SinkNext

LEMMA AnyIsSink ==
  /\ AnyInit => SinkInit
  /\ [AnyNext]_sink => [SinkNext]_sink
<1>1. AnyInit => SinkInit
  BY AnythingIsAllowed DEF AnyInit, SinkInit
<1>2. Declare => Declaring
  BY AnythingIsAllowed DEF Declare, Declaring
<1>3. AnyNext => SinkNext \/ UNCHANGED sink
  BY <1>2 DEF AnyNext, SinkNext, Return
<1> QED BY <1>1, <1>3

LEMMA SinkInvariance == AnySpec => []SinkInv
BY AnyIsSink, SinkInitially, SinkInductive, PTL DEF AnySpec

(* The variables keep their types.                                           *)
THEOREM SinkTypeCorrect == AnySpec => []AnyTypeOK
<1> DEFINE Allowed == level \in Level /\ (set = None \/ set \in EntrySet) /\ sent \in Seq(EntrySet)
<1>1. AnyInit => Allowed
  BY DEF AnyInit, InitSink
<1>2. Allowed /\ [AnyNext]_sink => Allowed'
  <2> SUFFICES ASSUME Allowed, [AnyNext]_sink PROVE Allowed'
    OBVIOUS
  <2>1. CASE Declare
    BY <2>1 DEF Declare, AddSet
  <2>2. CASE Send
    <3>1. level' = level /\ sent' = sent
      BY <2>2 DEF Send, AddEntry, SendDelegation, SendLink, SendField, SendText
    <3>2. set' = set \/ set' = None
      BY <2>2 DEF Send, AddEntry, SendDelegation, SendLink, SendField, SendText
    <3> QED BY <3>1, <3>2
  <2>3. CASE UNCHANGED sink
    BY <2>3 DEF sink, sending
  <2> QED BY <2>1, <2>2, <2>3 DEF AnyNext, Return
<1>3. SinkInv /\ Allowed => AnyTypeOK
  BY DEF SinkInv, SinkTypeOK, AnyTypeOK
<1> QED BY <1>1, <1>2, <1>3, SinkInvariance, PTL DEF AnySpec

(* No host of any level traps on any sets a matcher may build.               *)
THEOREM SendingNeverTraps == AnySpec => []NeverTraps
BY SinkInvariance, PTL DEF SinkInv

-----------------------------------------------------------------------------
LEMMA StepKeepsEarlier ==
  ASSUME SinkInv, SinkNext
  PROVE  \A n \in 1..(Len(host.entries) - 1) : host'.entries[n] = host.entries[n]
<1>1. CASE Declaring
  BY <1>1 DEF Declaring, AddSet, AddEntrySet, SinkInv, SinkTypeOK, HostState
<1>2. CASE AddEntry
  <2>1. PICK info \in BOOLEAN : host' = Add(host, EntryKey, Entry.icon, info, Metadata(Entry))
    BY <1>2, AddEntryAdds
  <2>2. host.entries \in Seq(CapturedEntry) /\ host \in HostState
    BY HostFacts DEF SinkInv, SinkTypeOK
  <2>3. \E e : host'.entries = Append(host.entries, e)
    BY <2>1, <2>2 DEF Add, HostState
  <2> QED BY <2>2, <2>3
<1>3. CASE SendDelegation
  <2>1. ~Idle /\ part # "add"
    BY <1>3 DEF SendDelegation, Sending
  <2>2. Delegation \in {None} \cup {0, 1}
    <3>1. Entry \in SetEntry /\ default \in {None, 0, 1}
      BY <2>1, EntryFacts DEF SinkInv, SinkTypeOK
    <3> QED BY <3>1 DEF Delegation, SetEntry
  <2>3. Attached(host')
    BY <1>3, <2>1, <2>2, DelegationAttaches, Untouched DEF SinkInv, SendDelegation
  <2> QED BY <2>3 DEF Attached
<1>4. CASE SendLink
  <2>1. ~Idle /\ part # "add"
    BY <1>4 DEF SendLink, Sending
  <2>2. Attached(host')
    BY <1>4, <2>1, LinkAttaches, Untouched DEF SinkInv, SendLink
  <2> QED BY <2>2 DEF Attached
<1>5. CASE SendField
  <2>1. ~Idle /\ part # "add" /\ field \in DOMAIN Entry.fields
    BY <1>5 DEF SendField, Sending
  <2>2. Entry.fields[field] \in Field
    <3>1. Entry.fields \in Seq(Field)
      BY <2>1, EntryFacts DEF SetEntry
    <3> QED BY <2>1, <3>1
  <2>3. Attached(host')
    BY <1>5, <2>1, <2>2, FieldAttaches DEF SendField
  <2> QED BY <2>3 DEF Attached
<1>6. CASE SendText
  <2>1. ~Idle /\ part # "add"
    BY <1>6 DEF SendText, Sending
  <2>2. Attached(host')
    BY <1>6, <2>1, TextAttaches, Untouched DEF SinkInv, SendText, TextReaches
  <2> QED BY <2>2 DEF Attached
<1>7. CASE Return
  BY <1>7 DEF Return, sink
<1> QED BY <1>1, <1>2, <1>3, <1>4, <1>5, <1>6, <1>7 DEF SinkNext, Send

(* Whatever is attached goes to the entry just added: nothing is attributed  *)
(* to an earlier one, though it may be of the same credential.               *)
THEOREM AttachesToTheLast == AnySpec => OnlyTheLastEntryChanges
<1>1. SinkInv /\ [SinkNext]_sink =>
        [\A n \in 1..(Len(host.entries) - 1) : host'.entries[n] = host.entries[n]]_sink
  BY StepKeepsEarlier
<1> QED BY <1>1, AnyIsSink, SinkInvariance, PTL DEF AnySpec, OnlyTheLastEntryChanges
-----------------------------------------------------------------------------
(* What the host holds of a set while it is being sent: the rows of the sets *)
(* before it, of its slots before the current one and of the alternatives    *)
(* before the current one, each whole, and then the current entry as far as  *)
(* it was given.                                                             *)

RowOf(s, i) == [a \in DOMAIN s.slots[i] |-> Delivered(s, i, a)]

FirstOf(s, i, n) == [a \in 1..n |-> Delivered(s, i, a)]

FirstRows(s, n) == [i \in 1..n |-> RowOf(s, i)]

FirstSets(n) == [m \in 1..n |-> EntriesOf(sent[m])]

Finished(s, i, a) ==
  Joined(Joined(FlattenSeq(FirstSets(Len(sent) - 1)), FlattenSeq(FirstRows(s, i - 1))),
         FirstOf(s, i, a - 1))

Grown(whole, call, n) ==
  [key |-> whole.key, icon |-> whole.icon, info |-> whole.info, metadata |-> whole.metadata,
   fields |-> IF call = "fields" THEN SubSeq(whole.fields, 1, n - 1) ELSE << >>,
   delegation |-> IF call = "delegation" THEN None ELSE whole.delegation,
   link |-> IF call = "fields" THEN whole.link ELSE FALSE,
   text |-> FALSE]

Declarations == [n \in DOMAIN sent |-> [id |-> sent[n].id, length |-> Len(sent[n].slots)]]

DeliveredSoFar ==
  /\ host.sets = Declarations
  /\ Idle => host.entries = FlattenSeq(FirstSets(Len(sent)))
  /\ ~Idle =>
       /\ sent # << >> /\ set = sent[Len(sent)]
       /\ IF part = "fields" THEN field \in 1..(Len(Entry.fields) + 1) ELSE field = 1
       /\ \A s \in {set}, i \in {slot}, a \in {alt} :
            host.entries = IF part = "add" THEN Finished(s, i, a)
                           ELSE Append(Finished(s, i, a), Grown(Delivered(s, i, a), part, field))

(* The parts of a well-formed set. *)
LEMMA SetFacts ==
  ASSUME NEW s \in WellFormedSet
  PROVE  /\ s.slots \in Seq(Seq(SetEntry)) /\ DOMAIN s.slots = 1..Len(s.slots) /\ Len(s.slots) \in Nat \ {0}
         /\ \A i \in DOMAIN s.slots :
              /\ s.slots[i] \in Seq(SetEntry) /\ DOMAIN s.slots[i] = 1..Len(s.slots[i])
              /\ Len(s.slots[i]) \in Nat \ {0}
              /\ \A a \in DOMAIN s.slots[i] : s.slots[i][a] \in SetEntry
         /\ s.id \in SetId
<1>1. s \in [id : SetId, slots : Seq(Seq(SetEntry))] /\ s.slots # << >>
  BY SetsAreWellFormed
<1>2. s.slots \in Seq(Seq(SetEntry)) /\ DOMAIN s.slots = 1..Len(s.slots) /\ Len(s.slots) \in Nat \ {0} /\ s.id \in SetId
  BY <1>1
<1>3. ASSUME NEW i \in DOMAIN s.slots
      PROVE  /\ s.slots[i] \in Seq(SetEntry) /\ DOMAIN s.slots[i] = 1..Len(s.slots[i])
             /\ Len(s.slots[i]) \in Nat \ {0}
             /\ \A a \in DOMAIN s.slots[i] : s.slots[i][a] \in SetEntry
  <2>1. s.slots[i] # << >>
    BY SetsAreWellFormed
  <2>2. s.slots[i] \in Seq(SetEntry)
    BY <1>2
  <2> QED
    BY <2>1, <2>2
<1> QED
  BY <1>2, <1>3

LEMMA DeliveredType ==
  ASSUME SinkTypeOK, NEW s \in WellFormedSet, NEW i \in DOMAIN s.slots, NEW a \in DOMAIN s.slots[i]
  PROVE  Delivered(s, i, a) \in CapturedEntry
<1> DEFINE entry == s.slots[i][a]
<1>1. entry \in SetEntry /\ s.id \in SetId /\ i \in Nat /\ i >= 1
  BY SetFacts
<1>2. level \in Nat /\ default \in {None, 0, 1}
  BY HostFacts DEF SinkTypeOK
<1> DEFINE key == [set |-> s.id, index |-> i - 1, id |-> entry.id]
           metadata == [level |-> level, data |-> entry.data,
                        skipped |-> \/ entry.info /\ level < 3
                                    \/ entry.text /\ level < 5
                                    \/ entry.link /\ level < 6]
           delegation == CASE level < 7 -> None
                           [] level >= 7 /\ entry.delegation # None -> entry.delegation
                           [] OTHER -> default
<1>3. key \in Key
  BY <1>1 DEF SetEntry, Key
<1>4. metadata \in MetadataObject
  BY <1>1, <1>2 DEF SetEntry, MetadataObject
<1>5. delegation \in {None} \cup {0, 1}
  BY <1>1, <1>2 DEF SetEntry
<1>6. /\ entry.icon \in {None} \cup Icon /\ entry.fields \in Seq(Field)
      /\ (entry.info /\ level >= 3) \in BOOLEAN /\ (entry.link /\ level >= 6) \in BOOLEAN
      /\ (entry.text /\ level >= 5) \in BOOLEAN
  BY <1>1 DEF SetEntry
<1>7. Delivered(s, i, a) =
        [key |-> key, icon |-> entry.icon, info |-> entry.info /\ level >= 3, metadata |-> metadata,
         fields |-> entry.fields, delegation |-> delegation,
         link |-> entry.link /\ level >= 6, text |-> entry.text /\ level >= 5]
  BY Zenon DEF Delivered
<1> HIDE DEF key, metadata, delegation, entry
<1> QED
  BY <1>3, <1>4, <1>5, <1>6, <1>7 DEF CapturedEntry

LEMMA RowsAreSequences ==
  ASSUME SinkTypeOK, NEW s \in WellFormedSet, NEW n \in 0..Len(s.slots)
  PROVE  /\ FirstRows(s, n) \in Seq(Seq(CapturedEntry)) /\ Len(FirstRows(s, n)) = n
         /\ n > 0 => /\ RowOf(s, n) \in Seq(CapturedEntry)
                     /\ FirstRows(s, n) = Append(FirstRows(s, n - 1), RowOf(s, n))
<1>1. /\ DOMAIN s.slots = 1..Len(s.slots) /\ Len(s.slots) \in Nat
      /\ \A i \in 1..Len(s.slots) : DOMAIN s.slots[i] = 1..Len(s.slots[i]) /\ Len(s.slots[i]) \in Nat
  BY SetFacts
<1>2. ASSUME NEW i \in 1..Len(s.slots) PROVE RowOf(s, i) \in Seq(CapturedEntry)
  <2>1. RowOf(s, i) \in [1..Len(s.slots[i]) -> CapturedEntry]
    BY <1>1, DeliveredType DEF RowOf
  <2> QED
    BY <1>1, <2>1, FunctionIsSequence
<1>3. ASSUME NEW k \in 0..Len(s.slots)
      PROVE  FirstRows(s, k) \in Seq(Seq(CapturedEntry)) /\ Len(FirstRows(s, k)) = k
  <2>1. FirstRows(s, k) \in [1..k -> Seq(CapturedEntry)]
    BY <1>1, <1>2 DEF FirstRows
  <2> QED
    BY <1>1, <2>1, FunctionIsSequence
<1>4. ASSUME n > 0 PROVE FirstRows(s, n) = Append(FirstRows(s, n - 1), RowOf(s, n))
  <2>1. n \in Nat \ {0} /\ n - 1 \in 0..Len(s.slots)
    BY <1>4, SetFacts
  <2>2. /\ FirstRows(s, n - 1) \in Seq(Seq(CapturedEntry)) /\ Len(FirstRows(s, n - 1)) = n - 1
        /\ FirstRows(s, n) \in Seq(Seq(CapturedEntry)) /\ Len(FirstRows(s, n)) = n
    BY <1>3, <2>1
  <2>3. /\ FirstRows(s, n)[n] = RowOf(s, n)
        /\ \A i \in 1..(n - 1) : FirstRows(s, n - 1)[i] = FirstRows(s, n)[i]
    BY <2>1 DEF FirstRows
  <2> QED
    BY <2>1, <2>2, <2>3, OneMore
<1> QED
  BY <1>1, <1>2, <1>3, <1>4

LEMMA AlternativesAreSequences ==
  ASSUME SinkTypeOK, NEW s \in WellFormedSet, NEW i \in DOMAIN s.slots, NEW n \in 0..Len(s.slots[i])
  PROVE  /\ FirstOf(s, i, n) \in Seq(CapturedEntry) /\ Len(FirstOf(s, i, n)) = n
         /\ n > 0 => FirstOf(s, i, n) = Append(FirstOf(s, i, n - 1), Delivered(s, i, n))
         /\ n = Len(s.slots[i]) => FirstOf(s, i, n) = RowOf(s, i)
<1>1. DOMAIN s.slots[i] = 1..Len(s.slots[i]) /\ Len(s.slots[i]) \in Nat
  BY SetFacts
<1>2. \A a \in 1..Len(s.slots[i]) : Delivered(s, i, a) \in CapturedEntry
  BY <1>1, DeliveredType
<1>3. ASSUME NEW k \in 0..Len(s.slots[i])
      PROVE  FirstOf(s, i, k) \in Seq(CapturedEntry) /\ Len(FirstOf(s, i, k)) = k
  <2>1. FirstOf(s, i, k) \in [1..k -> CapturedEntry]
    BY <1>1, <1>2 DEF FirstOf
  <2> QED
    BY <1>1, <2>1, FunctionIsSequence
<1>4. ASSUME n > 0 PROVE FirstOf(s, i, n) = Append(FirstOf(s, i, n - 1), Delivered(s, i, n))
  <2>1. n \in Nat \ {0} /\ n - 1 \in 0..Len(s.slots[i])
    BY <1>1, <1>4
  <2>2. /\ FirstOf(s, i, n - 1) \in Seq(CapturedEntry) /\ Len(FirstOf(s, i, n - 1)) = n - 1
        /\ FirstOf(s, i, n) \in Seq(CapturedEntry) /\ Len(FirstOf(s, i, n)) = n
    BY <1>3, <2>1
  <2>3. /\ FirstOf(s, i, n)[n] = Delivered(s, i, n)
        /\ \A a \in 1..(n - 1) : FirstOf(s, i, n - 1)[a] = FirstOf(s, i, n)[a]
    BY <2>1 DEF FirstOf
  <2> QED
    BY <2>1, <2>2, <2>3, OneMore
<1>5. n = Len(s.slots[i]) => FirstOf(s, i, n) = RowOf(s, i)
  BY <1>1 DEF FirstOf, RowOf
<1> QED
  BY <1>3, <1>4, <1>5

LEMMA SetsAreSequences ==
  ASSUME SinkTypeOK, NEW n \in 0..Len(sent)
  PROVE  /\ FirstSets(n) \in Seq(Seq(CapturedEntry))
         /\ n > 0 => /\ EntriesOf(sent[n]) = FlattenSeq(FirstRows(sent[n], Len(sent[n].slots)))
                     /\ EntriesOf(sent[n]) \in Seq(CapturedEntry)
                     /\ FirstSets(n) = Append(FirstSets(n - 1), EntriesOf(sent[n]))
<1>1. Len(sent) \in Nat /\ \A m \in 1..Len(sent) : sent[m] \in WellFormedSet
  BY DEF SinkTypeOK
<1>2. ASSUME NEW m \in 1..Len(sent)
      PROVE  /\ EntriesOf(sent[m]) = FlattenSeq(FirstRows(sent[m], Len(sent[m].slots)))
             /\ EntriesOf(sent[m]) \in Seq(CapturedEntry)
  <2>1. sent[m] \in WellFormedSet /\ DOMAIN sent[m].slots = 1..Len(sent[m].slots) /\ Len(sent[m].slots) \in 0..Len(sent[m].slots)
    BY <1>1, SetFacts
  <2>2. EntriesOf(sent[m]) = FlattenSeq(FirstRows(sent[m], Len(sent[m].slots)))
    BY <2>1 DEF EntriesOf, FirstRows, RowOf
  <2> HIDE DEF EntriesOf, FirstRows
  <2>3. FirstRows(sent[m], Len(sent[m].slots)) \in Seq(Seq(CapturedEntry))
    BY <2>1, RowsAreSequences
  <2>4. << >> \in Seq(CapturedEntry)
    OBVIOUS
  <2> QED
    BY <2>2, <2>3, <2>4, FlattenAppends
<1>3. ASSUME NEW k \in 0..Len(sent)
      PROVE  FirstSets(k) \in Seq(Seq(CapturedEntry)) /\ Len(FirstSets(k)) = k
  <2>1. FirstSets(k) \in [1..k -> Seq(CapturedEntry)]
    BY <1>1, <1>2 DEF FirstSets
  <2> QED
    BY <1>1, <2>1, FunctionIsSequence
<1>4. ASSUME n > 0 PROVE FirstSets(n) = Append(FirstSets(n - 1), EntriesOf(sent[n]))
  <2>1. n \in Nat \ {0} /\ n - 1 \in 0..Len(sent)
    BY <1>1, <1>4
  <2>2. /\ FirstSets(n - 1) \in Seq(Seq(CapturedEntry)) /\ Len(FirstSets(n - 1)) = n - 1
        /\ FirstSets(n) \in Seq(Seq(CapturedEntry)) /\ Len(FirstSets(n)) = n
    BY <1>3, <2>1
  <2>3. /\ FirstSets(n)[n] = EntriesOf(sent[n])
        /\ \A m \in 1..(n - 1) : FirstSets(n - 1)[m] = FirstSets(n)[m]
    BY <2>1 DEF FirstSets
  <2> QED
    BY <2>1, <2>2, <2>3, OneMore
<1> QED
  BY <1>1, <1>2, <1>3, <1>4

(* Finishing an entry is finishing everything before the next one. *)
LEMMA FinishedGrows ==
  ASSUME SinkTypeOK, sent # << >>, NEW s, s = sent[Len(sent)],
         NEW i \in DOMAIN s.slots, NEW a \in DOMAIN s.slots[i]
  PROVE  /\ Finished(s, i, a) \in Seq(CapturedEntry)
         /\ Append(Finished(s, i, a), Delivered(s, i, a)) =
              IF a < Len(s.slots[i]) THEN Finished(s, i, a + 1)
              ELSE IF i < Len(s.slots) THEN Finished(s, i + 1, 1)
              ELSE FlattenSeq(FirstSets(Len(sent)))
<1> DEFINE sets == FlattenSeq(FirstSets(Len(sent) - 1))
           rows == FlattenSeq(FirstRows(s, i - 1))
           begun == FirstOf(s, i, a - 1)
           e == Delivered(s, i, a)
<1>1. Len(sent) \in Nat \ {0} /\ s \in WellFormedSet /\ Len(sent) - 1 \in 0..Len(sent) /\ Len(sent) \in 0..Len(sent)
  BY DEF SinkTypeOK
<1>2. /\ i \in 1..Len(s.slots) /\ a \in 1..Len(s.slots[i]) /\ Len(s.slots) \in Nat /\ Len(s.slots[i]) \in Nat
      /\ i - 1 \in 0..Len(s.slots) /\ a - 1 \in 0..Len(s.slots[i]) /\ i \in 0..Len(s.slots) /\ a \in 0..Len(s.slots[i])
  BY <1>1, SetFacts
<1>3. /\ begun \in Seq(CapturedEntry) /\ FirstOf(s, i, a) = Append(begun, e) /\ e \in CapturedEntry
      /\ a = Len(s.slots[i]) => FirstOf(s, i, a) = RowOf(s, i)
  <2>1. FirstOf(s, i, a - 1) \in Seq(CapturedEntry)
    BY <1>1, <1>2, AlternativesAreSequences
  <2>2. FirstOf(s, i, a) = Append(FirstOf(s, i, a - 1), Delivered(s, i, a))
    <3>1. a > 0
      BY <1>2
    <3> QED
      BY <1>1, <1>2, <3>1, AlternativesAreSequences
  <2>3. a = Len(s.slots[i]) => FirstOf(s, i, a) = RowOf(s, i)
    BY <1>1, <1>2, AlternativesAreSequences
  <2>4. Delivered(s, i, a) \in CapturedEntry
    BY <1>1, DeliveredType
  <2> QED
    BY <2>1, <2>2, <2>3, <2>4
<1>4. << >> \in Seq(CapturedEntry)
  OBVIOUS
<1>5. /\ FirstRows(s, i - 1) \in Seq(Seq(CapturedEntry)) /\ RowOf(s, i) \in Seq(CapturedEntry)
      /\ FirstRows(s, i) = Append(FirstRows(s, i - 1), RowOf(s, i))
  <2>1. i > 0
    BY <1>2
  <2>2. FirstRows(s, i - 1) \in Seq(Seq(CapturedEntry))
    BY <1>1, <1>2, RowsAreSequences
  <2> QED
    BY <1>1, <1>2, <2>1, <2>2, RowsAreSequences
<1>6. rows \in Seq(CapturedEntry) /\ FlattenSeq(FirstRows(s, i)) = Joined(rows, RowOf(s, i))
  BY <1>5, FlattenAppends
<1>7. /\ FirstSets(Len(sent) - 1) \in Seq(Seq(CapturedEntry)) /\ EntriesOf(s) \in Seq(CapturedEntry)
      /\ FirstSets(Len(sent)) = Append(FirstSets(Len(sent) - 1), EntriesOf(s))
      /\ EntriesOf(s) = FlattenSeq(FirstRows(s, Len(s.slots)))
  BY <1>1, SetsAreSequences
<1>8. sets \in Seq(CapturedEntry) /\ FlattenSeq(FirstSets(Len(sent))) = Joined(sets, EntriesOf(s))
  BY <1>7, FlattenAppends
<1>9. Finished(s, i, a) = Joined(Joined(sets, rows), begun)
  BY DEF Finished
<1>10. Finished(s, i, a + 1) = Joined(Joined(sets, rows), FirstOf(s, i, a))
  <2> SUFFICES ASSUME NEW b, b = a + 1 PROVE Finished(s, i, b) = Joined(Joined(sets, rows), FirstOf(s, i, a))
    OBVIOUS
  <2>1. b - 1 = a
    BY <1>2
  <2> QED
    BY Zenon, <2>1 DEF Finished
<1>11. Finished(s, i + 1, 1) = Joined(Joined(sets, FlattenSeq(FirstRows(s, i))), << >>)
  <2> SUFFICES ASSUME NEW j, j = i + 1, NEW k, k = 1
               PROVE  Finished(s, j, k) = Joined(Joined(sets, FlattenSeq(FirstRows(s, i))), << >>)
    OBVIOUS
  <2>1. j - 1 = i /\ FirstOf(s, j, k - 1) = << >>
    BY <1>2 DEF FirstOf
  <2> QED
    BY Zenon, <2>1 DEF Finished
<1> HIDE DEF sets, rows, begun, e
<1> DEFINE ahead == Joined(sets, rows)
<1>12. ahead \in Seq(CapturedEntry) /\ Joined(ahead, begun) \in Seq(CapturedEntry)
  <2>1. ahead \in Seq(CapturedEntry)
    BY <1>6, <1>8, JoinedInAnyOrder
  <2> HIDE DEF ahead
  <2> QED
    BY <1>3, <2>1, JoinedInAnyOrder
<1>13. Append(Joined(ahead, begun), e) = Joined(ahead, FirstOf(s, i, a))
  <2> HIDE DEF ahead
  <2> QED
    BY <1>3, <1>12, AppendAfter
<1>14. Joined(ahead, RowOf(s, i)) = Joined(sets, FlattenSeq(FirstRows(s, i)))
  BY <1>5, <1>6, <1>8, JoinedInAnyOrder
<1>15. Joined(Joined(sets, FlattenSeq(FirstRows(s, i))), << >>) = Joined(sets, FlattenSeq(FirstRows(s, i)))
  <2>1. FlattenSeq(FirstRows(s, i)) \in Seq(CapturedEntry)
    BY <1>5, <1>6, JoinedInAnyOrder
  <2>2. Joined(sets, FlattenSeq(FirstRows(s, i))) \in Seq(CapturedEntry)
    BY <1>8, <2>1, JoinedInAnyOrder
  <2> QED
    BY <2>2, JoinedInAnyOrder
<1>16. CASE a < Len(s.slots[i])
  BY <1>9, <1>10, <1>12, <1>13, <1>16 DEF e
<1>17. CASE ~ (a < Len(s.slots[i])) /\ i < Len(s.slots)
  <2>1. a = Len(s.slots[i])
    BY <1>2, <1>17
  <2> QED
    BY <1>3, <1>9, <1>11, <1>12, <1>13, <1>14, <1>15, <1>17, <2>1 DEF e
<1>18. CASE ~ (a < Len(s.slots[i])) /\ ~ (i < Len(s.slots))
  <2>1. a = Len(s.slots[i]) /\ i = Len(s.slots)
    BY <1>2, <1>18
  <2> QED
    BY <1>3, <1>7, <1>8, <1>9, <1>12, <1>13, <1>14, <1>18, <2>1 DEF e
<1> QED
  BY <1>16, <1>17, <1>18

(* What the current entry is to become. *)
LEMMA WholeFacts ==
  ASSUME SinkInv, ~Idle
  PROVE  LET whole == Delivered(set, slot, alt)
         IN /\ whole \in CapturedEntry /\ whole.key = EntryKey /\ whole.icon = Entry.icon
            /\ whole.info = (Entry.info /\ level >= 3) /\ whole.metadata = Metadata(Entry)
            /\ whole.fields = Entry.fields /\ Entry.fields \in Seq(Field)
            /\ whole.delegation = IF level >= 7 THEN Delegation ELSE None
            /\ whole.link = (Entry.link /\ level >= 6)
            /\ whole.text = (Entry.text /\ level >= 5)
<1>1. SinkTypeOK /\ set \in WellFormedSet /\ slot \in DOMAIN set.slots /\ alt \in DOMAIN set.slots[slot]
  BY DEF SinkInv, SendCursor
<1>2. Entry \in SetEntry /\ level \in Nat
  BY <1>1, EntryFacts, HostFacts
<1>3. Delivered(set, slot, alt) \in CapturedEntry
  BY <1>1, DeliveredType
<1>4. Delivered(set, slot, alt).delegation = IF level >= 7 THEN Delegation ELSE None
  BY <1>2 DEF Delivered, Delegation, Entry
<1>5. Delivered(set, slot, alt).metadata = Metadata(Entry)
  BY DEF Delivered, Metadata, DisplaySkipped, Entry
<1>6. Delivered(set, slot, alt).key = EntryKey
  BY DEF Delivered, EntryKey, Entry
<1>7. LET whole == Delivered(set, slot, alt)
      IN /\ whole.icon = Entry.icon /\ whole.info = (Entry.info /\ level >= 3)
         /\ whole.fields = Entry.fields /\ whole.link = (Entry.link /\ level >= 6)
         /\ whole.text = (Entry.text /\ level >= 5)
  BY DEF Delivered, Entry
<1>8. Entry.fields \in Seq(Field)
  BY <1>2 DEF SetEntry
<1> QED
  BY <1>3, <1>4, <1>5, <1>6, <1>7, <1>8

LEMMA GrownType ==
  ASSUME NEW whole \in CapturedEntry, NEW call, NEW n \in Nat \ {0},
         call = "fields" => n \in 1..(Len(whole.fields) + 1)
  PROVE  Grown(whole, call, n) \in CapturedEntry
<1>1. whole.fields \in Seq(Field) /\ (call = "fields" => SubSeq(whole.fields, 1, n - 1) \in Seq(Field))
  <2>1. whole.fields \in Seq(Field)
    BY DEF CapturedEntry
  <2> QED
    BY <2>1
<1>2. /\ whole.key \in Key /\ whole.icon \in {None} \cup Icon /\ whole.info \in BOOLEAN
      /\ whole.metadata \in MetadataObject /\ whole.link \in BOOLEAN
      /\ whole.delegation \in {None} \cup {0, 1} /\ << >> \in Seq(Field)
  BY DEF CapturedEntry
<1> QED
  BY <1>1, <1>2 DEF Grown, CapturedEntry

(* Giving the current entry something leaves those before it. *)
LEMMA LastReplaced ==
  ASSUME SinkTypeOK, NEW f \in Seq(CapturedEntry), NEW got \in CapturedEntry, NEW e \in CapturedEntry,
         host.entries = Append(f, got)
  PROVE  LET then == [host EXCEPT !.entries = [@ EXCEPT ![Len(host.entries)] = e]]
         IN then.entries = Append(f, e) /\ then.sets = host.sets
<1>1. host = [sets |-> host.sets, entries |-> host.entries, trapped |-> host.trapped]
  BY HostFacts
<1>2. [host.entries EXCEPT ![Len(host.entries)] = e] = Append(f, e)
  BY LastExcept
<1> QED
  BY <1>1, <1>2

(* An entry with what the calls after the first attach to it. *)
Given(got, fields, delegation, link, text) ==
  [key |-> got.key, icon |-> got.icon, info |-> got.info, metadata |-> got.metadata,
   fields |-> fields, delegation |-> delegation, link |-> link, text |-> text]

(* The entry grows by what each call gives it. *)
LEMMA CallsGive ==
  ASSUME SinkInv, ~Idle, part # "add", NEW f \in Seq(CapturedEntry), NEW got \in CapturedEntry,
         host.entries = Append(f, got)
  PROVE  /\ \A mode \in {None, 0, 1} : level >= 7 =>
              LET then == SetDelegationTypeForEntryInSet(host, level, EntryKey, mode)
              IN then.entries = Append(f, Given(got, got.fields, mode, got.link, got.text)) /\ then.sets = host.sets
         /\ level >= 6 =>
              LET then == SetAdditionalDisclaimerAndUrl(host, level, EntryKey)
              IN then.entries = Append(f, Given(got, got.fields, got.delegation, TRUE, got.text)) /\ then.sets = host.sets
         /\ \A row \in Field :
              LET then == AddFieldToEntrySet(host, EntryKey, row)
              IN then.entries = Append(f, Given(got, Append(got.fields, row), got.delegation, got.link, got.text)) /\ then.sets = host.sets
         /\ level >= 5 =>
              LET then == AddMetadataDisplayTextToEntrySet(host, level, EntryKey)
              IN then.entries = Append(f, Given(got, got.fields, got.delegation, got.link, TRUE)) /\ then.sets = host.sets
<1> DEFINE last == Len(host.entries)
<1>1. Known(host, EntryKey) /\ EntryAt(host, EntryKey) = last /\ host.entries[last] = got /\ SinkTypeOK
  <2>1. Known(host, EntryKey) /\ EntryAt(host, EntryKey) = last
    BY LastIsEntry
  <2>2. host.entries[last] = got
    OBVIOUS
  <2> QED
    BY <2>1, <2>2 DEF SinkInv
<1>2. /\ got.fields \in Seq(Field)
      /\ got = [key |-> got.key, icon |-> got.icon, info |-> got.info, metadata |-> got.metadata, fields |-> got.fields,
              delegation |-> got.delegation, link |-> got.link, text |-> got.text]
  BY DEF CapturedEntry
<1> HIDE DEF last
<1>3. ASSUME NEW mode \in {None, 0, 1}, level >= 7
      PROVE  LET then == SetDelegationTypeForEntryInSet(host, level, EntryKey, mode)
             IN then.entries = Append(f, Given(got, got.fields, mode, got.link, got.text)) /\ then.sets = host.sets
  <2> DEFINE e == [got EXCEPT !.delegation = mode]
  <2>1. e \in CapturedEntry
    BY DEF CapturedEntry
  <2>2. SetDelegationTypeForEntryInSet(host, level, EntryKey, mode) = [host EXCEPT !.entries = [@ EXCEPT ![last] = e]]
    BY <1>1, <1>3 DEF SetDelegationTypeForEntryInSet, Reached
  <2>3. e = Given(got, got.fields, mode, got.link, got.text)
    BY SMTT(60), <1>2 DEF Given
  <2> HIDE DEF e
  <2>4. LET then == SetDelegationTypeForEntryInSet(host, level, EntryKey, mode)
        IN then.entries = Append(f, e) /\ then.sets = host.sets
    BY <1>1, <2>1, <2>2, LastReplaced DEF last
  <2> QED
    BY <2>3, <2>4
<1>4. ASSUME level >= 6
      PROVE  LET then == SetAdditionalDisclaimerAndUrl(host, level, EntryKey)
             IN then.entries = Append(f, Given(got, got.fields, got.delegation, TRUE, got.text)) /\ then.sets = host.sets
  <2> DEFINE e == [got EXCEPT !.link = TRUE]
  <2>1. e \in CapturedEntry
    BY DEF CapturedEntry
  <2>2. SetAdditionalDisclaimerAndUrl(host, level, EntryKey) = [host EXCEPT !.entries = [@ EXCEPT ![last] = e]]
    BY <1>1, <1>4 DEF SetAdditionalDisclaimerAndUrl, Reached
  <2>3. e = Given(got, got.fields, got.delegation, TRUE, got.text)
    <3>1. /\ e.key = got.key /\ e.icon = got.icon /\ e.info = got.info /\ e.metadata = got.metadata
          /\ e.fields = got.fields /\ e.delegation = got.delegation /\ e.text = got.text /\ e.link = TRUE
      BY <1>2
    <3> HIDE DEF e
    <3>2. e = [key |-> e.key, icon |-> e.icon, info |-> e.info, metadata |-> e.metadata, fields |-> e.fields,
               delegation |-> e.delegation, link |-> e.link, text |-> e.text]
      BY <2>1 DEF CapturedEntry
    <3> QED
      BY Zenon, <3>1, <3>2 DEF Given
  <2> HIDE DEF e
  <2>4. LET then == SetAdditionalDisclaimerAndUrl(host, level, EntryKey)
        IN then.entries = Append(f, e) /\ then.sets = host.sets
    BY <1>1, <2>1, <2>2, LastReplaced DEF last
  <2> QED
    BY <2>3, <2>4
<1>5. ASSUME NEW row \in Field
      PROVE  LET then == AddFieldToEntrySet(host, EntryKey, row)
             IN then.entries = Append(f, Given(got, Append(got.fields, row), got.delegation, got.link, got.text)) /\ then.sets = host.sets
  <2> DEFINE e == [got EXCEPT !.fields = Append(@, row)]
  <2>1. e \in CapturedEntry
    <3>1. Append(got.fields, row) \in Seq(Field)
      BY <1>2
    <3> QED
      BY <3>1 DEF CapturedEntry
  <2>2. AddFieldToEntrySet(host, EntryKey, row) = [host EXCEPT !.entries = [@ EXCEPT ![last] = e]]
    BY <1>1 DEF AddFieldToEntrySet
  <2>3. e = Given(got, Append(got.fields, row), got.delegation, got.link, got.text)
    BY SMTT(60), <1>2 DEF Given
  <2> HIDE DEF e
  <2>4. LET then == AddFieldToEntrySet(host, EntryKey, row)
        IN then.entries = Append(f, e) /\ then.sets = host.sets
    BY <1>1, <2>1, <2>2, LastReplaced DEF last
  <2> QED
    BY <2>3, <2>4
<1>6. ASSUME level >= 5
      PROVE  LET then == AddMetadataDisplayTextToEntrySet(host, level, EntryKey)
             IN then.entries = Append(f, Given(got, got.fields, got.delegation, got.link, TRUE)) /\ then.sets = host.sets
  <2> DEFINE e == [got EXCEPT !.text = TRUE]
  <2>1. e \in CapturedEntry
    BY DEF CapturedEntry
  <2>2. AddMetadataDisplayTextToEntrySet(host, level, EntryKey) = [host EXCEPT !.entries = [@ EXCEPT ![last] = e]]
    BY <1>1, <1>6 DEF AddMetadataDisplayTextToEntrySet, Reached
  <2>3. e = Given(got, got.fields, got.delegation, got.link, TRUE)
    <3>1. /\ e.key = got.key /\ e.icon = got.icon /\ e.info = got.info /\ e.metadata = got.metadata
          /\ e.fields = got.fields /\ e.delegation = got.delegation /\ e.link = got.link /\ e.text = TRUE
      BY <1>2
    <3> HIDE DEF e
    <3>2. e = [key |-> e.key, icon |-> e.icon, info |-> e.info, metadata |-> e.metadata, fields |-> e.fields,
               delegation |-> e.delegation, link |-> e.link, text |-> e.text]
      BY <2>1 DEF CapturedEntry
    <3> QED
      BY Zenon, <3>1, <3>2 DEF Given
  <2> HIDE DEF e
  <2>4. LET then == AddMetadataDisplayTextToEntrySet(host, level, EntryKey)
        IN then.entries = Append(f, e) /\ then.sets = host.sets
    BY <1>1, <2>1, <2>2, LastReplaced DEF last
  <2> QED
    BY <2>3, <2>4
<1> QED
  BY <1>3, <1>4, <1>5, <1>6

(* Nothing delivered depends on more than the level and the default. *)
LEMMA DeliveriesStay ==
  ASSUME level' = level, default' = default
  PROVE  /\ \A s, i, a : Delivered(s, i, a)' = Delivered(s, i, a)
         /\ \A s, i, n : FirstOf(s, i, n)' = FirstOf(s, i, n)
         /\ \A s, n : FirstRows(s, n)' = FirstRows(s, n)
         /\ \A s : EntriesOf(s)' = EntriesOf(s)
<1>1. \A s, i, a : Delivered(s, i, a)' = Delivered(s, i, a)
  BY DEF Delivered
<1>2. \A s, i, n : FirstOf(s, i, n)' = FirstOf(s, i, n)
  BY <1>1 DEF FirstOf
<1>3. \A s, i : RowOf(s, i)' = RowOf(s, i)
  BY <1>1 DEF RowOf
<1>4. \A s, n : FirstRows(s, n)' = FirstRows(s, n)
  BY <1>3 DEF FirstRows
<1>5. \A s : EntriesOf(s)' = EntriesOf(s)
  BY <1>1 DEF EntriesOf
<1> QED
  BY <1>1, <1>2, <1>4, <1>5

LEMMA FinishedStays ==
  ASSUME level' = level, default' = default, sent' = sent
  PROVE  /\ \A n : FirstSets(n)' = FirstSets(n)
         /\ \A s, i, a : Finished(s, i, a)' = Finished(s, i, a)
<1>1. \A n : FirstSets(n)' = FirstSets(n)
  BY DeliveriesStay DEF FirstSets
<1>2. \A s, i, a : Finished(s, i, a)' = Finished(s, i, a)
  BY <1>1, DeliveriesStay DEF Finished
<1> QED
  BY <1>1, <1>2

LEMMA NothingDeliveredYet == SinkInit => DeliveredSoFar
<1> SUFFICES ASSUME SinkInit PROVE DeliveredSoFar
  OBVIOUS
<1>1. sent = << >> /\ host = FreshHost /\ Idle
  BY DEF SinkInit, InitSink, Idle
<1>2. Declarations = << >>
  BY <1>1 DEF Declarations
<1>3. FirstSets(Len(sent)) = << >>
  BY <1>1 DEF FirstSets
<1>4. FreshHost.sets = << >> /\ FreshHost.entries = << >>
  BY DEF FreshHost
<1> QED
  BY <1>1, <1>2, <1>3, <1>4, FlattenNothing DEF DeliveredSoFar

(* The current entry while it is sent, and the entries before it. *)
LEMMA Halfway ==
  ASSUME SinkInv, DeliveredSoFar, ~Idle,
         NEW s, s = set, NEW i, i = slot, NEW a, a = alt
  PROVE  /\ sent # << >> /\ s = sent[Len(sent)] /\ s \in WellFormedSet
         /\ i \in DOMAIN s.slots /\ a \in DOMAIN s.slots[i]
         /\ Finished(s, i, a) \in Seq(CapturedEntry)
         /\ part = "add" => host.entries = Finished(s, i, a)
         /\ part # "add" =>
              /\ host.entries = Append(Finished(s, i, a), Grown(Delivered(s, i, a), part, field))
              /\ Grown(Delivered(s, i, a), part, field) \in CapturedEntry
<1>1. /\ sent # << >> /\ s = sent[Len(sent)] /\ s \in WellFormedSet /\ SinkTypeOK
      /\ i \in DOMAIN s.slots /\ a \in DOMAIN s.slots[i]
      /\ IF part = "fields" THEN field \in 1..(Len(Entry.fields) + 1) ELSE field = 1
      /\ host.entries = IF part = "add" THEN Finished(s, i, a)
                        ELSE Append(Finished(s, i, a), Grown(Delivered(s, i, a), part, field))
  BY DEF DeliveredSoFar, SinkInv, SendCursor
<1>2. Finished(s, i, a) \in Seq(CapturedEntry)
  BY <1>1, FinishedGrows
<1>3. Delivered(s, i, a) \in CapturedEntry /\ Delivered(s, i, a).fields = Entry.fields
  <2>1. Delivered(s, i, a) = Delivered(set, slot, alt)
    OBVIOUS
  <2> QED
    BY <2>1, WholeFacts
<1>4. Grown(Delivered(s, i, a), part, field) \in CapturedEntry
  <2>1. field \in Nat \ {0}
    BY <1>1 DEF SinkTypeOK
  <2> QED
    BY <1>1, <1>3, <2>1, GrownType
<1> QED
  BY <1>1, <1>2, <1>4

LEMMA DeclaringStarts ==
  ASSUME SinkInv, DeliveredSoFar, Declaring, SinkInv'
  PROVE  DeliveredSoFar'
<1>1. PICK s \in WellFormedSet : AddSet(s)
  BY DEF Declaring
<1>2. /\ Idle /\ set' = s /\ slot' = 1 /\ alt' = 1 /\ part' = "add" /\ field' = 1
      /\ host' = AddEntrySet(host, s.id, SlotCount(s))
      /\ sent' = Append(sent, s) /\ level' = level /\ default' = default
  BY <1>1 DEF AddSet
<1>3. sent \in Seq(WellFormedSet) /\ SinkTypeOK /\ s # None
  <2>1. s # None
    BY SetsAreWellFormed
  <2> QED
    BY <2>1 DEF SinkInv, SinkTypeOK
<1>4. /\ host'.sets = Append(host.sets, [id |-> s.id, length |-> Len(s.slots)])
      /\ host'.entries = host.entries
  BY <1>2, <1>3, HostFacts DEF AddEntrySet, SlotCount
<1>5. Declarations' = Append(Declarations, [id |-> s.id, length |-> Len(s.slots)])
  BY <1>2, <1>3 DEF Declarations
<1>6. \A n \in 0..Len(sent) : FirstSets(n)' = FirstSets(n)
  <2> SUFFICES ASSUME NEW n \in 0..Len(sent) PROVE FirstSets(n)' = FirstSets(n)
    OBVIOUS
  <2>1. \A m \in 1..n : sent'[m] = sent[m]
    BY <1>2, <1>3
  <2> QED
    BY <1>2, <2>1, DeliveriesStay DEF FirstSets
<1>7. Finished(s, 1, 1)' = Joined(Joined(FlattenSeq(FirstSets(Len(sent))), << >>), << >>)
  <2>1. Len(sent') - 1 = Len(sent) /\ Len(sent) \in 0..Len(sent)
    BY <1>2, <1>3
  <2>2. FirstRows(s, 0)' = << >> /\ FirstOf(s, 1, 0)' = << >>
    BY DEF FirstRows, FirstOf
  <2>3. FlattenSeq(<< >>) = << >>
    BY FlattenNothing
  <2> QED
    BY <1>6, <2>1, <2>2, <2>3 DEF Finished
<1>8. FlattenSeq(FirstSets(Len(sent))) \in Seq(CapturedEntry)
  <2>1. FirstSets(Len(sent)) \in Seq(Seq(CapturedEntry)) /\ << >> \in Seq(CapturedEntry)
    BY <1>3, SetsAreSequences
  <2> QED
    BY <2>1, FlattenAppends
<1>9. host'.entries = Finished(s, 1, 1)'
  BY <1>2, <1>4, <1>7, <1>8, JoinedInAnyOrder DEF DeliveredSoFar
<1>10. sent' # << >> /\ set' = sent'[Len(sent')] /\ ~ Idle'
  BY <1>2, <1>3 DEF Idle
<1>11. host'.sets = Declarations'
  BY <1>4, <1>5 DEF DeliveredSoFar
<1> QED
  BY <1>2, <1>9, <1>10, <1>11 DEF DeliveredSoFar

(* What an entry gains from one call to the next. *)
LEMMA GrownSoFar ==
  ASSUME NEW whole, NEW n
  PROVE  /\ LET got == Grown(whole, "delegation", n)
            IN Grown(whole, "link", n) = Given(got, got.fields, whole.delegation, got.link, got.text)
         /\ LET got == Grown(whole, "link", n)
            IN SubSeq(whole.fields, 1, n - 1) = << >> =>
                 Grown(whole, "fields", n) = Given(got, got.fields, got.delegation, whole.link, got.text)
         /\ LET got == Grown(whole, "fields", n)
            IN \A m, row : SubSeq(whole.fields, 1, m - 1) = Append(got.fields, row) =>
                 Grown(whole, "fields", m) = Given(got, Append(got.fields, row), got.delegation, got.link, got.text)
BY DEF Grown, Given

(* A call for the current entry leaves those before it as they are. *)
LEMMA EntryGoesOn ==
  ASSUME SinkInv, DeliveredSoFar, ~Idle, UNCHANGED <<level, default, sent, set, slot, alt>>,
         host'.sets = host.sets, part' # "add",
         IF part' = "fields" THEN field' \in 1..(Len(Entry.fields) + 1) ELSE field' = 1,
         NEW s, s = set, NEW i, i = slot, NEW a, a = alt,
         host'.entries = Append(Finished(s, i, a), Grown(Delivered(s, i, a), part', field'))
  PROVE  DeliveredSoFar'
<1>1. Declarations' = Declarations /\ Entry' = Entry /\ ~ Idle'
  BY DEF Declarations, Entry, Idle
<1>2. host'.sets = Declarations'
  BY <1>1 DEF DeliveredSoFar
<1>3. sent' # << >> /\ set' = sent'[Len(sent')]
  BY DEF DeliveredSoFar
<1>4. Finished(s, i, a)' = Finished(s, i, a) /\ Delivered(s, i, a)' = Delivered(s, i, a)
  BY FinishedStays, DeliveriesStay
<1>5. \A t \in {set'}, j \in {slot'}, b \in {alt'} : t = s /\ j = i /\ b = a
  OBVIOUS
<1> QED
  BY <1>1, <1>2, <1>3, <1>4, <1>5 DEF DeliveredSoFar

LEMMA AddingGives ==
  ASSUME SinkInv, DeliveredSoFar, AddEntry
  PROVE  DeliveredSoFar'
<1> DEFINE s == set
           i == slot
           a == alt
           whole == Delivered(set, slot, alt)
<1>1. /\ ~Idle /\ part = "add" /\ part' = "delegation" /\ field' = 1
      /\ UNCHANGED <<level, default, sent, set, slot, alt>>
  BY DEF AddEntry, Sending
<1>2. Entry \in SetEntry /\ SinkTypeOK /\ (Entry.info => Entry.kind = "payment")
  <2>1. set \in WellFormedSet /\ slot \in DOMAIN set.slots /\ alt \in DOMAIN set.slots[slot]
    BY <1>1 DEF SinkInv, SendCursor
  <2> QED
    BY <1>1, <2>1, EntryFacts, SetsAreWellFormed DEF Entry, SinkInv
<1>3. host' = Add(host, EntryKey, Entry.icon, Entry.info /\ level >= 3, Metadata(Entry))
  <2>1. CASE Entry.kind = "verification"
    <3>1. (Entry.info /\ level >= 3) = FALSE
      BY <1>2, <2>1
    <3> QED
      BY <2>1, <3>1 DEF AddEntry, AddEntryToSet
  <2>2. CASE Entry.kind # "verification" /\ level >= 3
    <3>1. (Entry.info /\ level >= 3) = Entry.info
      BY <1>2, <2>2 DEF SetEntry
    <3> QED
      BY <2>2, <3>1 DEF AddEntry, AddPaymentEntryToSetV2, Reached
  <2>3. CASE Entry.kind # "verification" /\ ~ (level >= 3)
    <3>1. (Entry.info /\ level >= 3) = FALSE
      BY <2>3
    <3> QED
      BY <2>3, <3>1 DEF AddEntry, AddPaymentEntryToSet
  <2> QED
    BY <2>1, <2>2, <2>3
<1>4. Grown(whole, "delegation", 1) =
        [key |-> EntryKey, icon |-> Entry.icon, info |-> Entry.info /\ level >= 3,
         metadata |-> Metadata(Entry), fields |-> << >>, delegation |-> None,
         link |-> FALSE, text |-> FALSE]
  BY <1>1, WholeFacts DEF Grown
<1> HIDE DEF whole
<1>5. host'.entries = Append(host.entries, Grown(whole, "delegation", 1)) /\ host'.sets = host.sets
  <2>1. host = [sets |-> host.sets, entries |-> host.entries, trapped |-> host.trapped]
    BY <1>2, HostFacts
  <2> QED
    BY <1>3, <1>4, <2>1 DEF Add
<1>6. host.entries = Finished(s, i, a)
  BY <1>1, Halfway
<1>7. host'.entries = Append(Finished(s, i, a), Grown(Delivered(s, i, a), part', field'))
  BY <1>1, <1>5, <1>6 DEF whole
<1> HIDE DEF s, i, a
<1>8. s = set /\ i = slot /\ a = alt
  BY DEF s, i, a
<1> QED
  BY <1>1, <1>5, <1>7, <1>8, EntryGoesOn

LEMMA DelegatingGives ==
  ASSUME SinkInv, DeliveredSoFar, SendDelegation
  PROVE  DeliveredSoFar'
<1> DEFINE s == set
           i == slot
           a == alt
<1> HIDE DEF s, i, a
<1>1. /\ ~Idle /\ part = "delegation" /\ part' = "link" /\ field' = field
      /\ UNCHANGED <<level, default, sent, set, slot, alt>>
      /\ host' = IF Delegation # None /\ level >= 7
                 THEN SetDelegationTypeForEntryInSet(host, level, EntryKey, Delegation) ELSE host
  BY DEF SendDelegation, Sending
<1>2. s = set /\ i = slot /\ a = alt
  BY DEF s, i, a
<1> DEFINE whole == Delivered(s, i, a)
           f == Finished(s, i, a)
<1>3. /\ f \in Seq(CapturedEntry) /\ host.entries = Append(f, Grown(whole, "delegation", field))
      /\ Grown(whole, "delegation", field) \in CapturedEntry
  BY <1>1, <1>2, Halfway
<1>4. whole.delegation = IF level >= 7 THEN Delegation ELSE None
  BY <1>1, <1>2, WholeFacts
<1> HIDE DEF whole, f
<1> DEFINE got == Grown(whole, "delegation", field)
<1>5. Grown(whole, "link", field) = Given(got, got.fields, whole.delegation, got.link, got.text)
  BY GrownSoFar
<1>6. Delegation \in {None, 0, 1}
  <2>1. Entry \in SetEntry /\ default \in {None, 0, 1}
    BY <1>1, EntryFacts DEF SinkInv, SinkTypeOK
  <2> QED
    BY <2>1 DEF Delegation, SetEntry
<1>7. host'.entries = Append(f, Grown(whole, "link", field)) /\ host'.sets = host.sets
  <2>1. CASE Delegation # None /\ level >= 7
    <3> DEFINE then == SetDelegationTypeForEntryInSet(host, level, EntryKey, Delegation)
    <3> HIDE DEF got
    <3>1. /\ then.entries = Append(f, Given(got, got.fields, Delegation, got.link, got.text))
          /\ then.sets = host.sets
      BY <1>1, <1>3, <1>6, <2>1, CallsGive DEF got
    <3>2. host' = then /\ whole.delegation = Delegation
      BY <1>1, <1>4, <2>1
    <3> HIDE DEF then
    <3> QED
      BY <1>5, <3>1, <3>2 DEF got
  <2>2. CASE ~ (Delegation # None /\ level >= 7)
    <3>1. whole.delegation = None
      BY <1>4, <2>2
    <3>2. Grown(whole, "link", field) = Grown(whole, "delegation", field)
      BY <3>1 DEF Grown
    <3> QED
      BY <1>1, <1>3, <2>2, <3>2
  <2> QED
    BY <2>1, <2>2
<1>8. host'.entries = Append(Finished(s, i, a), Grown(Delivered(s, i, a), part', field'))
  BY <1>1, <1>7 DEF f, whole
<1>9. field' = 1
  BY <1>1 DEF DeliveredSoFar
<1> QED
  BY <1>1, <1>2, <1>7, <1>8, <1>9, EntryGoesOn

LEMMA LinkingGives ==
  ASSUME SinkInv, DeliveredSoFar, SendLink
  PROVE  DeliveredSoFar'
<1> DEFINE s == set
           i == slot
           a == alt
<1> HIDE DEF s, i, a
<1>1. /\ ~Idle /\ part = "link" /\ part' = "fields" /\ field' = field
      /\ UNCHANGED <<level, default, sent, set, slot, alt>>
      /\ host' = IF Entry.link /\ level >= 6
                 THEN SetAdditionalDisclaimerAndUrl(host, level, EntryKey) ELSE host
  BY DEF SendLink, Sending
<1>2. s = set /\ i = slot /\ a = alt
  BY DEF s, i, a
<1> DEFINE whole == Delivered(s, i, a)
           f == Finished(s, i, a)
<1>3. /\ f \in Seq(CapturedEntry) /\ host.entries = Append(f, Grown(whole, "link", field))
      /\ Grown(whole, "link", field) \in CapturedEntry
  BY <1>1, <1>2, Halfway
<1>4. /\ whole.link = (Entry.link /\ level >= 6) /\ whole.fields = Entry.fields
      /\ Entry.fields \in Seq(Field)
  BY <1>1, <1>2, WholeFacts
<1> HIDE DEF whole, f
<1>5. field = 1
  BY <1>1 DEF DeliveredSoFar
<1>6. SubSeq(whole.fields, 1, field - 1) = << >>
  BY <1>4, <1>5
<1> DEFINE got == Grown(whole, "link", field)
<1>7. Grown(whole, "fields", field) = Given(got, got.fields, got.delegation, whole.link, got.text)
  BY <1>6, GrownSoFar
<1>8. host'.entries = Append(f, Grown(whole, "fields", field)) /\ host'.sets = host.sets
  <2>1. CASE Entry.link /\ level >= 6
    <3>1. whole.link = TRUE
      BY <1>4, <2>1
    <3> DEFINE then == SetAdditionalDisclaimerAndUrl(host, level, EntryKey)
    <3> HIDE DEF got
    <3>2. then.entries = Append(f, Given(got, got.fields, got.delegation, TRUE, got.text)) /\ then.sets = host.sets
      BY <1>1, <1>3, <2>1, CallsGive DEF got
    <3>3. host' = then
      BY <1>1, <2>1
    <3> HIDE DEF then
    <3> QED
      BY <1>7, <3>1, <3>2, <3>3 DEF got
  <2>2. CASE ~ (Entry.link /\ level >= 6)
    <3>1. whole.link = FALSE
      BY <1>4, <2>2
    <3>2. Grown(whole, "fields", field) = Grown(whole, "link", field)
      BY <1>6, <3>1 DEF Grown
    <3> QED
      BY <1>1, <1>3, <2>2, <3>2
  <2> QED
    BY <2>1, <2>2
<1>9. host'.entries = Append(Finished(s, i, a), Grown(Delivered(s, i, a), part', field'))
  BY <1>1, <1>8 DEF f, whole
<1>10. field' \in 1..(Len(Entry.fields) + 1)
  BY <1>1, <1>4, <1>5
<1> QED
  BY <1>1, <1>2, <1>8, <1>9, <1>10, EntryGoesOn

LEMMA FieldGives ==
  ASSUME SinkInv, DeliveredSoFar, SendField
  PROVE  DeliveredSoFar'
<1> DEFINE s == set
           i == slot
           a == alt
<1> HIDE DEF s, i, a
<1>1. /\ ~Idle /\ part = "fields" /\ part' = "fields" /\ field' = field + 1
      /\ field \in DOMAIN Entry.fields
      /\ UNCHANGED <<level, default, sent, set, slot, alt>>
      /\ host' = AddFieldToEntrySet(host, EntryKey, Entry.fields[field])
  BY DEF SendField, Sending
<1>2. s = set /\ i = slot /\ a = alt
  BY DEF s, i, a
<1> DEFINE whole == Delivered(s, i, a)
           f == Finished(s, i, a)
           row == Entry.fields[field]
<1>3. /\ f \in Seq(CapturedEntry) /\ host.entries = Append(f, Grown(whole, "fields", field))
      /\ Grown(whole, "fields", field) \in CapturedEntry
  BY <1>1, <1>2, Halfway
<1>4. whole.fields = Entry.fields /\ Entry.fields \in Seq(Field)
  BY <1>1, <1>2, WholeFacts
<1> HIDE DEF whole, f
<1>5. field \in 1..Len(Entry.fields) /\ Len(Entry.fields) \in Nat /\ row \in Field
  BY <1>1, <1>4
<1>6. SubSeq(whole.fields, 1, field) = Append(SubSeq(whole.fields, 1, field - 1), row)
  <2>1. ASSUME NEW rows \in Seq(Field), NEW n \in 1..Len(rows)
        PROVE  SubSeq(rows, 1, n) = Append(SubSeq(rows, 1, n - 1), rows[n])
    <3>1. /\ n \in Nat \ {0} /\ SubSeq(rows, 1, n) \in Seq(Field) /\ SubSeq(rows, 1, n - 1) \in Seq(Field)
          /\ Len(SubSeq(rows, 1, n)) = n /\ Len(SubSeq(rows, 1, n - 1)) = n - 1
          /\ SubSeq(rows, 1, n)[n] = rows[n]
          /\ \A k \in 1..(n - 1) : SubSeq(rows, 1, n - 1)[k] = SubSeq(rows, 1, n)[k]
      OBVIOUS
    <3> QED
      BY <3>1, OneMore
  <2> QED
    BY <1>4, <1>5, <2>1
<1> HIDE DEF row
<1> DEFINE got == Grown(whole, "fields", field)
<1>7. Grown(whole, "fields", field + 1) =
        Given(got, Append(got.fields, row), got.delegation, got.link, got.text)
  <2> SUFFICES ASSUME NEW n, n = field + 1
               PROVE  Grown(whole, "fields", n) =
                        Given(got, Append(got.fields, row), got.delegation, got.link, got.text)
    OBVIOUS
  <2>1. n - 1 = field /\ got.fields = SubSeq(whole.fields, 1, field - 1)
    BY <1>5 DEF Grown
  <2>2. SubSeq(whole.fields, 1, n - 1) = Append(got.fields, row)
    BY <1>6, <2>1
  <2> QED
    BY <2>2, GrownSoFar
<1>8. host'.entries = Append(f, Grown(whole, "fields", field + 1)) /\ host'.sets = host.sets
  <2> DEFINE then == AddFieldToEntrySet(host, EntryKey, row)
  <2> HIDE DEF got
  <2>1. then.entries = Append(f, Given(got, Append(got.fields, row), got.delegation, got.link, got.text)) /\ then.sets = host.sets
    BY <1>1, <1>3, <1>5, CallsGive DEF got
  <2>2. host' = then
    BY <1>1 DEF row
  <2> HIDE DEF then
  <2> QED
    BY <1>7, <2>1, <2>2 DEF got
<1>9. host'.entries = Append(Finished(s, i, a), Grown(Delivered(s, i, a), part', field'))
  BY <1>1, <1>8 DEF f, whole
<1>10. field' \in 1..(Len(Entry.fields) + 1)
  BY <1>1, <1>5
<1> QED
  BY <1>1, <1>2, <1>8, <1>9, <1>10, EntryGoesOn

(* The current entry is whole: it is one of the finished ones, and the next  *)
(* is another alternative, another slot's first, or none.                    *)
LEMMA FinishingGives ==
  ASSUME SinkInv, DeliveredSoFar, SendText, SinkInv'
  PROVE  DeliveredSoFar'
<1> DEFINE s == set
           i == slot
           a == alt
<1> HIDE DEF s, i, a
<1>1. /\ ~Idle /\ part = "fields" /\ part' = "add" /\ field' = 1
      /\ field \notin DOMAIN Entry.fields
      /\ UNCHANGED <<level, default, sent>>
      /\ host' = IF Entry.text /\ level >= 5
                 THEN AddMetadataDisplayTextToEntrySet(host, level, EntryKey) ELSE host
      /\ IF a < Len(s.slots[i])
         THEN alt' = a + 1 /\ set' = s /\ slot' = i
         ELSE /\ alt' = 1
              /\ IF i < Len(s.slots) THEN slot' = i + 1 /\ set' = s
                 ELSE slot' = 1 /\ set' = None
  BY DEF SendText, Sending, TextReaches, s, i, a
<1>2. s = set /\ i = slot /\ a = alt
  BY DEF s, i, a
<1> DEFINE whole == Delivered(s, i, a)
           f == Finished(s, i, a)
           got == Grown(whole, "fields", field)
<1>3. /\ f \in Seq(CapturedEntry) /\ host.entries = Append(f, got) /\ got \in CapturedEntry
      /\ sent # << >> /\ s = sent[Len(sent)] /\ s \in WellFormedSet /\ s # None
      /\ i \in DOMAIN s.slots /\ a \in DOMAIN s.slots[i]
  <2>1. s # None
    BY <1>1, <1>2 DEF Idle
  <2> QED
    BY <1>1, <1>2, <2>1, Halfway
<1>4. /\ whole \in CapturedEntry /\ whole.text = (Entry.text /\ level >= 5)
      /\ whole.fields = Entry.fields /\ Entry.fields \in Seq(Field)
  BY <1>1, <1>2, WholeFacts
<1>5. host'.sets = Declarations'
  <2>1. host'.sets = host.sets
    <3>1. CASE Entry.text /\ level >= 5
      BY <1>1, <1>3, <3>1, CallsGive
    <3>2. CASE ~ (Entry.text /\ level >= 5)
      BY <1>1, <3>2
    <3> QED
      BY <3>1, <3>2
  <2>2. Declarations' = Declarations
    BY <1>1 DEF Declarations
  <2> QED
    BY <2>1, <2>2 DEF DeliveredSoFar
<1> HIDE DEF whole, f
<1>6. field = Len(whole.fields) + 1
  <2>1. field \in 1..(Len(Entry.fields) + 1)
    BY <1>1 DEF DeliveredSoFar
  <2> QED
    BY <1>1, <1>4, <2>1
<1>7. SubSeq(whole.fields, 1, field - 1) = whole.fields
  <2>1. ASSUME NEW rows \in Seq(Field) PROVE SubSeq(rows, 1, Len(rows)) = rows
    OBVIOUS
  <2>2. field - 1 = Len(whole.fields)
    BY <1>4, <1>6
  <2> QED
    BY <1>4, <2>1, <2>2
<1>8. whole = Given(got, got.fields, got.delegation, got.link, whole.text)
  <2>1. whole = [key |-> whole.key, icon |-> whole.icon, info |-> whole.info, metadata |-> whole.metadata,
                 fields |-> whole.fields, delegation |-> whole.delegation, link |-> whole.link,
                 text |-> whole.text]
    BY <1>4 DEF CapturedEntry
  <2>2. /\ got.key = whole.key /\ got.icon = whole.icon /\ got.info = whole.info /\ got.metadata = whole.metadata
        /\ got.fields = whole.fields /\ got.delegation = whole.delegation /\ got.link = whole.link
    BY <1>7 DEF Grown
  <2> HIDE DEF got
  <2> QED
    BY Zenon, <2>1, <2>2 DEF Given
<1>9. got.text = FALSE /\ Given(got, got.fields, got.delegation, got.link, got.text) = got
  <2>1. got.text = FALSE
    BY DEF Grown
  <2> HIDE DEF got
  <2>2. got = [key |-> got.key, icon |-> got.icon, info |-> got.info, metadata |-> got.metadata, fields |-> got.fields,
             delegation |-> got.delegation, link |-> got.link, text |-> got.text]
    BY <1>3 DEF CapturedEntry
  <2> QED
    BY Zenon, <2>1, <2>2 DEF Given
<1> HIDE DEF got
<1>10. host'.entries = Append(f, whole)
  <2>1. CASE Entry.text /\ level >= 5
    <3> DEFINE then == AddMetadataDisplayTextToEntrySet(host, level, EntryKey)
    <3>1. then.entries = Append(f, Given(got, got.fields, got.delegation, got.link, TRUE))
      BY <1>1, <1>3, <2>1, CallsGive
    <3>2. host' = then /\ whole.text = TRUE
      BY <1>1, <1>4, <2>1
    <3> HIDE DEF then
    <3> QED
      BY <1>8, <3>1, <3>2
  <2>2. CASE ~ (Entry.text /\ level >= 5)
    <3>1. whole.text = FALSE /\ host' = host
      BY <1>1, <1>4, <2>2
    <3> QED
      BY <1>3, <1>8, <1>9, <3>1
  <2> QED
    BY <2>1, <2>2
<1>11. host'.entries = IF a < Len(s.slots[i]) THEN Finished(s, i, a + 1)
                       ELSE IF i < Len(s.slots) THEN Finished(s, i + 1, 1)
                       ELSE FlattenSeq(FirstSets(Len(sent)))
  BY <1>3, <1>10, FinishedGrows DEF SinkInv, f, whole
<1>12. /\ \A t, j, b : Finished(t, j, b)' = Finished(t, j, b)
       /\ FirstSets(Len(sent))' = FirstSets(Len(sent))
  <2>1. /\ \A t, j, b : Finished(t, j, b)' = Finished(t, j, b)
        /\ \A n : FirstSets(n)' = FirstSets(n)
    BY <1>1, FinishedStays
  <2>2. Len(sent') = Len(sent)
    BY <1>1
  <2> QED
    BY <2>1, <2>2
<1>13. CASE a < Len(s.slots[i])
  <2>1. ~ Idle' /\ set' = s /\ \A t \in {set'}, j \in {slot'}, b \in {alt'} : t = s /\ j = i /\ b = a + 1
    BY <1>1, <1>3, <1>13 DEF Idle
  <2>2. host'.entries = Finished(s, i, a + 1)
    BY <1>11, <1>13
  <2>3. sent' # << >> /\ set' = sent'[Len(sent')]
    BY <1>1, <1>3, <2>1
  <2> QED
    BY <1>1, <1>5, <1>12, <2>1, <2>2, <2>3 DEF DeliveredSoFar
<1>14. CASE ~ (a < Len(s.slots[i])) /\ i < Len(s.slots)
  <2>1. ~ Idle' /\ set' = s /\ \A t \in {set'}, j \in {slot'}, b \in {alt'} : t = s /\ j = i + 1 /\ b = 1
    BY <1>1, <1>3, <1>14 DEF Idle
  <2>2. host'.entries = Finished(s, i + 1, 1)
    BY <1>11, <1>14
  <2>3. sent' # << >> /\ set' = sent'[Len(sent')]
    BY <1>1, <1>3, <2>1
  <2> QED
    BY <1>1, <1>5, <1>12, <2>1, <2>2, <2>3 DEF DeliveredSoFar
<1>15. CASE ~ (a < Len(s.slots[i])) /\ ~ (i < Len(s.slots))
  <2>1. Idle'
    BY <1>1, <1>15 DEF Idle
  <2>2. host'.entries = FlattenSeq(FirstSets(Len(sent)))
    BY <1>11, <1>15
  <2> QED
    BY <1>5, <1>12, <2>1, <2>2 DEF DeliveredSoFar
<1> QED
  BY <1>13, <1>14, <1>15

LEMMA DeliveringGoesOn == SinkInv /\ DeliveredSoFar /\ [SinkNext]_sink => DeliveredSoFar'
<1> SUFFICES ASSUME SinkInv, DeliveredSoFar, [SinkNext]_sink PROVE DeliveredSoFar'
  OBVIOUS
<1>1. SinkInv'
  BY SinkInductive
<1>2. CASE Declaring
  BY <1>1, <1>2, DeclaringStarts
<1>3. CASE Send
  BY <1>1, <1>3, AddingGives, DelegatingGives, LinkingGives, FieldGives, FinishingGives DEF Send
<1>4. CASE UNCHANGED sink
  <2>1. UNCHANGED <<level, default, set, slot, alt, part, field, host, sent>>
    BY <1>4 DEF sink, sending
  <2>2. Declarations' = Declarations /\ (Idle' <=> Idle) /\ Entry' = Entry
    BY <2>1 DEF Declarations, Idle, Entry
  <2>3. /\ \A s, i, a : Finished(s, i, a)' = Finished(s, i, a)
        /\ \A s, i, a : Delivered(s, i, a)' = Delivered(s, i, a)
        /\ FirstSets(Len(sent))' = FirstSets(Len(sent))
    <3>1. \A n : FirstSets(n)' = FirstSets(n)
      BY <2>1, FinishedStays
    <3> QED
      BY <2>1, <3>1, FinishedStays, DeliveriesStay
  <2> QED
    BY <2>1, <2>2, <2>3 DEF DeliveredSoFar
<1> QED
  BY <1>2, <1>3, <1>4 DEF SinkNext

(* At the return of every add_entry_set the host holds exactly what was       *)
(* built: every set of every matcher, declared with the length its slots      *)
(* have, and every alternative of every position once, in order, with its own *)
(* options and rows as far as the host's level shows them.                    *)
THEOREM SetsAreDelivered == AnySpec => []DeliveredAsBuilt
<1>1. SinkTypeOK /\ DeliveredSoFar => DeliveredAsBuilt
  <2> SUFFICES ASSUME SinkTypeOK, DeliveredSoFar, Idle PROVE DeliveredAsBuilt
    BY DEF DeliveredAsBuilt
  <2>1. [n \in DOMAIN sent |-> EntriesOf(sent[n])] = FirstSets(Len(sent))
    BY DEF SinkTypeOK, FirstSets
  <2> QED
    BY <2>1 DEF DeliveredSoFar, DeliveredAsBuilt, Declarations
<1>2. SinkInv => SinkTypeOK
  BY DEF SinkInv
<1> QED
  BY <1>1, <1>2, AnyIsSink, SinkInitially, SinkInductive, NothingDeliveredYet, DeliveringGoesOn, PTL DEF AnySpec

-----------------------------------------------------------------------------
(* The engine's part of the state goes through the engine's own steps, and   *)
(* keeps everything proved of it.                                            *)
EngineInv == TInv /\ LInv /\ AInv /\ EInv /\ CInv /\ OInv /\ DInv

LEMMA EngineBegins == EngineInit => EngineInv
BY InitTInv, InitLInv, InitAInv, InitEInv, InitCInv, InitOInv, InitDInv DEF EngineInv

LEMMA EngineGoesOn == EngineInv /\ [EngineNext]_engine => EngineInv'
<1> SUFFICES ASSUME EngineInv, [EngineNext]_engine PROVE EngineInv'
  OBVIOUS
<1>1. TInv /\ LInv /\ AInv /\ EInv /\ CInv /\ OInv /\ DInv
  BY DEF EngineInv
<1>2. TInv' /\ LInv'
  BY <1>1, NextTInv, NextLInv
<1>3. AInv' /\ EInv' /\ CInv'
  BY <1>1, NextAInv, NextEInv, NextCInv
<1>4. OInv' /\ DInv'
  BY <1>1, <1>2, NextOInv, NextDInv
<1> QED
  BY <1>2, <1>3, <1>4 DEF EngineInv

LEMMA EngineInputsStay == [EngineNext]_engine => UNCHANGED <<request, wallet, limit>>
BY DEF EngineNext, engine, inputs, ConsiderCredential, NextQuery, Judge, OfferNothing, BeginGroups,
       SkipOptionalSet, EnterSet, SetsDone, NextPartial, LeaveSet, SkipOption, OpenOption,
       MultiplyWidth, SetDials, ReadDials, CloseOption, Returned

LEMMA EngineStays ==
  ASSUME UNCHANGED engine
  PROVE  UNCHANGED <<request, wallet, limit, pc, q, c, candidates, satisfiable, g, p, o, out, next,
                     dropped, d, total, dials, left>>
BY DEF engine, inputs, evaluating, products

LEMMA SinkStays ==
  ASSUME UNCHANGED sink
  PROVE  UNCHANGED <<level, default, set, slot, alt, part, field, host, sent>>
BY DEF sink, sending

(* What no step changes. *)
Brought ==
  /\ request \in Requests /\ wallet \in Wallets /\ limit = MaxCombinations
  /\ invocation \in Invocations /\ level = invocation.level /\ default = None

Fixed == UNCHANGED <<request, wallet, limit, invocation, level, default>>

LEMMA SendKeepsLevel == Send => UNCHANGED <<level, default, sent>>
BY DEF Send, AddEntry, SendDelegation, SendLink, SendField, SendText

LEMMA EmitKeepsLevel ==
  ASSUME NEW id, NEW members, EmitSet(id, members)
  PROVE  UNCHANGED <<level, default>>
BY DEF EmitSet, AddSet, sink

LEMMA StepOfEngine == [Next]_vars => [EngineNext]_engine
BY DEF Next, vars, Connect, ReadInputs, Evaluate, Unsatisfiable, NoCombinations,
       HasCombinations, Offer, SendNext, Finish, Ended

LEMMA StepKeepsBrought == [Next]_vars => Fixed
<1> SUFFICES ASSUME [Next]_vars PROVE Fixed
  OBVIOUS
<1>1. UNCHANGED <<request, wallet, limit>>
  BY StepOfEngine, EngineInputsStay
<1>2. UNCHANGED invocation
  BY DEF Next, vars, run, Connect, ReadInputs, Evaluate, Unsatisfiable, NoCombinations,
         HasCombinations, Offer, SendNext, Finish, Ended
<1>3. UNCHANGED <<level, default>>
  <2>1. CASE ReadInputs
    BY <2>1, EmitKeepsLevel DEF ReadInputs, EmitDiagnostic, sink
  <2>2. CASE Unsatisfiable \/ NoCombinations
    BY <2>2, EmitKeepsLevel DEF Unsatisfiable, NoCombinations, EmitDiagnostic, sink
  <2>3. CASE Offer
    BY <2>3, EmitKeepsLevel DEF Offer, sink
  <2>4. CASE SendNext
    BY <2>4, SendKeepsLevel DEF SendNext
  <2>5. CASE Connect \/ Evaluate \/ HasCombinations \/ Finish \/ Ended \/ UNCHANGED vars
    BY <2>5 DEF Connect, Evaluate, HasCombinations, Finish, Ended, vars, sink
  <2> QED
    BY <2>1, <2>2, <2>3, <2>4, <2>5 DEF Next
<1> QED
  BY <1>1, <1>2, <1>3 DEF Fixed

LEMMA BroughtStays == Brought /\ [Next]_vars => Brought'
BY StepKeepsBrought DEF Brought, Fixed

-----------------------------------------------------------------------------
(* The members of a combination are credentials of the wallet that the query *)
(* they answer accepts.                                                      *)
Chosen ==
  {m \in [query : QueryId, candidate : Candidate] :
     \E i \in Queries : request.credentials[i].id = m.query /\ Accepted(m.candidate, i)}

MembersOf(answer) ==
  [n \in DOMAIN answer.picked |-> [query |-> answer.id, candidate |-> answer.picked[n]]]

LEMMA MembersOfAre ==
  ASSUME NEW answer \in Answer, NEW i \in Queries, Honours(answer, i)
  PROVE  /\ MembersOf(answer) \in Seq(Chosen)
         /\ 1 \in 1..Len(MembersOf(answer)) /\ MembersOf(answer)[1].query = answer.id
<1>1. answer.picked \in Seq(Candidate) /\ answer.id \in QueryId
  BY DEF Answer
<1>2. /\ DOMAIN answer.picked = 1..Len(answer.picked) /\ Len(answer.picked) \in Nat
      /\ 1 \in 1..Len(answer.picked)
  BY <1>1 DEF Honours
<1>3. ASSUME NEW n \in DOMAIN answer.picked
      PROVE  [query |-> answer.id, candidate |-> answer.picked[n]] \in Chosen
  <2>1. answer.picked[n] \in Candidate
    BY <1>1
  <2>2. Accepted(answer.picked[n], i) /\ request.credentials[i].id = answer.id
    BY DEF Honours, Accepted
  <2> DEFINE m == [query |-> answer.id, candidate |-> answer.picked[n]]
  <2>3. m \in [query : QueryId, candidate : Candidate] /\ m.query = answer.id /\ m.candidate = answer.picked[n]
    BY <1>1, <2>1
  <2> HIDE DEF m
  <2>4. m \in Chosen
    BY <2>2, <2>3 DEF Chosen
  <2> QED
    BY <2>4 DEF m
<1>4. MembersOf(answer) \in [1..Len(answer.picked) -> Chosen]
  BY <1>2, <1>3 DEF MembersOf
<1>5. MembersOf(answer) \in Seq(Chosen) /\ Len(MembersOf(answer)) = Len(answer.picked)
  BY <1>2, <1>4, FunctionIsSequence
<1> QED
  BY <1>2, <1>5 DEF MembersOf

LEMMA MembersAre ==
  ASSUME NEW combination \in Combination, Honoured(combination)
  PROVE  /\ Members(combination) \in Seq(Chosen)
         /\ \A k \in DOMAIN combination.answers : \E n \in DOMAIN Members(combination) :
              Members(combination)[n].query = combination.answers[k].id
<1> DEFINE answers == combination.answers
           parts == [k \in DOMAIN answers |-> MembersOf(answers[k])]
           L == Len(answers)
<1>1. L \in Nat /\ DOMAIN answers = 1..L /\ \A k \in 1..L : answers[k] \in Answer
  BY DEF Combination
<1>2. Members(combination) = FlattenSeq(parts)
  BY DEF Members, MembersOf
<1>3. ASSUME NEW k \in 1..L
      PROVE  /\ MembersOf(answers[k]) \in Seq(Chosen)
             /\ 1 \in 1..Len(MembersOf(answers[k])) /\ MembersOf(answers[k])[1].query = answers[k].id
  <2>1. PICK i \in Queries : Honours(answers[k], i)
    BY <1>1 DEF Honoured
  <2>2. answers[k] \in Answer
    BY <1>1
  <2> HIDE DEF answers
  <2> QED
    BY <2>1, <2>2, MembersOfAre
<1>4. parts \in [1..L -> Seq(Chosen)] /\ \A k \in 1..L : parts[k] = MembersOf(answers[k])
  BY <1>1, <1>3
<1> HIDE DEF parts, answers, L
<1>5. FlattenSeq(parts) \in Seq(Chosen)
  BY <1>1, <1>4, FlattenStep
<1>6. ASSUME NEW k \in 1..L
      PROVE  \E n \in DOMAIN FlattenSeq(parts) : FlattenSeq(parts)[n].query = answers[k].id
  <2> DEFINE at == Len(FlattenSeq(SeqsUpTo(parts, k - 1)))
  <2>1. Maps(parts, 1..L, Seq(Chosen))
    BY <1>4 DEF Maps
  <2>2. Lies(Chosen, parts[k], at, FlattenSeq(parts))
    BY <1>1, <2>1, FlattenPart
  <2> HIDE DEF at
  <2>3. /\ at \in Nat /\ at + Len(parts[k]) <= Len(FlattenSeq(parts))
        /\ \A n \in 1..Len(parts[k]) : FlattenSeq(parts)[at + n] = parts[k][n]
    BY <2>2 DEF Lies
  <2>4. parts[k] \in Seq(Chosen) /\ 1 \in 1..Len(parts[k]) /\ parts[k][1].query = answers[k].id
    BY <1>3, <1>4
  <2>5. at + 1 \in DOMAIN FlattenSeq(parts)
    BY <1>5, <2>3, <2>4
  <2>6. FlattenSeq(parts)[at + 1] = parts[k][1]
    BY <2>3, <2>4
  <2> QED
    BY <2>4, <2>5, <2>6
<1> QED
  BY <1>1, <1>2, <1>5, <1>6 DEF answers

-----------------------------------------------------------------------------
(* Looking a credential up by its id. *)
LEMMA StoredIs ==
  ASSUME TypeOK, NEW id, IsStored(id)
  PROVE  \E w \in DOMAIN wallet : Stored(id) = wallet[w] /\ wallet[w].id = id
<1> DEFINE Named == {w \in DOMAIN wallet : wallet[w].id = id}
<1>1. DOMAIN wallet = 1..Len(wallet) /\ Len(wallet) \in Nat
  BY DEF TypeOK
<1>2. Named # {}
  BY DEF IsStored
<1>3. \E w \in Named : \A v \in 1..(w - 1) : v \notin Named
  BY <1>1, <1>2, FirstPosition
<1>4. \E w \in DOMAIN wallet : wallet[w].id = id /\ \A v \in 1..(w - 1) : wallet[v].id # id
  BY <1>1, <1>3
<1> QED
  BY <1>4 DEF Stored

LEMMA ChosenIsStored ==
  ASSUME TypeOK, NEW m \in Chosen
  PROVE  /\ m.query \in QueryId /\ m.candidate \in Candidate
         /\ HasQuery(m.query) /\ IsStored(m.candidate.credential_id)
<1>1. PICK i \in Queries : request.credentials[i].id = m.query /\ Accepted(m.candidate, i)
  BY DEF Chosen
<1>2. \E w \in DOMAIN wallet : m.candidate = CandidateOf(request.credentials[i], wallet[w])
  BY <1>1 DEF Accepted
<1>3. \E w \in DOMAIN wallet : wallet[w].id = m.candidate.credential_id
  BY <1>2 DEF CandidateOf
<1>4. m.query \in QueryId /\ m.candidate \in Candidate
  BY DEF Chosen
<1> QED
  BY <1>1, <1>3, <1>4 DEF HasQuery, IsStored

-----------------------------------------------------------------------------
(* What the picker is handed for one member. *)
LEMMA FieldsAre ==
  ASSUME TypeOK, Brought, NEW m \in Chosen
  PROVE  LET plan == PlanRows(request.credentials[QueryOf(m.query)])
             claims == m.candidate.claims
         IN /\ Fields(m) \in Seq(Field)
            /\ plan # None => Fields(m) = plan
            /\ plan = None => \A k \in DOMAIN Fields(m) : \E n \in DOMAIN claims :
                 Fields(m)[k] = Row(Stored(m.candidate.credential_id), claims[n].path)
<1> DEFINE plan == PlanRows(request.credentials[QueryOf(m.query)])
           claims == m.candidate.claims
           credential == Stored(m.candidate.credential_id)
           rows == [k \in DOMAIN claims |-> Row(credential, claims[k].path)]
           S == {k \in DOMAIN rows : rows[k] # None}
<1>1. /\ QueryOf(m.query) \in Queries /\ m.candidate \in Candidate
      /\ \E w \in DOMAIN wallet : credential = wallet[w]
  BY ChosenIsStored, QueryOfId, StoredIs
<1>2. plan \in {None} \cup Seq(Field)
  BY <1>1, ValuesAreThePickers DEF Brought, Queries
<1>3. claims \in Seq(ClaimsQuery)
  BY <1>1 DEF Candidate
<1>4. \A path \in Path : Row(credential, path) \in {None} \cup Field
  BY <1>1, ValuesAreThePickers DEF Brought
<1> HIDE DEF claims, credential, plan
<1>5. rows \in [1..Len(claims) -> {None} \cup Field] /\ Len(claims) \in Nat /\ DOMAIN claims = 1..Len(claims)
  <2>1. Len(claims) \in Nat /\ DOMAIN claims = 1..Len(claims) /\ \A k \in 1..Len(claims) : claims[k] \in ClaimsQuery
    BY <1>3
  <2>2. \A claim \in ClaimsQuery : claim.path \in Path
    BY DEF ClaimsQuery
  <2>3. \A k \in 1..Len(claims) : Row(credential, claims[k].path) \in {None} \cup Field
    BY <1>4, <2>1, <2>2
  <2> QED
    BY <2>1, <2>3
<1>6. rows \in Seq({None} \cup Field) /\ DOMAIN rows = 1..Len(claims)
  BY <1>5, FunctionIsSequence
<1>7. \A k \in 1..Len(claims) : rows[k] = Row(credential, claims[k].path)
  BY <1>5
<1>8. \A k \in S : rows[k] # None
  OBVIOUS
<1> HIDE DEF rows, S
<1>9. /\ Picked(rows, S) \in Seq({None} \cup Field)
      /\ \A k \in DOMAIN Picked(rows, S) : \E i \in DOMAIN rows : i \in S /\ Picked(rows, S)[k] = rows[i]
  <2> DEFINE Rows == {None} \cup Field
  <2>1. rows \in Seq(Rows)
    BY <1>6
  <2> HIDE DEF Rows
  <2>2. Picked(rows, S) \in Seq(Rows)
    BY <2>1, PickedAre
  <2>3. \A k \in DOMAIN Picked(rows, S) : \E i \in DOMAIN rows : i \in S /\ Picked(rows, S)[k] = rows[i]
    BY <2>1, PickedAre
  <2> QED
    BY <2>2, <2>3 DEF Rows
<1>10. DisclosedFields(m) = Picked(rows, S)
  BY DEF DisclosedFields, rows, S, claims, credential
<1>11. Fields(m) = IF plan # None THEN plan ELSE Picked(rows, S)
  BY <1>10 DEF Fields, plan
<1>12. Picked(rows, S) \in Seq(Field)
  <2> DEFINE f == Picked(rows, S)
  <2>1. \A k \in DOMAIN f : f[k] \in Field
    BY <1>5, <1>6, <1>8, <1>9
  <2>2. f \in Seq({None} \cup Field)
    BY <1>9
  <2> HIDE DEF f
  <2>3. f \in Seq(Field)
    BY <2>1, <2>2
  <2> QED
    BY <2>3 DEF f
<1>13. \A k \in DOMAIN Picked(rows, S) : \E n \in DOMAIN claims :
         Picked(rows, S)[k] = Row(credential, claims[n].path)
  BY <1>5, <1>6, <1>7, <1>9
<1> QED
  BY <1>2, <1>11, <1>12, <1>13 DEF plan, claims, credential

SlotOf(m) ==
  Member(Stored(m.candidate.credential_id).id, IconOf(Stored(m.candidate.credential_id)), DataOf(m), Fields(m))

(* The one entry of a member. *)
Alone(slot1) == /\ slot1 \in Seq(SetEntry) /\ Len(slot1) = 1 /\ slot1[1] \in SetEntry
                /\ slot1[1].icon # None /\ ~slot1[1].info

Shows(slot1, id, data, fields) ==
  slot1[1].id = id /\ slot1[1].data = data /\ slot1[1].fields = fields

LEMMA MemberIs ==
  ASSUME NEW id \in CredId, NEW icon \in Icon, NEW data \in {None} \cup Data, NEW fields \in Seq(Field)
  PROVE  /\ Alone(Member(id, icon, data, fields))
         /\ Shows(Member(id, icon, data, fields), id, data, fields)
<1> DEFINE e == [id |-> id, kind |-> "verification", icon |-> icon, info |-> FALSE, data |-> data,
                 delegation |-> None, link |-> FALSE, text |-> FALSE, fields |-> fields]
<1>1. e \in SetEntry
  BY DEF SetEntry
<1>2. e.icon = icon /\ icon # None /\ e.info = FALSE /\ e.id = id /\ e.data = data /\ e.fields = fields
  BY ValuesAreThePickers
<1>3. Member(id, icon, data, fields) = << e >>
  BY DEF Member
<1> HIDE DEF e
<1>4. << e >> \in Seq(SetEntry) /\ Len(<< e >>) = 1 /\ << e >>[1] = e
  BY <1>1
<1> QED
  BY <1>1, <1>2, <1>3, <1>4 DEF Alone, Shows

LEMMA SlotIs ==
  ASSUME TypeOK, Brought, NEW m \in Chosen
  PROVE  /\ Alone(SlotOf(m)) /\ SlotOf(m) \in Seq(SetEntry) /\ Len(SlotOf(m)) = 1
         /\ SlotOf(m)[1].id = m.candidate.credential_id
         /\ SlotOf(m)[1].icon # None /\ ~SlotOf(m)[1].info
         /\ SlotOf(m)[1].data # None /\ SlotOf(m)[1].data.query_id = m.query
         /\ SlotOf(m)[1].fields = Fields(m)
<1> DEFINE id == m.candidate.credential_id
           credential == Stored(id)
<1>1. /\ m.query \in QueryId /\ m.candidate \in Candidate
      /\ \E w \in DOMAIN wallet : credential = wallet[w] /\ wallet[w].id = id
  BY ChosenIsStored, StoredIs
<1>2. id \in CredentialId /\ credential.id = id
  BY <1>1 DEF Candidate
<1>3. credential.id \in CredId
  BY <1>2, ValuesAreThePickers
<1>4. IconOf(credential) \in Icon
  <2>1. IconBytes(credential) \in {None} \cup Icon
    BY <1>1, ValuesAreThePickers DEF Brought
  <2> QED
    BY <2>1, ValuesAreThePickers DEF IconOf
<1>5. DataOf(m) \in Data /\ DataOf(m).query_id = m.query /\ DataOf(m) # None
  <2>1. DataOf(m) = [query_id |-> m.query, credential_id |-> credential.id,
                     combinations_dropped |-> dropped.count, is_exact |-> dropped.exact]
    BY DEF DataOf
  <2>2. dropped.count \in 0..MaxUsize /\ dropped.exact \in BOOLEAN
    BY DEF TypeOK, Dropped
  <2>3. DataOf(m) \in [query_id : QueryId, credential_id : CredentialId,
                       combinations_dropped : 0..MaxUsize, is_exact : BOOLEAN]
    BY <1>1, <1>2, <2>1, <2>2
  <2>4. DataOf(m) \in Data /\ None \notin Data
    BY <2>3, ValuesAreThePickers
  <2> QED
    BY <2>1, <2>4
<1>6. Fields(m) \in Seq(Field)
  BY FieldsAre
<1>7. SlotOf(m) = Member(credential.id, IconOf(credential), DataOf(m), Fields(m))
  BY DEF SlotOf
<1> HIDE DEF credential
<1>8. DataOf(m) \in {None} \cup Data
  BY <1>5
<1>9. /\ Alone(SlotOf(m)) /\ SlotOf(m)[1].id = credential.id /\ SlotOf(m)[1].data = DataOf(m)
      /\ SlotOf(m)[1].fields = Fields(m)
  <2> SUFFICES ASSUME NEW x, NEW icon, NEW data, NEW fields, x = credential.id, icon = IconOf(credential),
                      data = DataOf(m), fields = Fields(m)
               PROVE  /\ Alone(SlotOf(m)) /\ SlotOf(m)[1].id = x /\ SlotOf(m)[1].data = data
                      /\ SlotOf(m)[1].fields = fields
    OBVIOUS
  <2>1. x \in CredId /\ icon \in Icon /\ data \in {None} \cup Data /\ fields \in Seq(Field)
    BY <1>3, <1>4, <1>6, <1>8
  <2>2. SlotOf(m) = Member(x, icon, data, fields)
    BY <1>7
  <2>3. Alone(Member(x, icon, data, fields))
    BY <2>1, MemberIs
  <2>4. Shows(Member(x, icon, data, fields), x, data, fields)
    BY <2>1, MemberIs
  <2> QED
    BY <2>2, <2>3, <2>4 DEF Shows
<1> QED
  BY <1>2, <1>5, <1>9 DEF Alone

LEMMA OneEachIsWellFormed ==
  ASSUME NEW id \in SetId, NEW slots \in Seq(Seq(SetEntry)), slots # << >>,
         \A i \in DOMAIN slots : Len(slots[i]) = 1 /\ ~slots[i][1].info
  PROVE  [id |-> id, slots |-> slots] \in WellFormedSet
<1> DEFINE s == [id |-> id, slots |-> slots]
<1>1. s \in [id : SetId, slots : Seq(Seq(SetEntry))] /\ s.slots = slots
  OBVIOUS
<1>2. ASSUME NEW i \in DOMAIN slots
      PROVE  /\ slots[i] # << >> /\ DOMAIN slots[i] = {1}
             /\ slots[i][1].info => slots[i][1].kind = "payment"
  <2>1. slots[i] \in Seq(SetEntry) /\ Len(slots[i]) = 1
    OBVIOUS
  <2> QED
    BY <2>1
<1> HIDE DEF s
<1>3. /\ s.slots # << >>
      /\ \A i \in DOMAIN s.slots :
           /\ s.slots[i] # << >>
           /\ \A a \in DOMAIN s.slots[i] :
                /\ s.slots[i][a].info => s.slots[i][a].kind = "payment"
                /\ \A b \in DOMAIN s.slots[i] : s.slots[i][a].id = s.slots[i][b].id => a = b
  BY <1>1, <1>2
<1>4. s \in WellFormedSet
  BY <1>1, <1>3 DEF WellFormedSet
<1> QED
  BY <1>4 DEF s

LEMMA SlotsAre ==
  ASSUME TypeOK, Brought, NEW combination, Members(combination) \in Seq(Chosen)
  PROVE  /\ Slots(combination) \in Seq(Seq(SetEntry))
         /\ Len(Slots(combination)) = Len(Members(combination))
         /\ DOMAIN Slots(combination) = DOMAIN Members(combination)
         /\ \A n \in DOMAIN Members(combination) :
              Slots(combination)[n] = SlotOf(Members(combination)[n])
<1> DEFINE members == Members(combination)
<1>1. /\ Len(members) \in Nat /\ DOMAIN members = 1..Len(members)
      /\ \A n \in 1..Len(members) : members[n] \in Chosen
  OBVIOUS
<1>2. Slots(combination) = [n \in DOMAIN members |-> SlotOf(members[n])]
  BY DEF Slots, SlotOf
<1> HIDE DEF members
<1>3. \A n \in 1..Len(members) : SlotOf(members[n]) \in Seq(SetEntry)
  BY <1>1, SlotIs
<1>4. Slots(combination) \in [1..Len(members) -> Seq(SetEntry)]
  BY <1>1, <1>2, <1>3
<1>5. Slots(combination) \in Seq(Seq(SetEntry)) /\ Len(Slots(combination)) = Len(members)
  BY <1>1, <1>4, FunctionIsSequence
<1> QED
  BY <1>1, <1>2, <1>5 DEF members

-----------------------------------------------------------------------------
(* What the loop over the combinations sends. *)
BuiltSet(n) == [id |-> SirosSetId(n - 1), slots |-> Slots(out[n])]

BuiltSets == [n \in DOMAIN out |-> BuiltSet(n)]

Offering == {n \in DOMAIN out : Members(out[n]) # << >>}

LEMMA OutIsHonoured ==
  ASSUME EngineInv, Brought
  PROVE  /\ TypeOK /\ Len(out) \in Nat /\ DOMAIN out = 1..Len(out) /\ out \in Seq(Combination)
         /\ pc = "done" => Len(out) <= MaxCombinations
         /\ \A n \in DOMAIN out : /\ out[n] \in Combination /\ Honoured(out[n])
                                  /\ Members(out[n]) \in Seq(Chosen)
<1>1. TypeOK /\ LInv /\ AInv
  BY DEF EngineInv, TInv
<1>2. out \in Seq(Combination)
  BY <1>1 DEF TypeOK
<1>3. \A n \in DOMAIN out : out[n] \in Combination /\ Honoured(out[n])
  BY <1>1, <1>2 DEF AInv
<1>4. \A n \in DOMAIN out : Members(out[n]) \in Seq(Chosen)
  BY <1>3, MembersAre
<1> QED
  BY <1>1, <1>2, <1>3, <1>4 DEF LInv, Brought

LEMMA BuiltIsWellFormed ==
  ASSUME EngineInv, Brought, pc = "done", NEW n \in Offering
  PROVE  BuiltSet(n) \in WellFormedSet
<1>1. /\ TypeOK /\ n \in 1..Len(out) /\ Len(out) <= MaxCombinations /\ Len(out) \in Nat
      /\ Members(out[n]) \in Seq(Chosen) /\ Members(out[n]) # << >>
  BY OutIsHonoured DEF Offering
<1>2. SirosSetId(n - 1) \in SetId
  <2>1. n - 1 \in 0..MaxCombinations
    BY <1>1, TheLimit
  <2> QED
    BY <2>1, ValuesAreThePickers
<1> DEFINE slots == Slots(out[n])
<1>3. /\ slots \in Seq(Seq(SetEntry)) /\ Len(slots) = Len(Members(out[n]))
      /\ DOMAIN slots = DOMAIN Members(out[n])
      /\ \A k \in DOMAIN slots : slots[k] = SlotOf(Members(out[n])[k])
  BY <1>1, SlotsAre
<1>4. \A k \in DOMAIN slots : Members(out[n])[k] \in Chosen
  BY <1>1, <1>3
<1> HIDE DEF slots
<1>5. \A k \in DOMAIN slots : Len(slots[k]) = 1 /\ ~slots[k][1].info
  BY <1>1, <1>3, <1>4, SlotIs
<1>6. slots # << >>
  BY <1>1, <1>3
<1>7. [id |-> SirosSetId(n - 1), slots |-> slots] \in WellFormedSet
  BY <1>2, <1>3, <1>5, <1>6, OneEachIsWellFormed
<1> QED
  BY <1>7 DEF BuiltSet, slots

DiagnosticSet(kind) ==
  [id |-> DebugSetId(kind), slots |-> << Member("siros-debug-entry", Fallback, None, << >>) >>]

Kinds == {"request", "unsatisfiable", "zero"}

LEMMA DiagnosticIsWellFormed ==
  ASSUME NEW kind \in Kinds
  PROVE  DiagnosticSet(kind) \in WellFormedSet
<1> DEFINE slot1 == Member("siros-debug-entry", Fallback, None, << >>)
<1>1. /\ DebugSetId(kind) \in SetId /\ "siros-debug-entry" \in CredId /\ Fallback \in Icon
  BY ValuesAreThePickers DEF Kinds
<1>2. << >> \in Seq(Field) /\ None \in {None} \cup Data
  OBVIOUS
<1>3. Alone(slot1)
  BY <1>1, <1>2, MemberIs
<1>4. slot1 \in Seq(SetEntry) /\ Len(slot1) = 1 /\ ~slot1[1].info
  BY <1>3 DEF Alone
<1> HIDE DEF slot1
<1>5. /\ << slot1 >> \in Seq(Seq(SetEntry)) /\ << slot1 >> # << >>
      /\ \A i \in DOMAIN << slot1 >> : Len(<< slot1 >>[i]) = 1 /\ ~<< slot1 >>[i][1].info
  BY <1>3, <1>4
<1>6. [id |-> DebugSetId(kind), slots |-> << slot1 >>] \in WellFormedSet
  BY <1>1, <1>5, OneEachIsWellFormed
<1> QED
  BY <1>6 DEF DiagnosticSet, slot1

-----------------------------------------------------------------------------
(* What the run has sent so far, and what it says of the inputs: the         *)
(* inductive invariant of MatcherRun.                                        *)
Whole == pc = "done" /\ satisfiable /\ out # << >>

Fresh == Idle /\ sent = << >> /\ host = FreshHost

Phases == phase \in {"connect", "read", "evaluate", "offer", "over"}

Starts ==
  phase \in {"connect", "read", "evaluate"} =>
    /\ Fresh /\ index = 1
    /\ phase # "evaluate" => pc = "evaluate"
    /\ phase # "connect" => level >= 2
    /\ phase = "evaluate" => Promise!Reached /\ invocation.understood

Offers ==
  phase = "offer" =>
    /\ Whole /\ Promise!Reached /\ invocation.understood /\ ~host.trapped
    /\ index \in 1..(Len(out) + 1)
    /\ sent = PickedOf(BuiltSets, Offering)[index - 1]

NothingSent ==
  /\ sent = << >> /\ Idle /\ host.sets = << >> /\ ~Whole
  /\ Promise!Reached /\ invocation.understood => pc = "done"
  /\ Promise!Reached /\ ~invocation.understood => ~invocation.debug

DiagnosticSent ==
  /\ Promise!Reached /\ invocation.debug /\ ~host.trapped /\ ~Whole
  /\ invocation.understood => pc = "done"
  /\ \E kind \in Kinds : sent = << DiagnosticSet(kind) >>

AllSent ==
  /\ Whole /\ Promise!Reached /\ invocation.understood /\ Idle /\ ~host.trapped
  /\ sent = Picked(BuiltSets, Offering)

Outcome == phase = "over" => NothingSent \/ DiagnosticSent \/ AllSent

SinkGood == level >= 2 /\ ~host.trapped => SinkInv /\ DeliveredSoFar

RunInv == Brought /\ Phases /\ Starts /\ Offers /\ Outcome /\ SinkGood

-----------------------------------------------------------------------------
(* What the run builds of the combinations depends on the engine alone. *)
LEMMA BuiltStays ==
  ASSUME UNCHANGED engine
  PROVE  /\ BuiltSets' = BuiltSets /\ Offering' = Offering /\ (Whole' <=> Whole)
         /\ \A n : BuiltSet(n)' = BuiltSet(n)
<1>1. /\ request' = request /\ wallet' = wallet /\ out' = out /\ dropped' = dropped
      /\ pc' = pc /\ satisfiable' = satisfiable
  BY EngineStays
<1>2. \A id : Stored(id)' = Stored(id)
  BY <1>1 DEF Stored
<1>3. \A id : QueryOf(id)' = QueryOf(id)
  BY <1>1 DEF QueryOf, Queries
<1>4. \A m : Fields(m)' = Fields(m)
  BY <1>1, <1>2, <1>3 DEF Fields, DisclosedFields
<1>5. \A m : DataOf(m)' = DataOf(m)
  BY <1>1, <1>2 DEF DataOf
<1>6. \A c1 : Slots(c1)' = Slots(c1)
  <2> SUFFICES ASSUME NEW c1 PROVE Slots(c1)' = Slots(c1)
    OBVIOUS
  <2>1. \A m : SlotOf(m)' = SlotOf(m)
    <3> SUFFICES ASSUME NEW m PROVE SlotOf(m)' = SlotOf(m)
      OBVIOUS
    <3>1. IconOf(Stored(m.candidate.credential_id))' = IconOf(Stored(m.candidate.credential_id))
      BY <1>2 DEF IconOf
    <3> QED
      BY Zenon, <1>2, <1>4, <1>5, <3>1 DEF SlotOf, Member
  <2>2. Members(c1)' = Members(c1)
    BY DEF Members
  <2>3. Slots(c1) = [n \in DOMAIN Members(c1) |-> SlotOf(Members(c1)[n])]
    BY DEF Slots, SlotOf
  <2> QED
    BY <2>1, <2>2, <2>3 DEF Slots, SlotOf
<1>7. \A n : BuiltSet(n)' = BuiltSet(n)
  BY <1>1, <1>6 DEF BuiltSet, SirosSetId
<1>8. BuiltSets' = BuiltSets
  BY <1>1, <1>7 DEF BuiltSets
<1>9. Offering' = Offering
  BY <1>1 DEF Offering, Members
<1> QED
  BY <1>1, <1>7, <1>8, <1>9 DEF Whole

Built == {BuiltSet(n) : n \in DOMAIN out}

LEMMA BuiltSetsAre ==
  ASSUME EngineInv, Brought
  PROVE  /\ BuiltSets \in Seq(Built) /\ Len(BuiltSets) = Len(out) /\ DOMAIN BuiltSets = 1..Len(out)
         /\ Len(out) \in Nat /\ DOMAIN out = 1..Len(out)
         /\ \A n \in 1..Len(out) : BuiltSets[n] = BuiltSet(n)
<1>1. Len(out) \in Nat /\ DOMAIN out = 1..Len(out)
  BY OutIsHonoured
<1>2. BuiltSets \in [1..Len(out) -> Built]
  BY <1>1 DEF BuiltSets, Built
<1>3. BuiltSets \in Seq(Built) /\ Len(BuiltSets) = Len(out)
  BY <1>1, <1>2, FunctionIsSequence
<1> QED
  BY <1>1, <1>3 DEF BuiltSets

(* The ids of the sets of different combinations differ. *)
LEMMA BuiltIdsDiffer ==
  ASSUME EngineInv, Brought, pc = "done", NEW m \in DOMAIN out, NEW n \in DOMAIN out,
         BuiltSet(m).id = BuiltSet(n).id
  PROVE  m = n
<1>1. Len(out) \in Nat /\ DOMAIN out = 1..Len(out) /\ Len(out) <= MaxCombinations /\ MaxCombinations \in Nat
  BY OutIsHonoured, TheLimit
<1>2. m - 1 \in 0..MaxCombinations /\ n - 1 \in 0..MaxCombinations /\ m \in Nat /\ n \in Nat
  BY <1>1
<1>3. SirosSetId(m - 1) = SirosSetId(n - 1)
  BY DEF BuiltSet
<1>4. m - 1 = n - 1
  BY <1>2, <1>3, NumbersTellSetsApart
<1> QED
  BY <1>2, <1>4

-----------------------------------------------------------------------------
(* How the sink goes on. *)
LEMMA SinkGoodStays ==
  ASSUME SinkGood, level' = level, (Declaring /\ ~host.trapped) \/ Send \/ UNCHANGED sink
  PROVE  SinkGood'
<1> SUFFICES ASSUME level >= 2, ~host'.trapped PROVE (SinkInv /\ DeliveredSoFar)'
  BY DEF SinkGood
<1>1. ~host.trapped
  <2>1. CASE Send
    BY <2>1 DEF Send, AddEntry, SendDelegation, SendLink, SendField, SendText, Sending
  <2>2. CASE UNCHANGED sink
    BY <2>2, SinkStays
  <2> QED
    BY <2>1, <2>2
<1>2. SinkInv /\ DeliveredSoFar
  BY <1>1 DEF SinkGood
<1>3. [SinkNext]_sink
  BY DEF SinkNext
<1> QED
  BY <1>2, <1>3, SinkInductive, DeliveringGoesOn

LEMMA NothingDeclared ==
  ASSUME Fresh
  PROVE  ~host.trapped /\ host.sets = << >> /\ \A id : ~Declared(id)
BY DEF Fresh, FreshHost, Declared

LEMMA DiagnosticGoesOut ==
  ASSUME Fresh, NEW kind \in Kinds, EmitDiagnostic(kind)
  PROVE  /\ invocation.debug => /\ Declaring /\ sent' = << DiagnosticSet(kind) >>
                                /\ ~host'.trapped
         /\ ~invocation.debug => UNCHANGED sink
<1>1. CASE ~invocation.debug
  BY <1>1 DEF EmitDiagnostic
<1>2. CASE invocation.debug
  <2>1. << Member("siros-debug-entry", Fallback, None, << >>) >> # << >>
    OBVIOUS
  <2>2. AddSet(DiagnosticSet(kind))
    BY <1>2, <2>1 DEF EmitDiagnostic, EmitSet, DiagnosticSet
  <2>3. DiagnosticSet(kind) \in WellFormedSet
    BY DiagnosticIsWellFormed
  <2>4. Declaring
    BY <2>2, <2>3, NothingDeclared DEF Declaring
  <2>5. sent' = << DiagnosticSet(kind) >>
    <3> HIDE DEF DiagnosticSet
    <3> QED
      BY <2>2 DEF AddSet, Fresh
  <2>6. ~host'.trapped
    BY <2>2 DEF AddSet, Fresh, FreshHost, AddEntrySet
  <2> QED
    BY <1>2, <2>4, <2>5, <2>6
<1> QED
  BY <1>1, <1>2

LEMMA DiagnosticsStay == \A kind : DiagnosticSet(kind)' = DiagnosticSet(kind)
BY DEF DiagnosticSet, DebugSetId, Member

(* A run that ends in a diagnostic, if the wallet asked for them. *)
LEMMA DiagnosticEnds ==
  ASSUME Fresh, SinkGood, UNCHANGED <<engine, invocation, level>>, ~Whole, Promise!Reached,
         invocation.understood => pc = "done", phase' = "over",
         NEW kind \in Kinds, EmitDiagnostic(kind)
  PROVE  SinkGood' /\ Outcome'
<1>1. /\ invocation.debug => /\ Declaring /\ sent' = << DiagnosticSet(kind) >> /\ ~host'.trapped
      /\ ~invocation.debug => UNCHANGED sink
  BY DiagnosticGoesOut
<1>2. ~host.trapped /\ host.sets = << >>
  BY NothingDeclared
<1>3. SinkGood'
  BY <1>1, <1>2, SinkGoodStays
<1>4. Promise!Reached' /\ ~Whole' /\ pc' = pc
  BY BuiltStays, EngineStays DEF Promise!Reached
<1>5. CASE invocation.debug
  <2>1. \E k \in Kinds : sent' = << DiagnosticSet(k)' >>
    BY <1>1, <1>5, DiagnosticsStay
  <2>2. DiagnosticSent'
    BY <1>1, <1>4, <1>5, <2>1 DEF DiagnosticSent, Kinds
  <2> QED
    BY <1>3, <2>2 DEF Outcome
<1>6. CASE ~invocation.debug
  <2>1. sent' = << >> /\ set' = None /\ host' = host
    BY <1>1, <1>6, SinkStays DEF Fresh, Idle
  <2>2. NothingSent'
    BY <1>2, <1>4, <1>6, <2>1 DEF NothingSent, Idle
  <2> QED
    BY <1>3, <2>2 DEF Outcome
<1> QED
  BY <1>5, <1>6

LEMMA RunBegins == Init => EngineInv /\ RunInv
<1> SUFFICES ASSUME Init PROVE EngineInv /\ RunInv
  OBVIOUS
<1>1. EngineInit /\ EngineInv
  BY EngineBegins DEF Init
<1>2. /\ invocation \in Invocations /\ InitSink(invocation.level, None) /\ phase = "connect" /\ index = 1
  BY DEF Init
<1>3. Brought
  BY <1>1, <1>2, TheLimit DEF EngineInit, Brought, InitSink
<1>4. Fresh
  BY <1>2 DEF InitSink, Fresh, Idle
<1>5. Phases /\ Starts /\ Offers /\ Outcome
  BY <1>1, <1>2, <1>4 DEF EngineInit, Phases, Starts, Offers, Outcome
<1>6. SinkGood
  <2> SUFFICES ASSUME level >= 2 PROVE SinkInv /\ DeliveredSoFar
    BY DEF SinkGood
  <2>1. invocation.level \in Nat /\ invocation.level = level
    BY <1>2, InvocationsAreWellFormed DEF Invocation, InitSink
  <2>2. SinkInit
    BY <1>2, <2>1 DEF SinkInit
  <2> QED
    BY <2>2, SinkInitially, NothingDeliveredYet
<1> QED
  BY <1>1, <1>3, <1>5, <1>6 DEF RunInv

(* The steps before the first set is sent. *)
LEMMA ConnectStep ==
  ASSUME RunInv, Connect
  PROVE  Phases' /\ Starts' /\ Offers' /\ Outcome' /\ SinkGood'
<1>1. /\ phase = "connect" /\ phase' = IF HasEntrySets THEN "read" ELSE "over"
      /\ UNCHANGED sink /\ UNCHANGED engine /\ invocation' = invocation /\ index' = index
  BY DEF Connect
<1>2. /\ Fresh /\ index = 1 /\ pc = "evaluate" /\ Brought /\ SinkGood
  BY <1>1 DEF RunInv, Starts
<1>3. UNCHANGED <<level, default, set, slot, alt, part, field, host, sent>> /\ pc' = pc
  BY <1>1, SinkStays, EngineStays
<1>4. Fresh' /\ SinkGood'
  <2>1. Fresh'
    BY <1>2, <1>3 DEF Fresh, Idle, FreshHost
  <2> QED
    BY <1>1, <1>2, <1>3, <2>1, SinkGoodStays
<1>5. CASE HasEntrySets
  BY <1>1, <1>2, <1>3, <1>4, <1>5 DEF Phases, Starts, Offers, Outcome, HasEntrySets
<1>6. CASE ~HasEntrySets
  <2>1. ~Promise!Reached'
    BY <1>1, <1>2, <1>6 DEF HasEntrySets, Promise!Reached, Brought
  <2>2. NothingSent'
    BY <1>2, <1>3, <1>4, <2>1 DEF NothingSent, Fresh, FreshHost, Whole
  <2> QED
    BY <1>1, <1>4, <1>6, <2>2 DEF Phases, Starts, Offers, Outcome
<1> QED
  BY <1>5, <1>6

LEMMA ReadStep ==
  ASSUME RunInv, ReadInputs
  PROVE  Phases' /\ Starts' /\ Offers' /\ Outcome' /\ SinkGood'
<1>1. /\ phase = "read" /\ UNCHANGED engine /\ invocation' = invocation /\ index' = index
  BY DEF ReadInputs
<1>2. /\ Fresh /\ index = 1 /\ pc = "evaluate" /\ level >= 2 /\ Brought /\ SinkGood
      /\ level = invocation.level
  BY <1>1 DEF RunInv, Starts, Brought
<1>3. pc' = pc /\ ~Whole /\ ~Whole'
  BY <1>1, <1>2, EngineStays DEF Whole
<1>4. CASE ~invocation.sound
  <2>1. host' = Trap(host) /\ phase' = "over" /\ UNCHANGED <<level, default, sending, sent>>
    BY <1>4 DEF ReadInputs
  <2>2. host'.trapped /\ host'.sets = << >> /\ sent' = << >> /\ set' = None
    BY <1>2, <2>1 DEF Fresh, FreshHost, Trap, sending, Idle
  <2>3. ~Promise!Reached'
    BY <1>1, <1>4 DEF Promise!Reached
  <2>4. NothingSent'
    BY <1>3, <2>2, <2>3 DEF NothingSent, Idle
  <2> QED
    BY <2>1, <2>2, <2>4 DEF Phases, Starts, Offers, Outcome, SinkGood
<1>5. CASE invocation.sound /\ ~invocation.readable
  <2>1. phase' = "over" /\ UNCHANGED sink
    BY <1>5 DEF ReadInputs
  <2>2. UNCHANGED <<level, default, set, slot, alt, part, field, host, sent>>
    BY <2>1, SinkStays
  <2>3. ~Promise!Reached'
    BY <1>1, <1>5 DEF Promise!Reached
  <2>4. NothingSent'
    BY <1>2, <1>3, <2>2, <2>3 DEF NothingSent, Idle, Fresh, FreshHost
  <2>5. SinkGood'
    BY <1>2, <2>1, <2>2, SinkGoodStays
  <2> QED
    BY <2>1, <2>4, <2>5 DEF Phases, Starts, Offers, Outcome
<1>6. CASE invocation.sound /\ invocation.readable /\ ~invocation.understood
  <2>1. phase' = "over" /\ EmitDiagnostic("request") /\ "request" \in Kinds
    BY <1>6 DEF ReadInputs, Kinds
  <2>2. level' = level
    BY <2>1, EmitKeepsLevel DEF EmitDiagnostic, sink
  <2>3. Promise!Reached
    BY <1>2, <1>6 DEF Promise!Reached
  <2>4. SinkGood' /\ Outcome'
    BY <1>1, <1>2, <1>3, <1>6, <2>1, <2>2, <2>3, DiagnosticEnds
  <2> QED
    BY <2>1, <2>4 DEF Phases, Starts, Offers
<1>7. CASE invocation.sound /\ invocation.readable /\ invocation.understood
  <2>1. phase' = "evaluate" /\ UNCHANGED sink
    BY <1>7 DEF ReadInputs
  <2>2. UNCHANGED <<level, default, set, slot, alt, part, field, host, sent>>
    BY <2>1, SinkStays
  <2>3. Promise!Reached' /\ invocation'.understood
    BY <1>1, <1>2, <1>7, <2>2 DEF Promise!Reached
  <2>4. Fresh'
    BY <1>2, <2>2 DEF Fresh, Idle, FreshHost
  <2>5. SinkGood'
    BY <1>2, <2>1, <2>2, SinkGoodStays
  <2> QED
    BY <1>1, <1>2, <2>1, <2>2, <2>3, <2>4, <2>5 DEF Phases, Starts, Offers, Outcome
<1> QED
  BY <1>4, <1>5, <1>6, <1>7

LEMMA EvaluateStep ==
  ASSUME RunInv, Evaluate
  PROVE  Phases' /\ Starts' /\ Offers' /\ Outcome' /\ SinkGood'
<1>1. /\ phase = "evaluate" /\ UNCHANGED sink /\ phase' = phase /\ invocation' = invocation /\ index' = index
  BY DEF Evaluate, run
<1>2. /\ Fresh /\ index = 1 /\ level >= 2 /\ SinkGood /\ Promise!Reached /\ invocation.understood
  BY <1>1 DEF RunInv, Starts
<1>3. UNCHANGED <<level, default, set, slot, alt, part, field, host, sent>>
  BY <1>1, SinkStays
<1>4. Fresh'
  BY <1>2, <1>3 DEF Fresh, Idle, FreshHost
<1>5. Promise!Reached'
  BY <1>1, <1>2 DEF Promise!Reached
<1>6. SinkGood'
  BY <1>1, <1>2, <1>3, SinkGoodStays
<1> QED
  BY <1>1, <1>2, <1>3, <1>4, <1>5, <1>6 DEF Phases, Starts, Offers, Outcome

LEMMA VerdictStep ==
  ASSUME RunInv, Unsatisfiable \/ NoCombinations
  PROVE  Phases' /\ Starts' /\ Offers' /\ Outcome' /\ SinkGood'
<1>1. /\ phase = "evaluate" /\ UNCHANGED engine /\ invocation' = invocation /\ phase' = "over"
      /\ pc = "done" /\ ~Whole
  BY DEF Unsatisfiable, NoCombinations, Whole
<1>2. PICK kind \in Kinds : EmitDiagnostic(kind)
  BY DEF Unsatisfiable, NoCombinations, Kinds
<1>3. /\ Fresh /\ level >= 2 /\ SinkGood /\ Promise!Reached /\ invocation.understood
  BY <1>1 DEF RunInv, Starts
<1>4. level' = level
  BY <1>2, EmitKeepsLevel DEF EmitDiagnostic, sink
<1>5. SinkGood' /\ Outcome'
  BY <1>1, <1>2, <1>3, <1>4, DiagnosticEnds
<1> QED
  BY <1>1, <1>5 DEF Phases, Starts, Offers

LEMMA BeginOffersStep ==
  ASSUME EngineInv, RunInv, HasCombinations
  PROVE  Phases' /\ Starts' /\ Offers' /\ Outcome' /\ SinkGood'
<1>1. /\ phase = "evaluate" /\ Whole /\ phase' = "offer"
      /\ UNCHANGED sink /\ UNCHANGED engine /\ invocation' = invocation /\ index' = index
  BY DEF HasCombinations, Whole
<1>2. /\ Fresh /\ index = 1 /\ level >= 2 /\ SinkGood /\ Promise!Reached /\ invocation.understood /\ Brought
  BY <1>1 DEF RunInv, Starts
<1>3. UNCHANGED <<level, default, set, slot, alt, part, field, host, sent>> /\ out' = out
  BY <1>1, SinkStays, EngineStays
<1>4. Whole' /\ BuiltSets' = BuiltSets /\ Offering' = Offering /\ Promise!Reached'
  BY <1>1, <1>2, BuiltStays DEF Promise!Reached
<1>5. BuiltSets \in Seq(Built) /\ Len(out) \in Nat
  BY <1>2, BuiltSetsAre
<1>6. PickedOf(BuiltSets, Offering)[0] = << >>
  BY <1>5, PickedSteps
<1>7. sent' = PickedOf(BuiltSets', Offering')[index' - 1] /\ index' \in 1..(Len(out') + 1)
  <2>1. sent' = << >> /\ index' - 1 = 0
    BY <1>1, <1>2, <1>3 DEF Fresh
  <2> QED
    BY <1>1, <1>2, <1>3, <1>4, <1>5, <1>6, <2>1
<1>8. ~host'.trapped
  BY <1>2, <1>3, NothingDeclared
<1>9. (PickedOf(BuiltSets, Offering)[index - 1])' = PickedOf(BuiltSets', Offering')[index' - 1]
  BY DEF PickedOf
<1>10. Offers'
  BY <1>1, <1>2, <1>4, <1>7, <1>8, <1>9 DEF Offers
<1>11. SinkGood'
  BY <1>1, <1>2, <1>3, SinkGoodStays
<1> QED
  BY <1>1, <1>10, <1>11 DEF Phases, Starts, Outcome

(* The sets sent so far are those of combinations before the next one, in    *)
(* order.                                                                    *)
LEMMA SentSoFar ==
  ASSUME EngineInv, Brought, NEW n \in 0..Len(out)
  PROVE  LET f == PickedOf(BuiltSets, Offering)[n]
         IN /\ f \in Seq(Built) /\ Len(f) \in Nat
            /\ \A k \in 1..Len(f) : \E j \in 1..n : f[k] = BuiltSet(j)
<1> DEFINE f == PickedOf(BuiltSets, Offering)[n]
<1>1. /\ BuiltSets \in Seq(Built) /\ Len(BuiltSets) = Len(out) /\ Len(out) \in Nat
      /\ \A j \in 1..Len(out) : BuiltSets[j] = BuiltSet(j)
  BY BuiltSetsAre
<1>2. n \in 0..Len(BuiltSets)
  BY <1>1
<1>3. /\ f \in Seq(Built)
      /\ \E at : Together(at, f, f, n, Offering, BuiltSets, BuiltSets)
  BY <1>1, <1>2, PickedTogether
<1> HIDE DEF f
<1>4. Len(f) \in Nat
  BY <1>3
<1>5. \A k \in 1..Len(f) : \E j \in 1..n : f[k] = BuiltSet(j)
  <2>1. PICK at : at \in [1..Len(f) -> 1..n] /\ \A k \in 1..Len(f) : f[k] = BuiltSets[at[k]]
    BY <1>3 DEF At, Together
  <2>2. \A j \in 1..n : j \in 1..Len(out)
    BY <1>1
  <2> QED
    BY <1>1, <2>1, <2>2
<1> QED
  BY <1>3, <1>4, <1>5 DEF f

LEMMA OfferStep ==
  ASSUME EngineInv, RunInv, Offer
  PROVE  Phases' /\ Starts' /\ Offers' /\ Outcome' /\ SinkGood'
<1>1. /\ phase = "offer" /\ Idle /\ index \in DOMAIN out /\ index' = index + 1
      /\ UNCHANGED engine /\ invocation' = invocation /\ phase' = phase
  BY DEF Offer
<1>2. /\ Brought /\ SinkGood /\ Whole /\ Promise!Reached /\ invocation.understood /\ ~host.trapped
      /\ sent = PickedOf(BuiltSets, Offering)[index - 1] /\ level >= 2 /\ pc = "done"
  <2>1. /\ Brought /\ SinkGood /\ Whole /\ Promise!Reached /\ invocation.understood /\ ~host.trapped
        /\ sent = PickedOf(BuiltSets, Offering)[index - 1]
    BY <1>1 DEF RunInv, Offers
  <2> QED
    BY <2>1 DEF Brought, Promise!Reached, Whole
<1>3. SinkInv /\ DeliveredSoFar
  BY <1>2 DEF SinkGood
<1>4. /\ TypeOK /\ Members(out[index]) \in Seq(Chosen)
      /\ Len(out) \in Nat /\ DOMAIN out = 1..Len(out)
  BY <1>1, <1>2, OutIsHonoured
<1>5. \A n \in DOMAIN Members(out[index]) : IsStored(Members(out[index])[n].candidate.credential_id)
  <2>1. \A n \in DOMAIN Members(out[index]) : Members(out[index])[n] \in Chosen
    BY <1>4
  <2> QED
    BY <1>4, <2>1, ChosenIsStored
<1>6. EmitSet(SirosSetId(index - 1), Slots(out[index]))
  BY <1>5 DEF Offer, OfferedSetId
<1>7. /\ out' = out /\ BuiltSets' = BuiltSets /\ Offering' = Offering /\ Whole' /\ Promise!Reached'
  BY <1>1, <1>2, BuiltStays, EngineStays DEF Promise!Reached
<1>8. index - 1 \in 0..Len(out) /\ index \in 1..Len(out) /\ index' \in 1..(Len(out) + 1) /\ index' - 1 = index
  BY <1>1, <1>4
<1>9. /\ BuiltSets \in Seq(Built) /\ Len(BuiltSets) = Len(out) /\ BuiltSets[index] = BuiltSet(index)
  BY <1>2, <1>8, BuiltSetsAre
<1>10. PickedOf(BuiltSets, Offering)[index] =
         IF index \in Offering THEN Append(sent, BuiltSet(index)) ELSE sent
  BY <1>2, <1>8, <1>9, PickedSteps
<1>11. index \in Offering <=> Slots(out[index]) # << >>
  <2>1. /\ Slots(out[index]) \in Seq(Seq(SetEntry)) /\ Len(Slots(out[index])) = Len(Members(out[index]))
    BY <1>2, <1>4, SlotsAre
  <2>2. Members(out[index]) # << >> <=> Slots(out[index]) # << >>
    BY <1>4, <2>1
  <2> QED
    BY <1>1, <2>2 DEF Offering
<1>12. /\ sent' = PickedOf(BuiltSets, Offering)[index] /\ SinkGood' /\ ~host'.trapped
  <2>1. level' = level
    BY <1>6, EmitKeepsLevel
  <2>2. CASE index \in Offering
    <3>1. AddSet(BuiltSet(index))
      BY <1>6, <1>11, <2>2 DEF EmitSet, BuiltSet
    <3>2. BuiltSet(index) \in WellFormedSet
      BY <1>2, <2>2, BuiltIsWellFormed
    <3>3. ~Declared(BuiltSet(index).id)
      <4> SUFFICES ASSUME Declared(BuiltSet(index).id) PROVE FALSE
        OBVIOUS
      <4>1. PICK k \in DOMAIN host.sets : host.sets[k].id = BuiltSet(index).id
        BY DEF Declared
      <4>2. host.sets = [n \in DOMAIN sent |-> [id |-> sent[n].id, length |-> Len(sent[n].slots)]]
        BY <1>3 DEF DeliveredSoFar, Declarations
      <4>3. k \in DOMAIN sent /\ sent[k].id = BuiltSet(index).id
        BY <4>1, <4>2
      <4>4. /\ sent \in Seq(Built)
            /\ \A n \in 1..Len(sent) : \E j \in 1..(index - 1) : sent[n] = BuiltSet(j)
        BY <1>2, <1>8, SentSoFar
      <4>5. PICK j \in 1..(index - 1) : sent[k] = BuiltSet(j)
        BY <4>3, <4>4
      <4>6. j \in DOMAIN out /\ j # index /\ BuiltSet(j).id = BuiltSet(index).id
        BY <1>4, <1>8, <4>3, <4>5
      <4> QED
        BY <1>1, <1>2, <4>6, BuiltIdsDiffer
    <3>4. Declaring
      BY <3>1, <3>2, <3>3 DEF Declaring
    <3>5. SinkGood'
      BY <1>2, <2>1, <3>4, SinkGoodStays
    <3>6. sent' = Append(sent, BuiltSet(index))
      BY <3>1 DEF AddSet
    <3>7. ~host'.trapped
      <4>1. host' = AddEntrySet(host, BuiltSet(index).id, SlotCount(BuiltSet(index)))
        BY <3>1 DEF AddSet
      <4>2. host \in HostState
        BY <1>3 DEF SinkInv, SinkTypeOK
      <4> QED
        BY <1>2, <4>1, <4>2 DEF AddEntrySet, HostState
    <3> QED
      BY <1>10, <2>2, <3>5, <3>6, <3>7
  <2>3. CASE index \notin Offering
    <3>1. UNCHANGED sink
      BY <1>6, <1>11, <2>3 DEF EmitSet
    <3>2. sent' = sent /\ host' = host
      BY <3>1, SinkStays
    <3>3. SinkGood'
      BY <1>2, <2>1, <3>1, SinkGoodStays
    <3> QED
      BY <1>2, <1>10, <2>3, <3>2, <3>3
  <2> QED
    BY <2>2, <2>3
<1>13. (PickedOf(BuiltSets, Offering)[index - 1])' = PickedOf(BuiltSets', Offering')[index' - 1]
  BY DEF PickedOf
<1>14. sent' = (PickedOf(BuiltSets, Offering)[index - 1])'
  BY <1>7, <1>8, <1>12, <1>13
<1>15. Offers'
  BY <1>1, <1>2, <1>7, <1>8, <1>12, <1>14 DEF Offers
<1> QED
  BY <1>1, <1>12, <1>15 DEF Phases, Starts, Outcome

LEMMA SendNextStep ==
  ASSUME EngineInv, RunInv, SendNext
  PROVE  Phases' /\ Starts' /\ Offers' /\ Outcome' /\ SinkGood'
<1>1. /\ Send /\ UNCHANGED engine /\ invocation' = invocation /\ phase' = phase /\ index' = index
  BY DEF SendNext, run
<1>2. ~Idle /\ ~host.trapped
  BY <1>1 DEF Send, AddEntry, SendDelegation, SendLink, SendField, SendText, Sending
<1>3. level' = level /\ sent' = sent
  BY <1>1, SendKeepsLevel
<1>4. SinkGood'
  BY <1>1, <1>3, SinkGoodStays DEF RunInv
<1>5. level >= 2 => ~host'.trapped
  <2> SUFFICES ASSUME level >= 2 PROVE ~host'.trapped
    OBVIOUS
  <2>1. SinkInv
    BY <1>2 DEF RunInv, SinkGood
  <2> QED
    BY <1>1, <2>1, SendStep DEF SinkInv, NeverTraps
<1>6. /\ out' = out /\ pc' = pc /\ BuiltSets' = BuiltSets /\ Offering' = Offering /\ (Whole' <=> Whole)
      /\ (Promise!Reached' <=> Promise!Reached)
  BY <1>1, BuiltStays, EngineStays DEF Promise!Reached
<1>7. Promise!Reached => level >= 2
  BY DEF RunInv, Brought, Promise!Reached
<1>8. phase \notin {"connect", "read", "evaluate"}
  BY <1>2 DEF RunInv, Starts, Fresh
<1>9. (PickedOf(BuiltSets, Offering)[index - 1])' = PickedOf(BuiltSets', Offering')[index' - 1]
  BY DEF PickedOf
<1>10. Offers'
  BY <1>1, <1>3, <1>5, <1>6, <1>7, <1>9 DEF RunInv, Offers
<1>11. Outcome'
  <2> SUFFICES ASSUME phase = "over" PROVE DiagnosticSent'
    BY <1>1 DEF Outcome
  <2>1. DiagnosticSent
    BY <1>2 DEF RunInv, Outcome, NothingSent, AllSent
  <2>2. \E kind \in Kinds : sent' = << DiagnosticSet(kind)' >>
    BY <1>3, <2>1, DiagnosticsStay DEF DiagnosticSent
  <2> QED
    BY <1>1, <1>5, <1>6, <1>7, <2>1, <2>2 DEF DiagnosticSent, Kinds
<1> QED
  BY <1>1, <1>4, <1>8, <1>10, <1>11 DEF RunInv, Phases, Starts

LEMMA FinishStep ==
  ASSUME EngineInv, RunInv, Finish
  PROVE  Phases' /\ Starts' /\ Offers' /\ Outcome' /\ SinkGood'
<1>1. /\ phase = "offer" /\ Idle /\ index \notin DOMAIN out /\ phase' = "over"
      /\ UNCHANGED sink /\ UNCHANGED engine /\ invocation' = invocation
  BY DEF Finish
<1>2. /\ Brought /\ SinkGood /\ Whole /\ Promise!Reached /\ invocation.understood /\ ~host.trapped
      /\ index \in 1..(Len(out) + 1) /\ sent = PickedOf(BuiltSets, Offering)[index - 1]
  BY <1>1 DEF RunInv, Offers
<1>3. Len(out) \in Nat /\ DOMAIN out = 1..Len(out) /\ Len(BuiltSets) = Len(out)
  BY <1>2, OutIsHonoured, BuiltSetsAre
<1>4. index - 1 = Len(BuiltSets)
  BY <1>1, <1>2, <1>3
<1>5. sent = Picked(BuiltSets, Offering)
  BY <1>2, <1>4 DEF Picked
<1>6. /\ UNCHANGED <<level, default, set, slot, alt, part, field, host, sent>>
      /\ BuiltSets' = BuiltSets /\ Offering' = Offering /\ Whole' /\ Promise!Reached'
  BY <1>1, <1>2, SinkStays, BuiltStays DEF Promise!Reached
<1>7. Picked(BuiltSets, Offering)' = Picked(BuiltSets', Offering')
  BY DEF Picked, PickedOf
<1>8. AllSent'
  BY <1>1, <1>2, <1>5, <1>6, <1>7 DEF AllSent, Idle
<1>9. SinkGood'
  BY <1>1, <1>2, <1>6, SinkGoodStays
<1> QED
  BY <1>1, <1>8, <1>9 DEF Phases, Starts, Offers, Outcome

LEMMA NothingHappens ==
  ASSUME RunInv, UNCHANGED vars
  PROVE  Phases' /\ Starts' /\ Offers' /\ Outcome' /\ SinkGood'
<1>1. /\ UNCHANGED sink /\ UNCHANGED engine /\ invocation' = invocation /\ phase' = phase /\ index' = index
  BY DEF vars, run
<1>2. UNCHANGED <<level, default, set, slot, alt, part, field, host, sent>> /\ out' = out /\ pc' = pc
  BY <1>1, SinkStays, EngineStays
<1>3. /\ BuiltSets' = BuiltSets /\ Offering' = Offering /\ (Whole' <=> Whole)
      /\ (Promise!Reached' <=> Promise!Reached)
  BY <1>1, BuiltStays DEF Promise!Reached
<1>4. SinkGood'
  BY <1>1, <1>2, SinkGoodStays DEF RunInv
<1>5. Starts' /\ Phases'
  BY <1>1, <1>2, <1>3 DEF RunInv, Starts, Phases, Fresh, FreshHost, Idle
<1>6. /\ (PickedOf(BuiltSets, Offering)[index - 1])' = PickedOf(BuiltSets', Offering')[index' - 1]
      /\ Picked(BuiltSets, Offering)' = Picked(BuiltSets', Offering')
  BY DEF Picked, PickedOf
<1>7. Offers'
  BY <1>1, <1>2, <1>3, <1>6 DEF RunInv, Offers
<1>8. Outcome'
  <2> SUFFICES ASSUME phase = "over" PROVE (NothingSent \/ DiagnosticSent \/ AllSent)'
    BY <1>1 DEF Outcome
  <2>1. NothingSent => NothingSent'
    BY <1>1, <1>2, <1>3 DEF NothingSent, Idle
  <2>2. DiagnosticSent => DiagnosticSent'
    <3> SUFFICES ASSUME DiagnosticSent PROVE DiagnosticSent'
      OBVIOUS
    <3>1. \E kind \in Kinds : sent' = << DiagnosticSet(kind)' >>
      BY <1>2, DiagnosticsStay DEF DiagnosticSent
    <3> QED
      BY <1>1, <1>2, <1>3, <3>1 DEF DiagnosticSent, Kinds
  <2>3. AllSent => AllSent'
    BY <1>1, <1>2, <1>3, <1>6 DEF AllSent, Idle
  <2> QED
    BY <2>1, <2>2, <2>3 DEF RunInv, Outcome
<1> QED
  BY <1>4, <1>5, <1>7, <1>8

LEMMA RunGoesOn == EngineInv /\ RunInv /\ [Next]_vars => EngineInv' /\ RunInv'
<1> SUFFICES ASSUME EngineInv, RunInv, [Next]_vars PROVE EngineInv' /\ RunInv'
  OBVIOUS
<1>1. EngineInv'
  BY StepOfEngine, EngineGoesOn
<1>2. Brought'
  BY BroughtStays DEF RunInv
<1>3. Phases' /\ Starts' /\ Offers' /\ Outcome' /\ SinkGood'
  BY ConnectStep, ReadStep, EvaluateStep, VerdictStep, BeginOffersStep, OfferStep, SendNextStep, FinishStep,
     NothingHappens DEF Next, Ended
<1> QED
  BY <1>1, <1>2, <1>3 DEF RunInv

(* Everything below follows from this. *)
LEMMA RunInvariance == Spec => [](EngineInv /\ RunInv)
BY RunBegins, RunGoesOn, PTL DEF Spec

-----------------------------------------------------------------------------
(* What the picker shows of sets whose slots have one entry each, with an    *)
(* image, under ids of their own: every one of them, as it was sent.         *)
Visible == {e \in CapturedEntry : e.icon # None}

Plain(s) == s \in WellFormedSet /\ \A i \in DOMAIN s.slots : Alone(s.slots[i])

LEMMA EntriesOfPlain ==
  ASSUME SinkTypeOK, NEW s, Plain(s)
  PROVE  /\ EntriesOf(s) \in Seq(Visible) /\ Len(EntriesOf(s)) = Len(s.slots) /\ Len(s.slots) \in Nat
         /\ \A i \in 1..Len(s.slots) : /\ EntriesOf(s)[i] = Delivered(s, i, 1)
                                       /\ EntriesOf(s)[i].key.set = s.id
<1> DEFINE n == Len(s.slots)
           rows == FirstRows(s, n)
<1>1. s \in WellFormedSet /\ DOMAIN s.slots = 1..n /\ n \in Nat
  BY SetFacts DEF Plain
<1>2. EntriesOf(s) = FlattenSeq(rows)
  BY <1>1 DEF EntriesOf, FirstRows, RowOf
<1>3. ASSUME NEW i \in 1..n
      PROVE  /\ RowOf(s, i) \in Seq(Visible) /\ Len(RowOf(s, i)) = 1
             /\ RowOf(s, i)[1] = Delivered(s, i, 1) /\ Delivered(s, i, 1).key.set = s.id
  <2>1. s.slots[i] \in Seq(SetEntry) /\ Len(s.slots[i]) = 1 /\ s.slots[i][1].icon # None
    BY <1>1 DEF Plain, Alone
  <2>2. DOMAIN s.slots[i] = 1..1 /\ 1 \in DOMAIN s.slots[i]
    BY <2>1
  <2>3. Delivered(s, i, 1) \in CapturedEntry
    BY <1>1, <2>2, DeliveredType
  <2>4. Delivered(s, i, 1).icon = s.slots[i][1].icon /\ Delivered(s, i, 1).key.set = s.id
    BY DEF Delivered
  <2>5. Delivered(s, i, 1) \in Visible
    BY <2>1, <2>3, <2>4 DEF Visible
  <2>6. RowOf(s, i) \in [1..1 -> Visible] /\ RowOf(s, i)[1] = Delivered(s, i, 1)
    BY <2>2, <2>5 DEF RowOf
  <2>7. RowOf(s, i) \in Seq(Visible) /\ Len(RowOf(s, i)) = 1
    BY <2>6, FunctionIsSequence
  <2> QED
    BY <2>4, <2>6, <2>7
<1>4. rows \in [1..n -> Seq(Visible)] /\ \A i \in 1..n : rows[i] = RowOf(s, i)
  BY <1>1, <1>3 DEF FirstRows
<1> HIDE DEF rows, n
<1>5. rows \in Seq(Seq(Visible)) /\ Len(rows) = n /\ DOMAIN rows = 1..n
  BY <1>1, <1>4, FunctionIsSequence
<1>6. \A i \in DOMAIN rows : Len(rows[i]) = 1
  BY <1>3, <1>4, <1>5
<1>7. /\ FlattenSeq(rows) \in Seq(Visible) /\ Len(FlattenSeq(rows)) = Len(rows)
      /\ \A i \in DOMAIN rows : FlattenSeq(rows)[i] = rows[i][1]
  BY <1>5, <1>6, FlattenOnes
<1>8. \A i \in 1..n : FlattenSeq(rows)[i] = Delivered(s, i, 1) /\ Delivered(s, i, 1).key.set = s.id
  BY <1>3, <1>4, <1>5, <1>7
<1>9. Len(FlattenSeq(rows)) = n
  BY <1>5, <1>7
<1> QED
  BY <1>1, <1>2, <1>7, <1>8, <1>9 DEF n

LEMMA ShownAsSent ==
  ASSUME SinkTypeOK, DeliveredSoFar, Idle, ~host.trapped, \A n \in DOMAIN sent : Plain(sent[n]),
         \A m, n \in DOMAIN sent : sent[m].id = sent[n].id => m = n
  PROVE  /\ ~Discarded(host)
         /\ DOMAIN host.sets = DOMAIN sent /\ DOMAIN sent = 1..Len(sent) /\ Len(sent) \in Nat
         /\ Len(host.sets) = Len(sent)
         /\ \A n \in DOMAIN sent : /\ host.sets[n].id = sent[n].id
                                   /\ host.sets[n].length = Len(sent[n].slots)
                                   /\ EntriesOfSet(sent[n].id) = EntriesOf(sent[n])
<1> DEFINE M == Len(sent)
           parts == FirstSets(M)
<1>1. M \in Nat /\ DOMAIN sent = 1..M
  BY DEF SinkTypeOK
<1>2. host.sets = [n \in DOMAIN sent |-> [id |-> sent[n].id, length |-> Len(sent[n].slots)]]
  BY DEF DeliveredSoFar, Declarations
<1>3. /\ DOMAIN host.sets = DOMAIN sent
      /\ \A n \in DOMAIN sent : host.sets[n].id = sent[n].id /\ host.sets[n].length = Len(sent[n].slots)
  BY <1>2
<1>4. ~Discarded(host)
  BY <1>3 DEF Discarded
<1>5. host.entries = FlattenSeq(parts)
  BY DEF DeliveredSoFar
<1>6. parts \in [1..M -> Seq(Visible)] /\ \A n \in 1..M : parts[n] = EntriesOf(sent[n])
  <2>1. \A n \in 1..M : EntriesOf(sent[n]) \in Seq(Visible)
    BY <1>1, EntriesOfPlain
  <2> QED
    BY <2>1 DEF FirstSets
<1> HIDE DEF parts
<1>7. parts \in Seq(Seq(Visible)) /\ Len(parts) = M /\ DOMAIN parts = 1..M
  BY <1>1, <1>6, FunctionIsSequence
<1>8. FlattenSeq(parts) \in Seq(Visible)
  BY <1>1, <1>6, FlattenStep
<1> DEFINE entries == FlattenSeq(parts)
<1>9. Shown(host) = entries
  <2>1. Shown(host) = Picked(entries, {n \in DOMAIN entries : entries[n].icon # None})
    BY <1>4, <1>5 DEF Shown
  <2>2. \A n \in DOMAIN entries : entries[n] \in Visible
    BY <1>8
  <2> HIDE DEF entries
  <2>3. {n \in DOMAIN entries : entries[n].icon # None} = {n \in DOMAIN entries : entries[n] \in Visible}
    BY <2>2 DEF Visible
  <2>4. PickedIn(entries, Visible) = entries
    BY <1>8, <2>2, PickedInAll DEF entries
  <2> QED
    BY <2>1, <2>3, <2>4 DEF PickedIn
<1>10. ASSUME NEW n \in DOMAIN sent PROVE EntriesOfSet(sent[n].id) = EntriesOf(sent[n])
  <2> DEFINE id == sent[n].id
             Keep == {e \in Visible : e.key.set = id}
  <2>1. EntriesOfSet(id) = Picked(entries, {k \in DOMAIN entries : entries[k].key.set = id})
    BY <1>9 DEF EntriesOfSet
  <2>2. \A k \in DOMAIN entries : entries[k] \in Visible
    BY <1>8
  <2> HIDE DEF entries, id
  <2>3. {k \in DOMAIN entries : entries[k].key.set = id} = {k \in DOMAIN entries : entries[k] \in Keep}
    BY <2>2
  <2>4. EntriesOfSet(id) = PickedIn(entries, Keep)
    BY <2>1, <2>3 DEF PickedIn
  <2>5. ASSUME NEW i \in 1..M, NEW j \in DOMAIN parts[i]
        PROVE  parts[i][j] \in Visible /\ parts[i][j].key.set = sent[i].id
    <3>1. /\ EntriesOf(sent[i]) \in Seq(Visible) /\ Len(EntriesOf(sent[i])) = Len(sent[i].slots)
          /\ \A k \in 1..Len(sent[i].slots) : EntriesOf(sent[i])[k].key.set = sent[i].id
      BY <1>1, EntriesOfPlain
    <3>2. parts[i] = EntriesOf(sent[i])
      BY <1>6
    <3> QED
      BY <3>1, <3>2
  <2>6. n \in DOMAIN parts /\ n \in 1..M
    BY <1>1, <1>7
  <2>7. \A j \in DOMAIN parts[n] : parts[n][j] \in Keep
    BY <2>5, <2>6 DEF id
  <2>8. \A i \in DOMAIN parts : i # n => \A j \in DOMAIN parts[i] : parts[i][j] \notin Keep
    <3> SUFFICES ASSUME NEW i \in DOMAIN parts, i # n, NEW j \in DOMAIN parts[i], parts[i][j] \in Keep
                 PROVE  FALSE
      OBVIOUS
    <3>1. i \in 1..M /\ i \in DOMAIN sent
      BY <1>1, <1>7
    <3>2. parts[i][j].key.set = sent[i].id
      BY <2>5, <3>1
    <3>3. sent[i].id = sent[n].id
      BY <3>2 DEF id
    <3> QED
      BY <3>1, <3>3
  <2> HIDE DEF Keep
  <2>9. PickedIn(FlattenSeq(parts), Keep) = parts[n]
    BY <1>7, <2>6, <2>7, <2>8, PickedOfParts
  <2> QED
    BY <1>6, <2>4, <2>6, <2>9 DEF entries, id
<1>11. Len(host.sets) = M
  BY <1>1, <1>2
<1> QED
  BY <1>1, <1>3, <1>4, <1>10, <1>11

-----------------------------------------------------------------------------
(* The sets of a run that offered everything are built of the combinations   *)
(* that have members, in order.                                              *)
BuiltAs(at) ==
  /\ at \in [1..Len(sent) -> Offering]
  /\ \A j, k \in 1..Len(sent) : j < k => at[j] < at[k]
  /\ \A k \in 1..Len(sent) : sent[k] = BuiltSet(at[k]) /\ Offerable[k] = out[at[k]]

LEMMA SentAreBuilt ==
  ASSUME EngineInv, Brought, sent = Picked(BuiltSets, Offering)
  PROVE  Len(sent) \in Nat /\ DOMAIN sent = 1..Len(sent) /\ Len(sent) = Len(Offerable)
         /\ Len(sent) <= Len(out) /\ \E at : BuiltAs(at)
<1>1. /\ BuiltSets \in Seq(Built) /\ Len(BuiltSets) = Len(out) /\ Len(out) \in Nat /\ DOMAIN out = 1..Len(out)
      /\ \A j \in 1..Len(out) : BuiltSets[j] = BuiltSet(j)
  BY BuiltSetsAre
<1>2. out \in Seq(Combination)
  BY OutIsHonoured
<1>3. Len(out) \in 0..Len(BuiltSets)
  BY <1>1
<1> DEFINE n == Len(out)
           f == PickedOf(BuiltSets, Offering)[n]
           h == PickedOf(out, Offering)[n]
<1>4. f = sent /\ h = Offerable
  BY <1>1 DEF Picked, Offerable, Offering
<1> HIDE DEF f, h
<1>5. /\ f \in Seq(Built) /\ h \in Seq(Combination) /\ Len(f) = Len(h)
      /\ \E at : /\ At(at, Len(f), n, Offering, BuiltSets)
                 /\ \A k \in 1..Len(f) : f[k] = BuiltSets[at[k]] /\ h[k] = out[at[k]]
  <2>1. Len(BuiltSets) = Len(out)
    BY <1>1
  <2>2. /\ f \in Seq(Built) /\ h \in Seq(Combination) /\ Len(f) = Len(h)
    BY <1>1, <1>2, <1>3, <2>1, PickedTogether DEF f, h
  <2>3. \E at : Together(at, f, h, n, Offering, BuiltSets, out)
    BY <1>1, <1>2, <1>3, <2>1, PickedTogether DEF f, h
  <2> QED
    BY <2>2, <2>3 DEF Together
<1>6. PICK at : /\ At(at, Len(f), n, Offering, BuiltSets)
                /\ \A k \in 1..Len(f) : f[k] = BuiltSets[at[k]] /\ h[k] = out[at[k]]
  BY <1>5
<1>7. /\ at \in [1..Len(f) -> 1..n] /\ \A k \in 1..Len(f) : at[k] \in Offering
      /\ \A j, k \in 1..Len(f) : j < k => at[j] < at[k]
  BY <1>6 DEF At
<1>8. BuiltAs(at)
  BY <1>1, <1>4, <1>6, <1>7 DEF BuiltAs
<1>9. Len(f) \in Nat /\ DOMAIN f = 1..Len(f)
  BY <1>5
<1>10. Len(f) <= n
  BY <1>1, <1>7, <1>9, Increasing
<1> QED
  BY <1>4, <1>5, <1>8, <1>9, <1>10

(* A built set is plain, and its entries are its members. *)
LEMMA BuiltIsPlain ==
  ASSUME EngineInv, Brought, pc = "done", NEW n \in Offering
  PROVE  /\ Plain(BuiltSet(n))
         /\ Members(out[n]) \in Seq(Chosen) /\ Members(out[n]) # << >>
         /\ Len(BuiltSet(n).slots) = Len(Members(out[n]))
         /\ \A k \in DOMAIN Members(out[n]) : BuiltSet(n).slots[k] = SlotOf(Members(out[n])[k])
<1> DEFINE members == Members(out[n])
           slots == Slots(out[n])
<1>1. /\ TypeOK /\ members \in Seq(Chosen) /\ members # << >>
  BY OutIsHonoured DEF Offering
<1>2. /\ Len(slots) = Len(members) /\ DOMAIN slots = DOMAIN members
      /\ \A k \in DOMAIN members : slots[k] = SlotOf(members[k])
  BY <1>1, SlotsAre
<1>3. \A k \in DOMAIN slots : Alone(slots[k])
  <2>1. \A k \in DOMAIN members : members[k] \in Chosen
    BY <1>1
  <2> HIDE DEF members, slots
  <2> QED
    BY <1>1, <1>2, <2>1, SlotIs
<1>4. BuiltSet(n) \in WellFormedSet /\ BuiltSet(n).slots = slots
  BY BuiltIsWellFormed DEF BuiltSet
<1> HIDE DEF slots
<1>5. Plain(BuiltSet(n))
  BY <1>3, <1>4 DEF Plain
<1> QED
  BY <1>1, <1>2, <1>4, <1>5

Stands(entry, k, member) ==
  /\ entry.key.index = k - 1
  /\ entry.key.id = member.candidate.credential_id
  /\ entry.metadata.data # None
  /\ entry.metadata.data.query_id = member.query
  /\ entry.fields = Fields(member)

LEMMA MembersAreDelivered ==
  ASSUME EngineInv, Brought, pc = "done", SinkTypeOK, NEW n \in Offering
  PROVE  /\ Len(EntriesOf(BuiltSet(n))) = Len(Members(out[n]))
         /\ DOMAIN EntriesOf(BuiltSet(n)) = DOMAIN Members(out[n])
         /\ \A k \in DOMAIN Members(out[n]) : Stands(EntriesOf(BuiltSet(n))[k], k, Members(out[n])[k])
<1> DEFINE members == Members(out[n])
           s == BuiltSet(n)
           L == Len(members)
<1>1. /\ Plain(s) /\ members \in Seq(Chosen) /\ Len(s.slots) = L /\ TypeOK
      /\ \A k \in DOMAIN members : s.slots[k] = SlotOf(members[k])
  BY BuiltIsPlain, OutIsHonoured
<1>2. L \in Nat /\ DOMAIN members = 1..L
  BY <1>1
<1> HIDE DEF members, s, L
<1>3. /\ EntriesOf(s) \in Seq(Visible) /\ Len(EntriesOf(s)) = L
      /\ \A i \in 1..L : EntriesOf(s)[i] = Delivered(s, i, 1)
  BY <1>1, EntriesOfPlain
<1>4. DOMAIN EntriesOf(s) = DOMAIN members
  BY <1>2, <1>3
<1>5. ASSUME NEW k \in DOMAIN members
      PROVE  Stands(EntriesOf(s)[k], k, members[k])
  <2>1. k \in 1..L /\ members[k] \in Chosen
    BY <1>1, <1>2, <1>5
  <2>2. EntriesOf(s)[k] = Delivered(s, k, 1)
    BY <1>3, <2>1
  <2> DEFINE entry == s.slots[k][1]
  <2>3. s.slots[k] = SlotOf(members[k])
    BY <1>1, <1>5
  <2>4. /\ entry.id = members[k].candidate.credential_id
        /\ entry.data # None /\ entry.data.query_id = members[k].query
        /\ entry.fields = Fields(members[k])
    BY <1>1, <2>1, <2>3, SlotIs
  <2>5. /\ Delivered(s, k, 1).key.index = k - 1 /\ Delivered(s, k, 1).key.id = entry.id
        /\ Delivered(s, k, 1).metadata.data = entry.data /\ Delivered(s, k, 1).fields = entry.fields
    BY DEF Delivered
  <2> HIDE DEF entry
  <2> QED
    BY <2>2, <2>4, <2>5 DEF Stands
<1> QED
  BY <1>3, <1>4, <1>5 DEF members, s, L

-----------------------------------------------------------------------------
(* The picker at the end of a run that offered everything.                   *)
LEMMA AllAreShown ==
  ASSUME EngineInv, RunInv, AllSent
  PROVE  /\ ~Discarded(host)
         /\ Len(host.sets) = Len(Offerable) /\ Len(host.sets) \in Nat
         /\ Len(host.sets) <= MaxCombinations
         /\ DOMAIN host.sets = 1..Len(host.sets)
         /\ \E at : \A n \in DOMAIN host.sets :
              LET members == Members(Offerable[n])
                  entries == EntriesOfSet(host.sets[n].id)
              IN /\ at[n] \in Offering /\ Offerable[n] = out[at[n]]
                 /\ host.sets[n].length = Len(members)
                 /\ Len(entries) = Len(members) /\ DOMAIN entries = DOMAIN members
                 /\ members \in Seq(Chosen) /\ members # << >>
                 /\ \A k \in DOMAIN members : Stands(entries[k], k, members[k])
<1>1. /\ Brought /\ SinkTypeOK /\ DeliveredSoFar /\ Idle /\ ~host.trapped /\ pc = "done"
      /\ sent = Picked(BuiltSets, Offering)
  <2>1. /\ Brought /\ SinkGood /\ Promise!Reached /\ Idle /\ ~host.trapped /\ Whole
        /\ sent = Picked(BuiltSets, Offering)
    BY DEF RunInv, AllSent
  <2> QED
    BY <2>1 DEF Brought, SinkGood, Promise!Reached, Whole, SinkInv
<1>2. /\ Len(sent) \in Nat /\ DOMAIN sent = 1..Len(sent) /\ Len(sent) = Len(Offerable) /\ Len(sent) <= Len(out)
      /\ \E at : BuiltAs(at)
  BY <1>1, SentAreBuilt
<1>3. PICK at : BuiltAs(at)
  BY <1>2
<1>4. /\ \A k \in 1..Len(sent) : at[k] \in Offering
      /\ \A j, k \in 1..Len(sent) : j < k => at[j] < at[k]
      /\ \A k \in 1..Len(sent) : sent[k] = BuiltSet(at[k]) /\ Offerable[k] = out[at[k]]
  BY <1>3 DEF BuiltAs
<1>5. \A n \in DOMAIN sent : Plain(sent[n])
  BY <1>1, <1>2, <1>4, BuiltIsPlain
<1>6. \A m, n \in DOMAIN sent : sent[m].id = sent[n].id => m = n
  <2> SUFFICES ASSUME NEW m \in DOMAIN sent, NEW n \in DOMAIN sent, sent[m].id = sent[n].id PROVE m = n
    OBVIOUS
  <2>1. at[m] \in DOMAIN out /\ at[n] \in DOMAIN out /\ BuiltSet(at[m]).id = BuiltSet(at[n]).id
    BY <1>2, <1>4 DEF Offering
  <2>2. at[m] = at[n] /\ at[m] \in Nat
    BY <1>1, <2>1, BuiltIdsDiffer, BuiltSetsAre
  <2>3. m \in Nat /\ n \in Nat /\ ~(m < n) /\ ~(n < m)
    BY <1>2, <1>4, <2>2
  <2> QED
    BY <2>3
<1>7. /\ ~Discarded(host) /\ DOMAIN host.sets = DOMAIN sent /\ Len(host.sets) = Len(sent)
      /\ \A n \in DOMAIN sent : /\ host.sets[n].id = sent[n].id
                                /\ host.sets[n].length = Len(sent[n].slots)
                                /\ EntriesOfSet(sent[n].id) = EntriesOf(sent[n])
  BY <1>1, <1>5, <1>6, ShownAsSent
<1>8. Len(host.sets) <= MaxCombinations
  <2>1. Len(out) <= MaxCombinations /\ Len(out) \in Nat
    BY <1>1, OutIsHonoured
  <2> QED
    BY <1>2, <1>7, <2>1, TheLimit
<1>9. ASSUME NEW n \in DOMAIN host.sets
      PROVE  LET members == Members(Offerable[n])
                 entries == EntriesOfSet(host.sets[n].id)
             IN /\ at[n] \in Offering /\ Offerable[n] = out[at[n]]
                /\ host.sets[n].length = Len(members)
                /\ Len(entries) = Len(members) /\ DOMAIN entries = DOMAIN members
                /\ members \in Seq(Chosen) /\ members # << >>
                /\ \A k \in DOMAIN members : Stands(entries[k], k, members[k])
  <2>1. n \in DOMAIN sent /\ n \in 1..Len(sent)
    BY <1>2, <1>7
  <2>2. at[n] \in Offering /\ sent[n] = BuiltSet(at[n]) /\ Offerable[n] = out[at[n]]
    BY <1>4, <2>1
  <2>3. EntriesOfSet(host.sets[n].id) = EntriesOf(BuiltSet(at[n]))
    BY <1>7, <2>1, <2>2
  <2>4. host.sets[n].length = Len(BuiltSet(at[n]).slots)
    BY <1>7, <2>1, <2>2
  <2>5. /\ Len(BuiltSet(at[n]).slots) = Len(Members(out[at[n]]))
        /\ Members(out[at[n]]) \in Seq(Chosen) /\ Members(out[at[n]]) # << >>
    BY <1>1, <2>2, BuiltIsPlain
  <2>6. /\ Len(EntriesOf(BuiltSet(at[n]))) = Len(Members(out[at[n]]))
        /\ DOMAIN EntriesOf(BuiltSet(at[n])) = DOMAIN Members(out[at[n]])
        /\ \A k \in DOMAIN Members(out[at[n]]) :
             Stands(EntriesOf(BuiltSet(at[n]))[k], k, Members(out[at[n]])[k])
    BY <1>1, <2>2, MembersAreDelivered
  <2> QED
    BY <2>2, <2>3, <2>4, <2>5, <2>6
<1>10. \E t : \A n \in DOMAIN host.sets :
         LET members == Members(Offerable[n])
             entries == EntriesOfSet(host.sets[n].id)
         IN /\ t[n] \in Offering /\ Offerable[n] = out[t[n]]
            /\ host.sets[n].length = Len(members)
            /\ Len(entries) = Len(members) /\ DOMAIN entries = DOMAIN members
            /\ members \in Seq(Chosen) /\ members # << >>
            /\ \A k \in DOMAIN members : Stands(entries[k], k, members[k])
  BY <1>9
<1> QED
  BY <1>2, <1>7, <1>8, <1>10

(* At the end of every invocation whose request the wallet can satisfy, the   *)
(* picker shows each combination the engine found once, in the engine's       *)
(* order, under an id of its own and whole: for every request, wallet, limit, *)
(* host level and display row.                                                *)
THEOREM CombinationsAreShownWhole == Spec => []EveryCombinationShownWhole
<1>1. EngineInv /\ RunInv => EveryCombinationShownWhole
  <2> SUFFICES ASSUME EngineInv, RunInv, phase = "over", Whole
               PROVE  /\ ~Discarded(host)
                      /\ Len(host.sets) = Len(Offerable)
                      /\ \A n \in DOMAIN host.sets :
                           LET members == Members(Offerable[n])
                               entries == EntriesOfSet(host.sets[n].id)
                           IN /\ host.sets[n].length = Len(members)
                              /\ Len(entries) = Len(members)
                              /\ \A k \in DOMAIN entries :
                                   /\ entries[k].key.index = k - 1
                                   /\ entries[k].key.id = members[k].candidate.credential_id
                                   /\ entries[k].metadata.data.query_id = members[k].query
    BY DEF EveryCombinationShownWhole, Whole
  <2>1. AllSent
    BY DEF RunInv, Outcome, NothingSent, DiagnosticSent
  <2> QED
    BY <2>1, AllAreShown DEF Stands
<1> QED
  BY <1>1, RunInvariance, PTL

-----------------------------------------------------------------------------
(* The promise: its words mean what the engine's mean.                       *)
LEMMA PromisesVocabulary ==
  /\ Promise!Queries = Queries
  /\ \A query, credential : Promise!IsCandidate(query, credential) <=> IsCandidate(query, credential)
  /\ \A query, content : Promise!SelectClaims(query, content) = SelectClaims(query, content)
BY DEF Promise!Queries, Queries, Promise!IsCandidate, IsCandidate, Promise!Selectable, Selectable,
       Promise!SelectClaims, SelectClaims, Promise!IsPreferred, IsPreferred, Promise!Deliverable,
       Deliverable, Promise!Claim, Claim, Promise!HasClaim, HasClaim, Promise!Resolves, Resolves

(* What the engine has ruled is the verdict on the candidates it has found.  *)
Ruled == pc # "evaluate" => (satisfiable <=> Verdict)

LEMMA RuledStays == Ruled /\ [EngineNext]_engine => Ruled'
<1> SUFFICES ASSUME Ruled, [EngineNext]_engine PROVE Ruled'
  OBVIOUS
<1>1. CASE Judge
  <2>1. request' = request /\ candidates' = candidates /\ satisfiable' = Verdict
    BY <1>1 DEF Judge, inputs
  <2>2. Verdict' <=> Verdict
    BY <2>1 DEF Verdict, RequiredSetsMet, OptionMatched, IsSatisfied, Queries
  <2> QED
    BY <2>1, <2>2 DEF Ruled
<1>2. CASE ConsiderCredential \/ NextQuery
  BY <1>2 DEF ConsiderCredential, NextQuery, Ruled
<1>3. CASE ~(Judge \/ ConsiderCredential \/ NextQuery)
  <2>1. /\ request' = request /\ candidates' = candidates /\ satisfiable' = satisfiable
        /\ pc' # "evaluate" => pc # "evaluate"
    BY <1>3 DEF EngineNext, engine, inputs, evaluating, OfferNothing, BeginGroups, SkipOptionalSet,
            EnterSet, SetsDone, NextPartial, LeaveSet, SkipOption, OpenOption, MultiplyWidth, SetDials,
            ReadDials, CloseOption, Returned
  <2>2. Verdict' <=> Verdict
    BY <2>1 DEF Verdict, RequiredSetsMet, OptionMatched, IsSatisfied, Queries
  <2> QED
    BY <2>1, <2>2 DEF Ruled
<1> QED
  BY <1>1, <1>2, <1>3

LEMMA RuledAlways == Spec => []Ruled
<1>1. Init => Ruled
  BY DEF Init, EngineInit, Ruled
<1> QED
  BY <1>1, RuledStays, StepOfEngine, PTL DEF Spec

-----------------------------------------------------------------------------
(* If the wallet can answer, the engine finds an answer that can be offered. *)
LEMMA AbleIsSatisfied ==
  ASSUME EngineInv, pc = "done", NEW id, Promise!CanAnswer(id)
  PROVE  \E i \in Queries : request.credentials[i].id = id /\ IsSatisfied(i)
<1>1. PICK i \in Queries : \E w \in DOMAIN wallet :
        request.credentials[i].id = id /\ IsCandidate(request.credentials[i], wallet[w])
  BY PromisesVocabulary DEF Promise!CanAnswer
<1>2. PICK w \in DOMAIN wallet : request.credentials[i].id = id /\ IsCandidate(request.credentials[i], wallet[w])
  BY <1>1
<1>3. TypeOK /\ EInv
  BY DEF EngineInv, TInv
<1>4. Passed(i, w)
  BY <1>3 DEF Passed, EInv, TypeOK, Queries, DcqlQuery
<1>5. PICK n \in DOMAIN candidates[i] : candidates[i][n].credential_id = wallet[w].id
  BY <1>2, <1>3, <1>4 DEF EInv
<1>6. candidates[i] # << >>
  BY <1>5
<1> QED
  BY <1>2, <1>6 DEF IsSatisfied

LEMMA AnswerableIsSatisfiable ==
  ASSUME EngineInv, Ruled, pc = "done", Promise!Answerable
  PROVE  /\ UniqueIds /\ RequiredSetsMet /\ satisfiable
         /\ \E s \in DOMAIN Sets : IsRequired(s)
         /\ \A s \in DOMAIN Sets : \A k \in DOMAIN Sets[s].options : Sets[s].options[k] # << >>
<1>1. UniqueIds /\ Queries # {}
  BY PromisesVocabulary DEF Promise!Answerable, Promise!UniqueIds, UniqueIds
<1>2. /\ RequiredSetsMet
      /\ \E i \in Queries : IsSatisfied(i)
      /\ \E s \in DOMAIN Sets : IsRequired(s)
      /\ \A s \in DOMAIN Sets : \A k \in DOMAIN Sets[s].options : Sets[s].options[k] # << >>
  <2>1. CASE request.credential_sets = None
    <3>1. \A i \in Queries : Promise!CanAnswer(request.credentials[i].id)
      BY <2>1, PromisesVocabulary DEF Promise!Answerable
    <3>2. \A i \in Queries : IsSatisfied(i)
      <4> SUFFICES ASSUME NEW i \in Queries PROVE IsSatisfied(i)
        OBVIOUS
      <4>1. PICK j \in Queries : request.credentials[j].id = request.credentials[i].id /\ IsSatisfied(j)
        BY <3>1, AbleIsSatisfied
      <4> QED
        BY <1>1, <4>1 DEF UniqueIds
    <3>3. Sets = << Everything >> /\ Everything.required = TRUE
          /\ Everything.options = << [i \in Queries |-> request.credentials[i].id] >>
      BY <2>1 DEF Sets, Everything
    <3>4. \E s \in DOMAIN Sets : IsRequired(s)
      <4>1. 1 \in DOMAIN Sets /\ Sets[1] = Everything
        BY <3>3
      <4> QED
        BY <3>3, <4>1 DEF IsRequired
    <3>5. [i \in Queries |-> request.credentials[i].id] # << >>
      <4>1. DOMAIN [i \in Queries |-> request.credentials[i].id] # DOMAIN << >>
        BY <1>1
      <4> QED
        BY <4>1
    <3>6. \A s \in DOMAIN Sets : \A k \in DOMAIN Sets[s].options : Sets[s].options[k] # << >>
      <4> SUFFICES ASSUME NEW s \in DOMAIN Sets, NEW k \in DOMAIN Sets[s].options
                   PROVE  Sets[s].options[k] # << >>
        OBVIOUS
      <4>1. s = 1 /\ Sets[s] = Everything
        BY <3>3
      <4>2. Sets[s].options[k] = [i \in Queries |-> request.credentials[i].id]
        BY <3>3, <4>1
      <4> QED
        BY <3>5, <4>2
    <3> QED
      BY <1>1, <2>1, <3>2, <3>4, <3>6 DEF RequiredSetsMet
  <2>2. CASE request.credential_sets # None
    <3> DEFINE asked == request.credential_sets
    <3>1. /\ Sets = asked
          /\ \E s \in DOMAIN asked : asked[s].required
          /\ \A s \in DOMAIN asked : \A k \in DOMAIN asked[s].options : asked[s].options[k] # << >>
          /\ \A s \in DOMAIN asked : asked[s].required =>
               \E k \in DOMAIN asked[s].options : \A j \in DOMAIN asked[s].options[k] :
                 Promise!CanAnswer(asked[s].options[k][j])
      BY <2>2 DEF Promise!Answerable, Sets
    <3>2. ASSUME NEW s \in DOMAIN asked, asked[s].required
          PROVE  \E k \in DOMAIN asked[s].options : OptionMatched(asked[s].options[k])
      <4>1. PICK k \in DOMAIN asked[s].options : \A j \in DOMAIN asked[s].options[k] :
              Promise!CanAnswer(asked[s].options[k][j])
        BY <3>1, <3>2
      <4>2. OptionMatched(asked[s].options[k])
        BY <4>1, AbleIsSatisfied DEF OptionMatched
      <4> QED
        BY <4>2
    <3>3. RequiredSetsMet
      BY <2>2, <3>2 DEF RequiredSetsMet
    <3>4. \E i \in Queries : IsSatisfied(i)
      <4>1. PICK s \in DOMAIN asked : asked[s].required
        BY <3>1
      <4>2. PICK k \in DOMAIN asked[s].options : OptionMatched(asked[s].options[k])
        BY <3>2, <4>1
      <4>3. asked[s].options[k] \in Seq(QueryId)
        BY <3>1, SetsType DEF EngineInv, TInv
      <4>4. 1 \in DOMAIN asked[s].options[k]
        <5> SUFFICES ASSUME NEW x \in Seq(QueryId), x # << >> PROVE 1 \in DOMAIN x
          BY <3>1, <4>3
        <5> QED
          OBVIOUS
      <4> QED
        BY <4>2, <4>4 DEF OptionMatched
    <3> QED
      BY <3>1, <3>3, <3>4 DEF IsRequired
  <2> QED
    BY <2>1, <2>2
<1>3. satisfiable
  BY <1>1, <1>2 DEF Ruled, Verdict
<1> QED
  BY <1>1, <1>2, <1>3

LEMMA AnswerableIsOffered ==
  ASSUME EngineInv, Ruled, Brought, pc = "done", Promise!Answerable
  PROVE  Whole /\ Offering # {}
<1>1. /\ UniqueIds /\ RequiredSetsMet /\ satisfiable
      /\ \E s \in DOMAIN Sets : IsRequired(s)
      /\ \A s \in DOMAIN Sets : \A k \in DOMAIN Sets[s].options : Sets[s].options[k] # << >>
  BY AnswerableIsSatisfiable
<1>2. TypeOK /\ TInv /\ OInv /\ CInv /\ AInv
  BY DEF EngineInv, TInv
<1>3. AllWays = WaysOfFirst[Len(Sets)]
  BY <1>1 DEF AllWays
<1>4. Len(Sets) \in Nat /\ DOMAIN Sets = 1..Len(Sets)
  BY <1>2, SetsType
<1>5. 1 <= Len(AllWays) /\ Len(AllWays) \in Nat
  <2>1. 0 \in 0..Len(Sets) /\ Len(Sets) \in 0..Len(Sets)
    BY <1>4
  <2>2. Len(WaysOfFirst[0]) <= Len(WaysOfFirst[Len(Sets)])
    BY <1>1, <1>2, <2>1, WaysGrow
  <2>3. WaysOfFirst[0] = << << >> >>
    BY <1>2, WaysAre
  <2>4. Len(<< << >> >>) = 1
    OBVIOUS
  <2>5. WaysOfFirst[Len(Sets)] \in Ways
    BY <1>2, <2>1, WaysAre
  <2> QED
    BY <1>3, <2>2, <2>3, <2>4, <2>5 DEF Ways
<1>6. /\ Len(out) = IF Len(AllWays) < limit THEN Len(AllWays) ELSE limit
      /\ out \in Seq(Combination) /\ limit \in Nat \ {0}
  BY <1>2, TheLimit DEF OInv, FirstWaysInOrder, TypeOK, Brought
<1>7. out # << >> /\ 1 \in DOMAIN out
  BY <1>5, <1>6
<1>8. Members(out[1]) # << >>
  <2>1. PICK s \in DOMAIN Sets : IsRequired(s)
    BY <1>1
  <2>2. CoversUpTo(out[1], Len(Sets))
    BY <1>2, <1>7 DEF CInv
  <2>3. Covers(out[1], s)
    BY <1>4, <2>1, <2>2 DEF CoversUpTo
  <2>4. PICK k \in DOMAIN Sets[s].options : AnswersOption(out[1], Sets[s].options[k])
    BY <2>3 DEF Covers
  <2>5. Sets[s].options[k] \in Seq(QueryId) /\ Sets[s].options[k] # << >>
    BY <1>1, <1>2, SetsType
  <2>6. 1 \in DOMAIN Sets[s].options[k]
    <3> SUFFICES ASSUME NEW x \in Seq(QueryId), x # << >> PROVE 1 \in DOMAIN x
      BY <2>5
    <3> QED
      OBVIOUS
  <2>7. PICK j \in DOMAIN out[1].answers : TRUE
    BY <2>4, <2>6 DEF AnswersOption
  <2>8. out[1] \in Combination /\ Honoured(out[1])
    BY <1>2, <1>7 DEF AInv, TypeOK
  <2>9. \E n \in DOMAIN Members(out[1]) : Members(out[1])[n].query = out[1].answers[j].id
    BY <2>7, <2>8, MembersAre
  <2> QED
    BY <2>9
<1>9. 1 \in Offering
  BY <1>7, <1>8 DEF Offering
<1> QED
  BY <1>1, <1>7, <1>9 DEF Whole

-----------------------------------------------------------------------------
(* What the user sees of a combination. *)
Presents(choice, members) ==
  /\ DOMAIN choice = DOMAIN members
  /\ \A k \in DOMAIN members :
       /\ choice[k].id = members[k].candidate.credential_id
       /\ choice[k].query = members[k].query
       /\ choice[k].rows = Fields(members[k])

LEMMA ChoicesAre ==
  ASSUME EngineInv, RunInv, AllSent
  PROVE  /\ DOMAIN PickerChoices = DOMAIN host.sets /\ Len(PickerChoices) = Len(Offerable)
         /\ Len(PickerChoices) <= MaxCombinations
         /\ \A n \in DOMAIN PickerChoices :
              \E i \in Offering : Presents(PickerChoices[n], Members(out[i]))
<1>1. /\ ~Discarded(host)
      /\ Len(host.sets) = Len(Offerable) /\ Len(host.sets) \in Nat
      /\ Len(host.sets) <= MaxCombinations
      /\ DOMAIN host.sets = 1..Len(host.sets)
  BY AllAreShown
<1>2. PICK at : \A n \in DOMAIN host.sets :
        LET members == Members(Offerable[n])
            entries == EntriesOfSet(host.sets[n].id)
        IN /\ at[n] \in Offering /\ Offerable[n] = out[at[n]]
           /\ host.sets[n].length = Len(members)
           /\ Len(entries) = Len(members) /\ DOMAIN entries = DOMAIN members
           /\ members \in Seq(Chosen) /\ members # << >>
           /\ \A k \in DOMAIN members : Stands(entries[k], k, members[k])
  BY AllAreShown
<1> DEFINE ChoicesShown == {ChoiceOf(host.sets[n].id) : n \in DOMAIN host.sets}
<1>3. PickerChoices = [n \in DOMAIN host.sets |-> ChoiceOf(host.sets[n].id)]
  BY <1>1 DEF PickerChoices
<1>4. PickerChoices \in [1..Len(host.sets) -> ChoicesShown]
  BY <1>1, <1>3
<1>5. Len(PickerChoices) = Len(host.sets) /\ DOMAIN PickerChoices = DOMAIN host.sets
  <2> HIDE DEF ChoicesShown
  <2> QED
    BY <1>1, <1>4, FunctionIsSequence
<1>6. ASSUME NEW n \in DOMAIN PickerChoices
      PROVE  \E i \in Offering : Presents(PickerChoices[n], Members(out[i]))
  <2> DEFINE members == Members(out[at[n]])
             entries == EntriesOfSet(host.sets[n].id)
  <2>1. n \in DOMAIN host.sets
    BY <1>5
  <2>2. /\ at[n] \in Offering /\ Offerable[n] = out[at[n]]
        /\ DOMAIN entries = DOMAIN Members(Offerable[n])
        /\ \A k \in DOMAIN Members(Offerable[n]) : Stands(entries[k], k, Members(Offerable[n])[k])
    BY <1>2, <2>1
  <2>3. /\ DOMAIN entries = DOMAIN members
        /\ \A k \in DOMAIN members : Stands(entries[k], k, members[k])
    BY <2>2
  <2>4. PickerChoices[n] = ChoiceOf(host.sets[n].id)
    BY <1>3, <2>1
  <2>5. ChoiceOf(host.sets[n].id) =
          [k \in DOMAIN entries |->
             [id |-> entries[k].key.id, rows |-> entries[k].fields,
              query |-> IF entries[k].metadata.data = None THEN None
                        ELSE entries[k].metadata.data.query_id]]
    BY DEF ChoiceOf
  <2> DEFINE choice == PickerChoices[n]
  <2> HIDE DEF members, entries
  <2>7. DOMAIN choice = DOMAIN members
    BY <2>3, <2>4, <2>5
  <2>8. ASSUME NEW k \in DOMAIN members
        PROVE  /\ choice[k].id = members[k].candidate.credential_id
               /\ choice[k].query = members[k].query
               /\ choice[k].rows = Fields(members[k])
    <3>1. /\ entries[k].key.id = members[k].candidate.credential_id
          /\ entries[k].metadata.data # None
          /\ entries[k].metadata.data.query_id = members[k].query
          /\ entries[k].fields = Fields(members[k])
      BY <2>3 DEF Stands
    <3>2. choice[k] = [id |-> entries[k].key.id, rows |-> entries[k].fields,
                       query |-> IF entries[k].metadata.data = None THEN None
                                 ELSE entries[k].metadata.data.query_id]
      BY <2>3, <2>4, <2>5
    <3> QED
      BY <3>1, <3>2
  <2>6. Presents(PickerChoices[n], members)
    BY <2>7, <2>8 DEF Presents
  <2> QED
    BY <2>2, <2>6 DEF members
<1> QED
  BY <1>1, <1>5, <1>6

LEMMA ChoiceIsComplete ==
  ASSUME EngineInv, Brought, pc = "done", NEW i \in Offering, NEW choice, Presents(choice, Members(out[i]))
  PROVE  choice # << >> /\ Promise!Complete(choice)
<1>1. /\ TypeOK /\ Len(Sets) \in Nat /\ DOMAIN Sets = 1..Len(Sets)
  BY SetsType DEF EngineInv, TInv
<1>2. /\ i \in DOMAIN out /\ out[i] \in Combination /\ Honoured(out[i]) /\ Members(out[i]) # << >>
      /\ CoversUpTo(out[i], Len(Sets)) /\ Members(out[i]) \in Seq(Chosen)
  BY OutIsHonoured DEF Offering, EngineInv, CInv
<1>3. choice # << >>
  <2> SUFFICES ASSUME NEW x \in Seq(Chosen), x # << >>, DOMAIN choice = DOMAIN x PROVE choice # << >>
    BY <1>2 DEF Presents
  <2>1. 1 \in DOMAIN x
    OBVIOUS
  <2> QED
    BY <2>1
<1>4. ASSUME NEW j \in DOMAIN out[i].answers
      PROVE  Promise!Answered(choice, out[i].answers[j].id)
  BY <1>2, MembersAre DEF Promise!Answered, Presents
<1>5. ASSUME NEW option, AnswersOption(out[i], option), NEW k \in DOMAIN option
      PROVE  Promise!Answered(choice, option[k])
  BY <1>4, <1>5 DEF AnswersOption
<1>6. ASSUME NEW s \in DOMAIN Sets, IsRequired(s)
      PROVE  \E k \in DOMAIN Sets[s].options : \A j \in DOMAIN Sets[s].options[k] :
               Promise!Answered(choice, Sets[s].options[k][j])
  <2>1. Covers(out[i], s)
    BY <1>1, <1>2, <1>6 DEF CoversUpTo
  <2> QED
    BY <1>5, <2>1 DEF Covers
<1>7. CASE request.credential_sets = None
  <2>1. /\ Sets = << Everything >> /\ Everything.required = TRUE
        /\ Everything.options = << [n \in Queries |-> request.credentials[n].id] >>
    BY <1>7 DEF Sets, Everything
  <2>2. 1 \in DOMAIN Sets /\ Sets[1] = Everything /\ IsRequired(1)
    BY <2>1 DEF IsRequired
  <2>3. PICK k \in DOMAIN Sets[1].options : \A j \in DOMAIN Sets[1].options[k] :
          Promise!Answered(choice, Sets[1].options[k][j])
    BY <1>6, <2>2
  <2>4. Sets[1].options[k] = [n \in Queries |-> request.credentials[n].id]
    BY <2>1, <2>2
  <2>5. \A n \in Queries : Promise!Answered(choice, request.credentials[n].id)
    BY <2>3, <2>4
  <2> QED
    BY <1>3, <1>7, <2>5, PromisesVocabulary DEF Promise!Complete
<1>8. CASE request.credential_sets # None
  <2>1. Sets = request.credential_sets
    BY <1>8 DEF Sets
  <2> QED
    BY <1>3, <1>6, <1>8, <2>1 DEF Promise!Complete, IsRequired
<1> QED
  BY <1>7, <1>8

LEMMA MemberIsHonest ==
  ASSUME TypeOK, Brought, Promise!UniqueIds, NEW m \in Chosen, NEW shown,
         shown.id = m.candidate.credential_id, shown.query = m.query, shown.rows = Fields(m)
  PROVE  Promise!Honest(shown)
<1>1. PICK i \in Queries : request.credentials[i].id = m.query /\ Accepted(m.candidate, i)
  BY DEF Chosen
<1>2. PICK w \in DOMAIN wallet : /\ IsCandidate(request.credentials[i], wallet[w])
                                 /\ m.candidate = CandidateOf(request.credentials[i], wallet[w])
  BY <1>1 DEF Accepted
<1>3. /\ m.candidate.credential_id = wallet[w].id
      /\ m.candidate.claims = SelectClaims(request.credentials[i], wallet[w].content)
  BY <1>2 DEF CandidateOf
<1>4. QueryOf(m.query) = i
  <2>1. /\ QueryOf(m.query) \in Queries
        /\ request.credentials[QueryOf(m.query)].id = m.query
    BY ChosenIsStored, QueryOfId
  <2> QED
    BY <1>1, <2>1, PromisesVocabulary DEF Promise!UniqueIds
<1>5. Stored(m.candidate.credential_id) = wallet[w]
  <2>1. PICK v \in DOMAIN wallet : /\ Stored(m.candidate.credential_id) = wallet[v]
                                   /\ wallet[v].id = m.candidate.credential_id
    BY ChosenIsStored, StoredIs
  <2> QED
    BY <1>3, <2>1 DEF Promise!UniqueIds
<1> DEFINE query == request.credentials[i]
           claims == m.candidate.claims
<1>6. /\ PlanRows(query) # None => Fields(m) = PlanRows(query)
      /\ PlanRows(query) = None => \A k \in DOMAIN Fields(m) : \E n \in DOMAIN claims :
           Fields(m)[k] = Row(wallet[w], claims[n].path)
  BY <1>4, <1>5, FieldsAre
<1>7. claims = Promise!SelectClaims(query, wallet[w].content)
  BY <1>3, PromisesVocabulary
<1>8. Promise!IsCandidate(query, wallet[w])
  BY <1>2, PromisesVocabulary
<1> HIDE DEF query, claims
<1>9. Promise!Fits(shown, query, wallet[w])
  BY <1>3, <1>6, <1>7, <1>8 DEF Promise!Fits
<1> QED
  BY <1>1, <1>9, PromisesVocabulary DEF Promise!Honest, query

LEMMA AllSentIsAnswer ==
  ASSUME EngineInv, RunInv, AllSent
  PROVE  Promise!IsAnswer(PickerChoices)
<1>1. TypeOK /\ Brought /\ pc = "done"
  BY DEF EngineInv, TInv, RunInv, AllSent, Whole
<1>2. /\ Len(PickerChoices) <= MaxCombinations
      /\ \A n \in DOMAIN PickerChoices : \E i \in Offering : Presents(PickerChoices[n], Members(out[i]))
  BY ChoicesAre
<1>3. ASSUME NEW n \in DOMAIN PickerChoices
      PROVE  /\ PickerChoices[n] # << >> /\ Promise!Complete(PickerChoices[n])
             /\ Promise!UniqueIds => \A k \in DOMAIN PickerChoices[n] : Promise!Honest(PickerChoices[n][k])
  <2>1. PICK i \in Offering : Presents(PickerChoices[n], Members(out[i]))
    BY <1>2
  <2>2. PickerChoices[n] # << >> /\ Promise!Complete(PickerChoices[n])
    BY <1>1, <2>1, ChoiceIsComplete
  <2>3. Members(out[i]) \in Seq(Chosen)
    BY <1>1, OutIsHonoured DEF Offering
  <2>4. ASSUME Promise!UniqueIds, NEW k \in DOMAIN PickerChoices[n]
        PROVE  Promise!Honest(PickerChoices[n][k])
    <3>1. k \in DOMAIN Members(out[i]) /\ Members(out[i])[k] \in Chosen
      <4>1. k \in DOMAIN Members(out[i])
        BY <2>1 DEF Presents
      <4> QED
        BY <2>3, <4>1
    <3>2. /\ PickerChoices[n][k].id = Members(out[i])[k].candidate.credential_id
          /\ PickerChoices[n][k].query = Members(out[i])[k].query
          /\ PickerChoices[n][k].rows = Fields(Members(out[i])[k])
      BY <2>1, <3>1 DEF Presents
    <3> QED
      BY <1>1, <2>4, <3>1, <3>2, MemberIsHonest
  <2> QED
    BY <2>2, <2>4
<1> QED
  BY <1>2, <1>3 DEF Promise!IsAnswer

-----------------------------------------------------------------------------
(* A diagnostic is one choice of one member, which answers no query and      *)
(* shows no row.                                                             *)
LEMMA DiagnosticIsShown ==
  ASSUME EngineInv, RunInv, DiagnosticSent, Idle
  PROVE  Promise!IsDiagnostic(PickerChoices)
<1>1. /\ SinkTypeOK /\ DeliveredSoFar /\ ~host.trapped /\ invocation.debug
  BY DEF RunInv, DiagnosticSent, SinkGood, SinkInv, Brought, Promise!Reached
<1>2. PICK kind \in Kinds : sent = << DiagnosticSet(kind) >>
  BY DEF DiagnosticSent
<1> DEFINE s == DiagnosticSet(kind)
           slot1 == Member("siros-debug-entry", Fallback, None, << >>)
<1>3. /\ Alone(slot1) /\ slot1[1].data = None /\ slot1[1].fields = << >>
  <2>1. "siros-debug-entry" \in CredId /\ Fallback \in Icon
    BY ValuesAreThePickers
  <2>2. << >> \in Seq(Field) /\ None \in {None} \cup Data
    OBVIOUS
  <2>3. Alone(slot1)
    BY <2>1, <2>2, MemberIs
  <2>4. Shows(slot1, "siros-debug-entry", None, << >>)
    BY <2>1, <2>2, MemberIs
  <2> QED
    BY <2>3, <2>4 DEF Shows
<1>4. s \in WellFormedSet /\ s.slots = << slot1 >>
  BY DiagnosticIsWellFormed DEF DiagnosticSet
<1> HIDE DEF slot1, s
<1>5. /\ Len(s.slots) = 1 /\ s.slots[1] = slot1
      /\ \A i \in DOMAIN s.slots : i = 1
  BY <1>4
<1>6. Plain(s)
  BY <1>3, <1>4, <1>5 DEF Plain
<1>7. Len(sent) = 1 /\ DOMAIN sent = 1..1 /\ sent[1] = s
  BY <1>2 DEF s
<1>8. /\ \A n \in DOMAIN sent : Plain(sent[n])
      /\ \A m, n \in DOMAIN sent : sent[m].id = sent[n].id => m = n
  BY <1>6, <1>7
<1>9. /\ ~Discarded(host) /\ DOMAIN host.sets = 1..1
      /\ EntriesOfSet(host.sets[1].id) = EntriesOf(s)
  BY <1>1, <1>7, <1>8, ShownAsSent
<1>10. /\ DOMAIN EntriesOf(s) = 1..1 /\ EntriesOf(s)[1] = Delivered(s, 1, 1)
  <2>1. /\ EntriesOf(s) \in Seq(Visible) /\ Len(EntriesOf(s)) = 1 /\ EntriesOf(s)[1] = Delivered(s, 1, 1)
    BY <1>1, <1>5, <1>6, EntriesOfPlain
  <2> QED
    BY <2>1
<1>11. /\ Delivered(s, 1, 1).metadata.data = None /\ Delivered(s, 1, 1).fields = << >>
  BY <1>3, <1>5 DEF Delivered
<1> DEFINE choice == ChoiceOf(host.sets[1].id)
<1>12. /\ DOMAIN choice = 1..1 /\ choice[1].query = None /\ choice[1].rows = << >>
       /\ choice = [k \in 1..1 |-> choice[1]]
  BY <1>9, <1>10, <1>11 DEF ChoiceOf
<1>13. PickerChoices = [n \in 1..1 |-> choice]
  BY <1>9 DEF PickerChoices
<1> HIDE DEF choice
<1>14. Len(PickerChoices) = 1 /\ PickerChoices[1] = choice
  <2>1. PickerChoices \in [1..1 -> {choice}]
    BY <1>13
  <2> QED
    BY <1>13, <2>1, FunctionIsSequence
<1>15. Len(choice) = 1
  <2>1. choice \in [1..1 -> {choice[1]}]
    BY <1>12
  <2> QED
    BY <2>1, FunctionIsSequence
<1> QED
  BY <1>1, <1>12, <1>14, <1>15 DEF Promise!IsDiagnostic

-----------------------------------------------------------------------------
(* The promise, of what is shown when the invocation is over. *)
Keeps(shown) ==
  /\ \/ shown = << >>
     \/ Promise!Reached /\ Promise!IsDiagnostic(shown)
     \/ Promise!Reached /\ invocation.understood /\ Promise!IsAnswer(shown)
  /\ Promise!Reached /\ invocation.understood /\ Promise!Answerable =>
       shown # << >> /\ Promise!IsAnswer(shown)
  /\ Promise!Reached /\ ~invocation.understood /\ invocation.debug => Promise!IsDiagnostic(shown)

PromiseKept == Over => Keeps(PickerChoices)

LEMMA OverKeeps == EngineInv /\ RunInv /\ Ruled => PromiseKept
<1> SUFFICES ASSUME EngineInv, RunInv, Ruled, Over PROVE Keeps(PickerChoices)
  BY DEF PromiseKept
<1>1. /\ Brought
      /\ Idle \/ host.trapped
      /\ NothingSent \/ DiagnosticSent \/ AllSent
  BY DEF RunInv, Outcome, Over
<1>2. CASE NothingSent
  <2>1. PickerChoices = << >>
    <3>1. host.sets = << >> /\ DOMAIN << >> = {}
      BY <1>2 DEF NothingSent
    <3> QED
      BY <3>1 DEF PickerChoices
  <2>2. ~(Promise!Reached /\ invocation.understood /\ Promise!Answerable)
    BY <1>1, <1>2, AnswerableIsOffered DEF NothingSent
  <2>3. ~(Promise!Reached /\ ~invocation.understood /\ invocation.debug)
    BY <1>2 DEF NothingSent
  <2> QED
    BY <2>1, <2>2, <2>3 DEF Keeps
<1>3. CASE DiagnosticSent
  <2>1. Promise!IsDiagnostic(PickerChoices) /\ Promise!Reached
    BY <1>1, <1>3, DiagnosticIsShown DEF DiagnosticSent
  <2>2. ~(invocation.understood /\ Promise!Answerable)
    BY <1>1, <1>3, AnswerableIsOffered DEF DiagnosticSent
  <2> QED
    BY <2>1, <2>2 DEF Keeps
<1>4. CASE AllSent
  <2>1. Promise!IsAnswer(PickerChoices) /\ Promise!Reached /\ invocation.understood
    BY <1>4, AllSentIsAnswer DEF AllSent
  <2>2. Promise!Answerable => PickerChoices # << >>
    <3> SUFFICES ASSUME Promise!Answerable PROVE PickerChoices # << >>
      OBVIOUS
    <3>1. PICK n \in Offering : TRUE
      BY <1>1, <1>4, AnswerableIsOffered DEF AllSent, Whole
    <3>2. out \in Seq(Combination) /\ n \in DOMAIN out
      BY <1>1, OutIsHonoured DEF Offering
    <3>3. Offerable = Picked(out, Offering)
      BY DEF Offerable, Offering
    <3>4. Offerable \in Seq(Combination) /\ \E k \in DOMAIN Offerable : Offerable[k] = out[n]
      BY <3>1, <3>2, <3>3, PickedAre
    <3>5. Len(Offerable) # 0
      BY <3>4
    <3>6. Len(PickerChoices) = Len(Offerable)
      BY <1>4, ChoicesAre
    <3> QED
      BY <3>5, <3>6
  <2> QED
    BY <2>1, <2>2 DEF Keeps
<1> QED
  BY <1>1, <1>2, <1>3, <1>4

LEMMA PromiseBegins == Init => Promise!Init
<1> SUFFICES ASSUME Init PROVE Promise!Init
  OBVIOUS
<1>1. request \in Requests /\ wallet \in Wallets /\ phase = "connect"
  BY DEF Init, EngineInit
<1>2. ~Over
  BY <1>1 DEF Over
<1> QED
  BY <1>1, <1>2 DEF Promise!Init

(* Once an invocation is over nothing happens. *)
LEMMA OverIsTheEnd ==
  ASSUME Over, [Next]_vars
  PROVE  UNCHANGED vars
BY DEF Over, Next, Connect, ReadInputs, Evaluate, Unsatisfiable, NoCombinations, HasCombinations, Offer,
       SendNext, Send, AddEntry, SendDelegation, SendLink, SendField, SendText, Sending, Finish, Ended

LEMMA PromiseGoesOn ==
  ASSUME PromiseKept', [Next]_vars
  PROVE  [Promise!Return]_(Promise!vars)
<1>1. request' = request /\ wallet' = wallet /\ invocation' = invocation
  BY StepKeepsBrought DEF Fixed
<1>2. CASE Over
  <2>1. UNCHANGED vars
    BY <1>2, OverIsTheEnd
  <2>2. phase' = phase /\ host' = host /\ set' = set
    BY <2>1, SinkStays DEF vars, run
  <2>3. Over' /\ PickerChoices' = PickerChoices
    BY <1>2, <2>2 DEF Over, Idle, PickerChoices, ChoiceOf, EntriesOfSet
  <2> QED
    BY <1>1, <1>2, <2>3 DEF Promise!vars
<1>3. CASE ~Over /\ ~Over'
  <2>1. Over' = Over /\ (IF Over THEN PickerChoices ELSE << >>)' = IF Over THEN PickerChoices ELSE << >>
    <3> SUFFICES ASSUME NEW a, NEW b, a = PickerChoices, b = PickerChoices'
                 PROVE  Over' = Over /\ (IF Over' THEN b ELSE << >>) = IF Over THEN a ELSE << >>
      OBVIOUS
    <3> QED
      BY <1>3 DEF Over
  <2> QED
    BY <1>1, <2>1 DEF Promise!vars
<1>4. CASE ~Over /\ Over'
  <2> DEFINE shown == PickerChoices'
  <2>1. Keeps(PickerChoices)'
    BY <1>4 DEF PromiseKept
  <2>2. Promise!IsDiagnostic(PickerChoices)' <=> Promise!IsDiagnostic(shown)
    BY <1>1 DEF Promise!IsDiagnostic
  <2>3. Promise!IsAnswer(PickerChoices)' <=> Promise!IsAnswer(shown)
    BY <1>1 DEF Promise!IsAnswer, Promise!Complete, Promise!Answered, Promise!Honest, Promise!UniqueIds,
            Promise!Queries
  <2>4. /\ Promise!Answerable' <=> Promise!Answerable
        /\ Promise!Reached' <=> Promise!Reached
    BY <1>1 DEF Promise!Answerable, Promise!UniqueIds, Promise!Queries, Promise!CanAnswer, Promise!Reached
  <2> HIDE DEF shown
  <2>5. Keeps(shown)
    BY <1>1, <2>1, <2>2, <2>3, <2>4 DEF Keeps, shown
  <2>6. (IF Over THEN PickerChoices ELSE << >>)' = shown
    BY <1>4 DEF shown
  <2> QED
    BY <1>1, <1>4, <2>5, <2>6 DEF Promise!Return, Keeps
<1> QED
  BY <1>2, <1>3, <1>4

(* The whole invocation implements PickerPromise: the user sees nothing, and *)
(* then, in one step and for good, what main.rs and picker.rs promise, for   *)
(* every request, wallet, limit, host level and display row. With nothing    *)
(* inside the engine or the sink ever visible, an answer is complete and, if *)
(* ids are unique, honest; and if the wallet can answer, there is one.       *)
THEOREM PromiseIsKept == Spec => KeepsPromise
<1>1. Spec => []PromiseKept
  BY RunInvariance, RuledAlways, OverKeeps, PTL
<1> QED
  BY <1>1, PromiseBegins, PromiseGoesOn, PTL DEF Spec, KeepsPromise, Promise!Spec
=============================================================================
