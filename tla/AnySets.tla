------------------------------ MODULE AnySets ------------------------------
(***************************************************************************)
(* A matcher that sends any entry sets it likes, each id once, and what it *)
(* may rely on.                                                            *)
(***************************************************************************)
EXTENDS EntrySets

CONSTANTS
  Level,       \* the levels at which a matcher gets an EntrySets sink
  EntrySet     \* the sets it may build

ASSUME AnythingIsAllowed ==
  /\ Level \subseteq Nat /\ \A l \in Level : l >= 2
  /\ EntrySet \subseteq WellFormedSet

AnyInit == \E l \in Level, d \in {None, 0, 1} : InitSink(l, d)

Declared(id) == \E n \in DOMAIN host.sets : host.sets[n].id = id

(* "Declare it once per invocation" (EntrySet::new). *)
Declare == \E s \in EntrySet : ~Declared(s.id) /\ AddSet(s)

Return == Idle /\ UNCHANGED sink

AnyNext == Declare \/ Send \/ Return

AnySpec == AnyInit /\ [][AnyNext]_sink

-----------------------------------------------------------------------------
AnyTypeOK ==
  /\ level \in Level /\ default \in {None, 0, 1}
  /\ set = None \/ set \in EntrySet
  /\ slot \in Nat \ {0} /\ alt \in Nat \ {0} /\ field \in Nat \ {0}
  /\ part \in {"add", "delegation", "link", "fields"}
  /\ host \in HostState
  /\ sent \in Seq(EntrySet)

(* No call is above the host's level, and none names an entry that was not    *)
(* added: either would trap, and the picker would show nothing at all         *)
(* (levels.rs: a level singleton exists only for a level the host reported).  *)
NeverTraps == ~host.trapped

(* What the host is to know of one alternative: every option it can show.     *)
Delivered(s, i, a) ==
  LET entry == s.slots[i][a]
  IN [key |-> [set |-> s.id, index |-> i - 1, id |-> entry.id],
      icon |-> entry.icon,
      info |-> entry.info /\ level >= 3,
      metadata |-> [level |-> level, data |-> entry.data,
                    skipped |-> \/ entry.info /\ level < 3
                                \/ entry.text /\ level < 5
                                \/ entry.link /\ level < 6],
      fields |-> entry.fields,
      delegation |-> CASE level < 7 -> None
                       [] level >= 7 /\ entry.delegation # None -> entry.delegation
                       [] OTHER -> default,
      link |-> entry.link /\ level >= 6,
      text |-> entry.text /\ level >= 5]

EntriesOf(s) ==
  FlattenSeq([i \in DOMAIN s.slots |->
               [a \in DOMAIN s.slots[i] |-> Delivered(s, i, a)]])

(* When add_entry_set returns, the host holds every set sent so far, whole:   *)
(* declared with the length its slots have, each alternative of each position *)
(* once, in order, with its own options and rows and nobody else's.           *)
DeliveredAsBuilt ==
  Idle =>
    /\ host.sets = [n \in DOMAIN sent |-> [id |-> sent[n].id, length |-> Len(sent[n].slots)]]
    /\ host.entries = FlattenSeq([n \in DOMAIN sent |-> EntriesOf(sent[n])])

(* An entry is finished when the next one is added: no call attaches anything *)
(* to an earlier entry, even if the same credential is in several positions.  *)
OnlyTheLastEntryChanges ==
  [][\A n \in 1..(Len(host.entries) - 1) : host'.entries[n] = host.entries[n]]_sink
=============================================================================
