---------------------------- MODULE PolicyProofs ----------------------------
(***************************************************************************)
(* Proofs about the match profile, for every credential, query and profile *)
(* of any number of formats, triggers, rules and capabilities.             *)
(***************************************************************************)
EXTENDS PolicyProperties, SequenceFacts, FiniteSetTheorems

TypeOK ==
  /\ input \in Inputs
  /\ phase \in {"format", "transform", "require", "meta", "claims", "report", "over"}
  /\ at \in Nat \ {0}
  /\ matches \in BOOLEAN

-----------------------------------------------------------------------------
(* Positions and items. *)

(* Iterator::find: the first of a set of positions. *)
LEMMA FirstIndexIsFirst ==
  ASSUME NEW S \in SUBSET Nat, S # {}
  PROVE  FirstIndex(S) \in S /\ \A i \in S : FirstIndex(S) <= i
<1>1. \E i \in S : \A j \in S : i <= j
  BY SmallestNat
<1> QED BY <1>1 DEF FirstIndex

(* A sequence of the data is one the prover knows how to take apart. *)
LEMMA Positions ==
  ASSUME NEW s, IsSequence(s)
  PROVE  DOMAIN s = 1..Len(s) /\ Len(s) \in Nat
BY DEF IsSequence

Rank(S, i) == Cardinality({j \in S : j <= i})

(* Counting how many positions come up to it numbers the positions of a set  *)
(* from 1 on, each number once.                                              *)
LEMMA RankNumbers ==
  ASSUME NEW n \in Nat, NEW S \in SUBSET (1..n)
  PROVE  /\ Cardinality(S) \in Nat
         /\ \A i \in S : Rank(S, i) \in 1..Cardinality(S)
         /\ \A i, j \in S : Rank(S, i) = Rank(S, j) => i = j
         /\ \A k \in 1..Cardinality(S) : \E i \in S : Rank(S, i) = k
<1> DEFINE UpTo(i) == {j \in S : j <= i}
<1>1. IsFiniteSet(1..n)
  BY FS_Interval
<1>2. IsFiniteSet(S) /\ Cardinality(S) \in Nat
  BY <1>1, FS_Subset, FS_CardinalityType
<1>3. \A i \in S : /\ IsFiniteSet(UpTo(i)) /\ Cardinality(UpTo(i)) \in Nat
                   /\ Cardinality(UpTo(i)) <= Cardinality(S)
  <2> SUFFICES ASSUME NEW i \in S
               PROVE  /\ IsFiniteSet(UpTo(i)) /\ Cardinality(UpTo(i)) \in Nat
                      /\ Cardinality(UpTo(i)) <= Cardinality(S)
    OBVIOUS
  <2>1. UpTo(i) \in SUBSET S
    OBVIOUS
  <2> HIDE DEF UpTo
  <2> QED BY <1>2, <2>1, FS_Subset, FS_CardinalityType
<1>4. \A i \in S : Cardinality(UpTo(i)) # 0
  <2> SUFFICES ASSUME NEW i \in S, Cardinality(UpTo(i)) = 0 PROVE FALSE
    OBVIOUS
  <2>1. i \in UpTo(i)
    OBVIOUS
  <2> HIDE DEF UpTo
  <2> QED BY <1>3, <2>1, FS_EmptySet
<1>5. \A i, j \in S : i < j => Cardinality(UpTo(i)) # Cardinality(UpTo(j))
  <2> SUFFICES ASSUME NEW i \in S, NEW j \in S, i < j,
                      Cardinality(UpTo(i)) = Cardinality(UpTo(j))
               PROVE  FALSE
    OBVIOUS
  <2>0. i \in Int /\ j \in Int /\ \A x \in S : x \in Int
    OBVIOUS
  <2>1. UpTo(i) \in SUBSET UpTo(j) /\ j \in UpTo(j) /\ j \notin UpTo(i)
    <3>1. \A x \in S : x <= i => x <= j
      BY <2>0
    <3>2. j <= j /\ ~ (j <= i)
      BY <2>0
    <3> QED BY <3>1, <3>2
  <2>2. IsFiniteSet(UpTo(j)) /\ Cardinality(UpTo(i)) = Cardinality(UpTo(j))
    BY <1>3
  <2> HIDE DEF UpTo
  <2> QED BY <2>1, <2>2, FS_Subset
<1>6. \A i, j \in S : Rank(S, i) = Rank(S, j) => i = j
  BY <1>5 DEF Rank
<1>7. \A i \in S : Rank(S, i) \in 1..Cardinality(S)
  BY <1>2, <1>3, <1>4 DEF Rank
<1> DEFINE f == [i \in S |-> Rank(S, i)]
<1>8. f \in Injection(S, 1..Cardinality(S))
  BY <1>6, <1>7 DEF Injection, IsInjective
<1>9. IsFiniteSet(1..Cardinality(S)) /\ Cardinality(1..Cardinality(S)) = Cardinality(S)
  BY <1>2, FS_Interval
<1>10. f \in Surjection(S, 1..Cardinality(S))
  <2> HIDE DEF f
  <2> QED BY <1>8, <1>9, FS_Injection
<1>11. \A k \in 1..Cardinality(S) : \E i \in S : Rank(S, i) = k
  BY <1>10 DEF Surjection
<1> QED BY <1>2, <1>6, <1>7, <1>11

ArePositions(S) == \E n \in Nat : S \in SUBSET (1..n)

(* Picking items of a sequence yields each of them and nothing else. *)
LEMMA ItemsAtPicks ==
  ASSUME NEW S, NEW seq, ArePositions(S)
  PROVE  /\ DOMAIN ItemsAt(seq, S) = 1..Len(ItemsAt(seq, S)) /\ Len(ItemsAt(seq, S)) \in Nat
         /\ \A k \in DOMAIN ItemsAt(seq, S) : \E i \in S : ItemsAt(seq, S)[k] = seq[i]
         /\ \A i \in S : \E k \in DOMAIN ItemsAt(seq, S) : ItemsAt(seq, S)[k] = seq[i]
<1> DEFINE c == Cardinality(S)
           Ranked(k) == CHOOSE i \in S : Rank(S, i) = k
           items == [k \in 1..c |-> seq[Ranked(k)]]
<1>1. /\ c \in Nat
      /\ \A i \in S : Rank(S, i) \in 1..c
      /\ \A i, j \in S : Rank(S, i) = Rank(S, j) => i = j
      /\ \A k \in 1..c : \E i \in S : Rank(S, i) = k
  <2> PICK n \in Nat : S \in SUBSET (1..n)
    BY DEF ArePositions
  <2> QED BY RankNumbers
<1>2. ItemsAt(seq, S) = items
  BY DEF ItemsAt, Rank
<1>3. \A k \in 1..c : Ranked(k) \in S /\ Rank(S, Ranked(k)) = k
  BY <1>1
<1>4. \A i \in S : Rank(S, i) \in 1..c /\ Ranked(Rank(S, i)) = i
  BY <1>1, <1>3
<1> HIDE DEF c, Ranked
<1>5. items \in Seq({seq[i] : i \in S}) /\ Len(items) = c
  <2>1. items \in [1..c -> {seq[i] : i \in S}]
    BY <1>3
  <2> HIDE DEF items
  <2> QED BY <1>1, <2>1, FunctionIsSequence
<1>6. DOMAIN items = 1..c
  OBVIOUS
<1>7. \A k \in DOMAIN items : \E i \in S : items[k] = seq[i]
  BY <1>3, <1>6
<1>8. \A i \in S : \E k \in DOMAIN items : items[k] = seq[i]
  <2> SUFFICES ASSUME NEW i \in S PROVE \E k \in DOMAIN items : items[k] = seq[i]
    OBVIOUS
  <2>1. Rank(S, i) \in 1..c /\ Ranked(Rank(S, i)) = i
    BY <1>4
  <2>2. items[Rank(S, i)] = seq[i]
    BY <2>1
  <2> QED BY <1>6, <2>1, <2>2
<1> HIDE DEF items
<1> QED BY <1>1, <1>2, <1>5, <1>6, <1>7, <1>8

-----------------------------------------------------------------------------
(* The requirements. *)

LEMMA FormatRequiresType ==
  ASSUME TypeOK
  PROVE  IsSequence(FormatRequires)
<1>1. CASE HasRule(query.format)
  <2> DEFINE S == {i \in DOMAIN profile.formats : profile.formats[i].query_format = query.format}
  <2>1. S # {} /\ S \in SUBSET Nat
    <3>1. IsSequence(profile.formats)
      BY InputsAreWellFormed DEF TypeOK, profile
    <3> QED BY <1>1, <3>1, Positions DEF HasRule
  <2>2. FirstIndex(S) \in S
    <3> HIDE DEF S
    <3> QED BY <2>1, FirstIndexIsFirst
  <2>3. IsSequence(profile.formats[FirstIndex(S)].requires)
    BY <2>2, InputsAreWellFormed DEF TypeOK, profile
  <2> QED BY <1>1, <2>3 DEF FormatRequires, FormatRule
<1>2. CASE ~ HasRule(query.format)
  BY <1>2 DEF FormatRequires, IsSequence
<1> QED BY <1>1, <1>2

(* Leaving out what is there already loses no requirement. *)
LEMMA WithTriggersHolds ==
  ASSUME TypeOK, NEW counting \in SUBSET DOMAIN profile.meta_triggers
  PROVE  LET all == WithTriggers(counting)
             triggers == profile.meta_triggers
         IN /\ DOMAIN all = 1..Len(all) /\ Len(all) \in Nat
            /\ \A r \in RangeOf(FormatRequires) : \E k \in DOMAIN all : all[k] = r
            /\ \A i \in counting : \E k \in DOMAIN all :
                 all[k] = Requirement(triggers[i].capability, triggers[i].when_meta_present)
<1> DEFINE n == Len(FormatRequires)
           triggers == profile.meta_triggers
           added == [i \in DOMAIN triggers |->
                       Requirement(triggers[i].capability, triggers[i].when_meta_present)]
           asked == FormatRequires \o added
           counted == (1..n) \cup {n + i : i \in counting}
           first == {i \in counted : i <= n \/ \A j \in counted : j < i => asked[j] # asked[i]}
           all == WithTriggers(counting)
<1>1. /\ DOMAIN FormatRequires = 1..n /\ n \in Nat
      /\ DOMAIN triggers = 1..Len(triggers) /\ Len(triggers) \in Nat
  <2>1. IsSequence(triggers)
    BY InputsAreWellFormed DEF TypeOK, profile
  <2> QED BY <2>1, FormatRequiresType, Positions
<1>2. all = ItemsAt(asked, first)
  BY DEF WithTriggers
<1>3. /\ \A i \in 1..n : asked[i] = FormatRequires[i]
      /\ \A i \in DOMAIN triggers : asked[n + i] = added[i]
  <2> DEFINE T == RangeOf(FormatRequires) \cup RangeOf(added)
  <2>1. FormatRequires \in Seq(T)
    <3>1. FormatRequires \in Seq({FormatRequires[i] : i \in DOMAIN FormatRequires})
      BY FormatRequiresType DEF IsSequence
    <3>2. FormatRequires = [i \in 1..n |-> FormatRequires[i]]
      BY <3>1
    <3>3. FormatRequires \in [1..n -> T]
      BY <1>1, <3>2 DEF RangeOf
    <3> HIDE DEF T, n
    <3> QED BY <1>1, <3>3, FunctionIsSequence
  <2>2. added \in Seq(T) /\ Len(added) = Len(triggers)
    <3>1. added \in [1..Len(triggers) -> T]
      BY <1>1 DEF RangeOf
    <3> HIDE DEF T, added
    <3> QED BY <1>1, <3>1, FunctionIsSequence
  <2> HIDE DEF T, added
  <2> QED BY <1>1, <2>1, <2>2
<1>4. counted \in SUBSET (1..(n + Len(triggers)))
  BY <1>1
<1>5. first \in SUBSET (1..(n + Len(triggers))) /\ n + Len(triggers) \in Nat
  BY <1>1, <1>4
<1>a. /\ DOMAIN all = 1..Len(all) /\ Len(all) \in Nat
      /\ \A x \in first : \E k \in DOMAIN all : all[k] = asked[x]
  <2> DEFINE m == n + Len(triggers)
  <2>1. ArePositions(first)
    BY <1>5 DEF ArePositions
  <2> HIDE DEF asked, first, all, m
  <2> QED BY <1>2, <2>1, ItemsAtPicks
<1>6. ASSUME NEW i \in counted
      PROVE  \E k \in DOMAIN all : all[k] = asked[i]
  <2> DEFINE Same == {j \in counted : asked[j] = asked[i]}
  <2>0. \A x \in counted : x \in Nat
    BY <1>1, <1>4
  <2> HIDE DEF asked, counted, first
  <2>1. Same \in SUBSET Nat /\ Same # {}
    BY <1>6, <2>0
  <2>2. PICK j \in Same : \A x \in Same : j <= x
    <3> HIDE DEF Same
    <3> QED BY <2>1, SmallestNat
  <2>3. j \in first
    <3> USE DEF first
    <3>1. j \in counted /\ asked[j] = asked[i] /\ j \in Nat
      BY <2>1, <2>2
    <3>2. ASSUME NEW x \in counted, x < j PROVE asked[x] # asked[j]
      <4>1. x \in Nat
        BY <1>1, <1>4
      <4> QED BY <2>2, <3>1, <3>2, <4>1
    <3> QED BY <3>1, <3>2
  <2>4. asked[j] = asked[i]
    BY <2>2
  <2> HIDE DEF all, Same
  <2> QED BY <1>a, <2>3, <2>4
<1>8. \A r \in RangeOf(FormatRequires) : \E k \in DOMAIN all : all[k] = r
  <2> SUFFICES ASSUME NEW i \in 1..n
               PROVE  \E k \in DOMAIN all : all[k] = FormatRequires[i]
    BY <1>1 DEF RangeOf
  <2>1. i \in counted
    OBVIOUS
  <2> HIDE DEF asked, counted, all
  <2> QED BY <1>3, <1>6, <2>1
<1>9. ASSUME NEW i \in counting
      PROVE  \E k \in DOMAIN all :
               all[k] = Requirement(triggers[i].capability, triggers[i].when_meta_present)
  <2>1. n + i \in counted /\ added[i] = Requirement(triggers[i].capability, triggers[i].when_meta_present)
    OBVIOUS
  <2>2. asked[n + i] = added[i]
    BY <1>3
  <2> HIDE DEF asked, counted, all, added
  <2> QED BY <1>6, <2>1, <2>2
<1> HIDE DEF all, asked, counted, first, added
<1> QED BY <1>a, <1>8, <1>9 DEF all

(* Everything the verifier insists on is among the requirements. *)
LEMMA DemandsAreRequirements ==
  ASSUME TypeOK, NEW demand \in Demanded
  PROVE  \E k \in DOMAIN Requirements : Requirements[k] = demand
<1> DEFINE counting == {i \in DOMAIN profile.meta_triggers : Insists(profile.meta_triggers[i])}
<1>1. CASE demand \in RangeOf(FormatRequires)
  BY <1>1, WithTriggersHolds DEF Requirements
<1>2. CASE demand \notin RangeOf(FormatRequires)
  <2>1. PICK i \in DOMAIN profile.meta_triggers :
          LET t == profile.meta_triggers[i]
          IN /\ demand = Requirement(t.capability, t.when_meta_present)
             /\ t.when_meta_present \in DOMAIN query.meta
             /\ t.required_flag # None =>
                  /\ t.required_flag \in DOMAIN query.meta
                  /\ query.meta[t.required_flag] = Flag(TRUE)
    BY <1>2 DEF Demanded, RangeOf
  <2>2. i \in counting
    BY <2>1 DEF Insists, Fires, TriggerIsRequired
  <2>3. counting \in SUBSET DOMAIN profile.meta_triggers
    OBVIOUS
  <2>4. Requirements = WithTriggers(counting)
    BY DEF Requirements
  <2> HIDE DEF counting
  <2> QED BY <2>1, <2>2, <2>3, <2>4, WithTriggersHolds
<1> QED BY <1>1, <1>2

LEMMA RequirementsShape ==
  ASSUME TypeOK
  PROVE  /\ DOMAIN Requirements = 1..Len(Requirements) /\ Len(Requirements) \in Nat
         /\ DOMAIN ApplicableCapabilities = 1..Len(ApplicableCapabilities)
         /\ Len(ApplicableCapabilities) \in Nat
BY WithTriggersHolds DEF Requirements, ApplicableCapabilities

-----------------------------------------------------------------------------
(* Capabilities. *)

(* The lists the choice walks over are sequences of values. *)
LEMMA Lists ==
  ASSUME TypeOK, NEW requirement
  PROVE  /\ DOMAIN Held(requirement.capability) \in SUBSET Nat
         /\ DOMAIN Requested(requirement) = 1..Len(Requested(requirement))
         /\ Len(Requested(requirement)) \in Nat
         /\ \A e \in DOMAIN Requested(requirement) :
              LET entry == Requested(requirement)[e]
              IN Is(entry, "object") => \A key \in DOMAIN entry.members : IsPlain(entry.members[key])
<1>1. DOMAIN Held(requirement.capability) \in SUBSET Nat
  <2>1. CASE requirement.capability \in DOMAIN profile.capabilities
    <3>1. IsSequence(profile.capabilities[requirement.capability])
      BY <2>1, InputsAreWellFormed DEF TypeOK, profile
    <3> QED BY <2>1, <3>1, Positions DEF Held
  <2>2. CASE requirement.capability \notin DOMAIN profile.capabilities
    BY <2>2 DEF Held
  <2> QED BY <2>1, <2>2
<1>2. CASE Requested(requirement) = << >>
  BY <1>1, <1>2
<1>3. CASE Requested(requirement) # << >>
  <2>1. /\ requirement.from_meta \in DOMAIN query.meta
        /\ Is(query.meta[requirement.from_meta], "array")
        /\ Requested(requirement) = query.meta[requirement.from_meta].items
    BY <1>3 DEF Requested
  <2>2. IsJson(query.meta[requirement.from_meta])
    BY <2>1, InputsAreWellFormed DEF TypeOK, query
  <2>3. /\ IsSequence(Requested(requirement))
        /\ \A e \in DOMAIN Requested(requirement) :
              LET entry == Requested(requirement)[e]
              IN Is(entry, "object") => \A key \in DOMAIN entry.members : IsPlain(entry.members[key])
    BY <2>1, <2>2 DEF IsJson
  <2> QED BY <1>1, <2>3, Positions
<1> QED BY <1>2, <1>3

LEMMA SatisfiesIsAgrees ==
  ASSUME NEW held, NEW entry,
         Is(entry, "object") => \A key \in DOMAIN entry.members : IsPlain(entry.members[key])
  PROVE  Satisfies(held, entry) <=> Agrees(held, entry)
<1>1. CASE Is(entry, "object") /\ "system" \in DOMAIN entry.members
  <2>1. IsText(entry.members["system"], held.system) <=> entry.members["system"] = Str(held.system)
    <3>1. IsPlain(entry.members["system"])
      BY <1>1
    <3>2. ASSUME IsText(entry.members["system"], held.system)
          PROVE  entry.members["system"] = Str(held.system)
      BY <3>1, <3>2 DEF IsText, IsPlain, Is
    <3>3. ASSUME entry.members["system"] = Str(held.system)
          PROVE  IsText(entry.members["system"], held.system)
      BY <3>1, <3>3 DEF IsText, IsPlain, Str, Is
    <3> QED BY <3>2, <3>3
  <2> QED BY <1>1, <2>1 DEF Satisfies, Agrees
<1>2. CASE ~ (Is(entry, "object") /\ "system" \in DOMAIN entry.members)
  BY <1>2 DEF Satisfies, Agrees
<1> QED BY <1>1, <1>2

(* The capability chosen is held, and agrees with the first of the verifier's *)
(* entries that any capability held agrees with.                              *)
LEMMA CapabilityIsPreferred ==
  ASSUME TypeOK, NEW requirement, CapabilityFor(requirement) # None
  PROVE  LET held == Held(requirement.capability)
             asked == Requested(requirement)
         IN \E e \in DOMAIN asked :
              /\ CapabilityFor(requirement) \in RangeOf(held)
              /\ Agrees(CapabilityFor(requirement), asked[e])
              /\ \A earlier \in 1..(e - 1), other \in RangeOf(held) : ~ Agrees(other, asked[earlier])
<1> DEFINE held == Held(requirement.capability)
           asked == Requested(requirement)
           able == {e \in DOMAIN asked : \E c \in DOMAIN held : Satisfies(held[c], asked[e])}
           e == FirstIndex(able)
           fitting == {c \in DOMAIN held : Satisfies(held[c], asked[e])}
<1>1. /\ DOMAIN held \in SUBSET Nat
      /\ DOMAIN asked = 1..Len(asked) /\ Len(asked) \in Nat
      /\ \A x, i : i \in DOMAIN asked => (Satisfies(x, asked[i]) <=> Agrees(x, asked[i]))
  BY Lists, SatisfiesIsAgrees
<1>2. able # {} /\ CapabilityFor(requirement) = held[FirstIndex(fitting)]
  BY DEF CapabilityFor
<1>3. able \in SUBSET Nat
  BY <1>1
<1>4. e \in able /\ \A i \in able : e <= i
  <2> HIDE DEF able
  <2> QED BY <1>2, <1>3, FirstIndexIsFirst
<1>5. fitting # {} /\ fitting \in SUBSET Nat
  <2>1. \E c \in DOMAIN held : Satisfies(held[c], asked[e])
    BY <1>4
  <2> HIDE DEF e, held, asked
  <2> QED BY <1>1, <2>1
<1>6. FirstIndex(fitting) \in fitting
  <2> HIDE DEF fitting
  <2> QED BY <1>5, FirstIndexIsFirst
<1>7. /\ e \in DOMAIN asked
      /\ held[FirstIndex(fitting)] \in RangeOf(held)
      /\ Agrees(held[FirstIndex(fitting)], asked[e])
  <2>1. e \in DOMAIN asked
    BY <1>4
  <2> HIDE DEF e, held, asked
  <2> QED BY <1>1, <1>6, <2>1 DEF RangeOf
<1>8. ASSUME NEW earlier \in 1..(e - 1), NEW other \in RangeOf(held)
      PROVE  ~ Agrees(other, asked[earlier])
  <2>1. earlier \in DOMAIN asked /\ earlier \notin able
    <3> HIDE DEF able, e, asked
    <3> QED BY <1>1, <1>3, <1>4, <1>7
  <2>2. PICK c \in DOMAIN held : other = held[c]
    BY DEF RangeOf
  <2>3. ~ Satisfies(held[c], asked[earlier])
    BY <2>1
  <2> HIDE DEF able, e, held, asked
  <2> QED BY <1>1, <2>1, <2>2, <2>3
<1> HIDE DEF e, held, asked, fitting
<1> QED BY <1>2, <1>7, <1>8 DEF held, asked

-----------------------------------------------------------------------------
(* What each phase has established.  Every conjunct speaks of the input alone *)
(* and so stays true once a check has passed; `chosen` lists the capabilities *)
(* of the requirements before `at`, and `resolved` is what resolve makes.     *)

TransformPasses ==
  IF query.format = "zkp_req" THEN AnswersZkpReq ELSE ~ (IsNymAuth /\ DisclosesNymAuthSecrets)

MetBefore(n) == \A k \in DOMAIN Requirements : k < n => CapabilityFor(Requirements[k]) # None

RulesMetBefore(n) == \A k \in DOMAIN profile.meta_rules : k < n => MetaMatches(profile.meta_rules[k])

ChosenInOrder ==
  /\ DOMAIN chosen \subseteq DOMAIN ApplicableCapabilities
  /\ \A n \in DOMAIN chosen :
       chosen[n] = CapabilityFor(ApplicableCapabilities[n]) /\ chosen[n] # None

Report ==
  [claims |-> ReportedClaims, capabilities |-> chosen,
   zkp_req |-> IF query.format = "zkp_req" THEN ZkpReqSelection ELSE None,
   meta |-> {key \in DOMAIN query.meta : AsText(query.meta[key]) # None}]

PInv ==
  /\ phase \in {"require", "meta", "claims"} \/ matches => TransformPasses
  /\ phase = "require" => MetBefore(at)
  /\ phase \in {"meta", "claims"} \/ matches => \A k \in DOMAIN Requirements : CapabilityFor(Requirements[k]) # None
  /\ phase = "meta" => RulesMetBefore(at)
  /\ phase = "claims" \/ matches => \A k \in DOMAIN profile.meta_rules : MetaMatches(profile.meta_rules[k])
  /\ matches => \A i \in DOMAIN query.claims : ClaimIsHeld(query.claims[i])
  /\ phase \in {"meta", "claims"} => chosen = << >>
  /\ phase = "claims" => at = 1
  /\ phase = "report" => /\ ChosenInOrder /\ chosen \in Seq({chosen[n] : n \in DOMAIN chosen})
                         /\ at <= Len(ApplicableCapabilities) => Len(chosen) = at - 1
  /\ phase # "over" => resolved = None
  /\ matches => phase \in {"report", "over"}
  /\ phase = "report" => matches
  /\ resolved # None => matches /\ ChosenInOrder /\ resolved = Report

IInv == TypeOK /\ PInv

LEMMA InitIInv == Init => IInv
<1> SUFFICES ASSUME Init PROVE IInv
  OBVIOUS
<1>1. phase = "format" /\ at = 1 /\ matches = FALSE /\ resolved = None /\ input \in Inputs
  BY DEF Init
<1>2. TypeOK
  <2>1. matches \in BOOLEAN
    BY <1>1
  <2>2. at \in Nat \ {0}
    BY <1>1
  <2> QED BY <1>1, <2>1, <2>2 DEF TypeOK
<1>3. PInv
  BY <1>1 DEF PInv
<1> QED BY <1>2, <1>3 DEF IInv

(* What the checks decide, and what resolve reports, depends on the input     *)
(* alone, and no step changes it.                                             *)
LEMMA SameInput ==
  ASSUME input' = input
  PROVE  /\ query' = query /\ profile' = profile /\ stored' = stored
         /\ Requirements' = Requirements
         /\ ApplicableCapabilities' = ApplicableCapabilities
         /\ \A r : CapabilityFor(r)' = CapabilityFor(r)
         /\ \A rule : MetaMatches(rule)' <=> MetaMatches(rule)
         /\ \A claim : ClaimIsHeld(claim)' <=> ClaimIsHeld(claim)
         /\ ZkpReqSelection' = ZkpReqSelection
         /\ TransformPasses' <=> TransformPasses
         /\ ReportedClaims' = ReportedClaims
<1>1. query' = query /\ profile' = profile /\ stored' = stored
  BY DEF query, profile, stored
<1>2. /\ \A format : HasRule(format)' <=> HasRule(format)
      /\ \A format : FormatRule(format)' = FormatRule(format)
      /\ \A family : Held(family)' = Held(family)
      /\ \A r : Requested(r)' = Requested(r)
  BY <1>1 DEF HasRule, FormatRule, Held, Requested
<1>3. FormatRequires' = FormatRequires
  BY <1>1, <1>2 DEF FormatRequires
<1>4. /\ \A trigger : Fires(trigger)' <=> Fires(trigger)
      /\ \A trigger : Insists(trigger)' <=> Insists(trigger)
      /\ \A counting : WithTriggers(counting)' = WithTriggers(counting)
  BY <1>1, <1>3 DEF Fires, Insists, TriggerIsRequired, WithTriggers
<1>5. Requirements' = Requirements /\ ApplicableCapabilities' = ApplicableCapabilities
  BY <1>1, <1>4 DEF Requirements, ApplicableCapabilities
<1>6. \A r : CapabilityFor(r)' = CapabilityFor(r)
  BY <1>2 DEF CapabilityFor
<1>7. \A rule : MetaMatches(rule)' <=> MetaMatches(rule)
  BY <1>1 DEF MetaMatches, CredentialField
<1>8. \A claim : ClaimIsHeld(claim)' <=> ClaimIsHeld(claim)
  BY <1>1 DEF ClaimIsHeld, ClaimAt
<1>9. ZkpReqSelection' = ZkpReqSelection
  <2>1. \A text, plan : CapabilitiesServe(text, plan)' <=> CapabilitiesServe(text, plan)
    BY <1>2 DEF CapabilitiesServe
  <2>2. \A capability, plan : CircuitServes(capability, plan)' <=> CircuitServes(capability, plan)
    BY <2>1 DEF CircuitServes
  <2> QED BY <1>1, <1>2, <2>2 DEF ZkpReqSelection
<1>10. TransformPasses' <=> TransformPasses
  BY <1>1, <1>9 DEF TransformPasses, AnswersZkpReq, IsNymAuth, DisclosesNymAuthSecrets
<1>11. ReportedClaims' = ReportedClaims
  BY <1>1, <1>9 DEF ReportedClaims
<1> QED BY <1>1, <1>5, <1>6, <1>7, <1>8, <1>9, <1>10, <1>11

LEMMA NextTypeOK == TypeOK /\ [Next]_vars => TypeOK'
<1> SUFFICES ASSUME TypeOK, [Next]_vars PROVE TypeOK'
  OBVIOUS
<1>1. input' = input
  BY DEF Next, vars, CheckFormat, CheckTransform, CheckRequirement, RequirementsMet, CheckMeta,
         MetaMet, SelectClaims, ReportCapability, Resolve, Done, Refuse, Proceed
<1>2. /\ phase' \in {phase, "transform", "require", "meta", "claims", "report", "over"}
      /\ at' \in {at, 1, at + 1, Len(ApplicableCapabilities) + 1}
  BY DEF Next, vars, CheckFormat, CheckTransform, CheckRequirement, RequirementsMet, CheckMeta,
         MetaMet, SelectClaims, ReportCapability, Resolve, Done, Refuse, Proceed
<1>3. matches' = matches \/ matches' = FALSE \/ matches' = TRUE
  BY DEF Next, vars, CheckFormat, CheckTransform, CheckRequirement, RequirementsMet, CheckMeta,
         MetaMet, SelectClaims, ReportCapability, Resolve, Done, Refuse, Proceed
<1>4. matches' \in BOOLEAN
  BY <1>3 DEF TypeOK
<1>5. at' \in Nat \ {0}
  BY <1>2, RequirementsShape DEF TypeOK
<1> QED BY <1>1, <1>2, <1>4, <1>5 DEF TypeOK

(* A refusal keeps nothing. *)
LEMMA RefuseKeepsPInv ==
  ASSUME PInv, phase # "over", Refuse
  PROVE  PInv'
<1>1. phase' = "over" /\ ~ matches' /\ resolved' = None
  BY DEF Refuse, PInv
<1> QED BY <1>1 DEF PInv

LEMMA NextPInv == IInv /\ [Next]_vars => PInv'
<1> SUFFICES ASSUME TypeOK, PInv, [Next]_vars PROVE PInv'
  BY DEF IInv
<1>a. Refuse /\ phase # "over" => PInv'
  BY RefuseKeepsPInv
<1>b. at \in Nat \ {0}
  BY DEF TypeOK
<1>1. CASE CheckFormat
  <2>1. CASE ~ Refuse
    <3>1. phase' = "transform" /\ matches' = matches /\ resolved' = resolved /\ phase = "format"
      BY <1>1, <2>1 DEF CheckFormat, Proceed
    <3>2. resolved = None /\ ~ matches
      BY <3>1 DEF PInv
    <3> QED BY <3>1, <3>2 DEF PInv
  <2> QED BY <1>1, <1>a, <2>1 DEF CheckFormat
<1>c. input' = input =>
        /\ Requirements' = Requirements
        /\ \A n : MetBefore(n)' <=> MetBefore(n)
        /\ \A n : RulesMetBefore(n)' <=> RulesMetBefore(n)
        /\ TransformPasses' <=> TransformPasses
  BY SameInput DEF MetBefore, RulesMetBefore
<1>2. CASE CheckTransform
  <2>1. CASE ~ Refuse
    <3>1. /\ phase' = "require" /\ phase = "transform" /\ at' = 1 /\ matches' = matches
          /\ resolved' = resolved /\ input' = input /\ TransformPasses
      BY <1>2, <2>1 DEF CheckTransform, Proceed, TransformPasses
    <3>2. resolved = None /\ ~ matches
      BY <3>1 DEF PInv
    <3>3. MetBefore(1)
      BY RequirementsShape DEF MetBefore
    <3> QED BY <1>c, <3>1, <3>2, <3>3 DEF PInv
  <2> QED BY <1>2, <1>a, <2>1 DEF CheckTransform
<1>3. CASE CheckRequirement
  <2>1. CASE ~ Refuse
    <3>1. /\ phase' = "require" /\ phase = "require" /\ at' = at + 1 /\ matches' = matches
          /\ resolved' = resolved /\ input' = input /\ CapabilityFor(Requirements[at]) # None
      BY <1>3, <2>1 DEF CheckRequirement
    <3>2. resolved = None /\ ~ matches /\ TransformPasses /\ MetBefore(at)
      BY <3>1 DEF PInv
    <3>3. MetBefore(at + 1)
      BY <1>b, <3>1, <3>2, RequirementsShape DEF MetBefore
    <3> QED BY <1>c, <3>1, <3>2, <3>3 DEF PInv
  <2> QED BY <1>3, <1>a, <2>1 DEF CheckRequirement
<1>4. CASE RequirementsMet
  <2>1. /\ phase' = "meta" /\ phase = "require" /\ at' = 1 /\ matches' = matches /\ chosen' = << >>
        /\ resolved' = resolved /\ input' = input /\ at > Len(Requirements)
    BY <1>4 DEF RequirementsMet, Proceed
  <2>2. resolved = None /\ ~ matches /\ TransformPasses /\ MetBefore(at)
    BY <2>1 DEF PInv
  <2>3. \A k \in DOMAIN Requirements : CapabilityFor(Requirements[k]) # None
    BY <1>b, <2>1, <2>2, RequirementsShape DEF MetBefore
  <2>4. (\A k \in DOMAIN Requirements : CapabilityFor(Requirements[k]) # None)'
    BY <2>1, <2>3, SameInput
  <2>5. RulesMetBefore(1)
    <3>1. IsSequence(profile.meta_rules)
      BY InputsAreWellFormed DEF TypeOK, profile
    <3> QED BY <3>1, Positions DEF RulesMetBefore
  <2> QED BY <1>c, <2>1, <2>2, <2>4, <2>5 DEF PInv
<1>d. input' = input =>
        /\ (\A k \in DOMAIN Requirements : CapabilityFor(Requirements[k]) # None)'
             <=> \A k \in DOMAIN Requirements : CapabilityFor(Requirements[k]) # None
        /\ (\A k \in DOMAIN profile.meta_rules : MetaMatches(profile.meta_rules[k]))'
             <=> \A k \in DOMAIN profile.meta_rules : MetaMatches(profile.meta_rules[k])
        /\ (\A i \in DOMAIN query.claims : ClaimIsHeld(query.claims[i]))'
             <=> \A i \in DOMAIN query.claims : ClaimIsHeld(query.claims[i])
  BY SameInput
<1>e. DOMAIN profile.meta_rules = 1..Len(profile.meta_rules) /\ Len(profile.meta_rules) \in Nat
  <2>1. IsSequence(profile.meta_rules)
    BY InputsAreWellFormed DEF TypeOK, profile
  <2> QED BY <2>1, Positions
<1>5. CASE CheckMeta
  <2>1. CASE ~ Refuse
    <3>1. /\ phase' = "meta" /\ phase = "meta" /\ at' = at + 1 /\ matches' = matches /\ chosen' = chosen
          /\ resolved' = resolved /\ input' = input /\ MetaMatches(profile.meta_rules[at])
      BY <1>5, <2>1 DEF CheckMeta
    <3>2. /\ resolved = None /\ ~ matches /\ TransformPasses /\ RulesMetBefore(at) /\ chosen = << >>
          /\ \A k \in DOMAIN Requirements : CapabilityFor(Requirements[k]) # None
      BY <3>1 DEF PInv
    <3>3. RulesMetBefore(at + 1)
      BY <1>b, <1>e, <3>1, <3>2 DEF RulesMetBefore
    <3> QED BY <1>c, <1>d, <3>1, <3>2, <3>3 DEF PInv
  <2> QED BY <1>5, <1>a, <2>1 DEF CheckMeta
<1>6. CASE MetaMet
  <2>1. /\ phase' = "claims" /\ phase = "meta" /\ at' = 1 /\ matches' = matches /\ chosen' = << >>
        /\ resolved' = resolved /\ input' = input /\ at > Len(profile.meta_rules)
    BY <1>6 DEF MetaMet, Proceed
  <2>2. /\ resolved = None /\ ~ matches /\ TransformPasses /\ RulesMetBefore(at)
        /\ \A k \in DOMAIN Requirements : CapabilityFor(Requirements[k]) # None
    BY <2>1 DEF PInv
  <2>3. \A k \in DOMAIN profile.meta_rules : MetaMatches(profile.meta_rules[k])
    BY <1>b, <1>e, <2>1, <2>2 DEF RulesMetBefore
  <2> QED BY <1>c, <1>d, <2>1, <2>2, <2>3 DEF PInv
<1>7. CASE SelectClaims
  <2>1. CASE ~ Refuse
    <3>1. /\ phase' = "report" /\ phase = "claims" /\ at' = at /\ matches' /\ chosen' = chosen
          /\ resolved' = resolved /\ input' = input
          /\ \A i \in DOMAIN query.claims : ClaimIsHeld(query.claims[i])
      BY <1>7, <2>1 DEF SelectClaims
    <3>2. /\ resolved = None /\ ~ matches /\ TransformPasses /\ chosen = << >> /\ at = 1
          /\ \A k \in DOMAIN Requirements : CapabilityFor(Requirements[k]) # None
          /\ \A k \in DOMAIN profile.meta_rules : MetaMatches(profile.meta_rules[k])
      BY <3>1 DEF PInv
    <3>3. /\ ChosenInOrder' /\ (chosen \in Seq({chosen[n] : n \in DOMAIN chosen}))'
          /\ Len(chosen') = at' - 1
      BY <3>1, <3>2 DEF ChosenInOrder
    <3> QED BY <1>c, <1>d, <3>1, <3>2, <3>3 DEF PInv
  <2> QED BY <1>7, <1>a, <2>1 DEF SelectClaims
<1>8. CASE ReportCapability
  <2> DEFINE found == CapabilityFor(ApplicableCapabilities[at])
  <2>1. /\ phase' = "report" /\ phase = "report" /\ resolved = None /\ resolved' = None
        /\ matches' = matches /\ input' = input /\ at <= Len(ApplicableCapabilities)
    BY <1>8 DEF ReportCapability
  <2>2. ApplicableCapabilities' = ApplicableCapabilities /\ \A r : CapabilityFor(r)' = CapabilityFor(r)
    BY <2>1, SameInput
  <2>3. CASE found = None
    <3>1. at' = Len(ApplicableCapabilities) + 1 /\ chosen' = << >>
      BY <1>8, <2>3 DEF ReportCapability
    <3>2. /\ ChosenInOrder' /\ (chosen \in Seq({chosen[n] : n \in DOMAIN chosen}))'
          /\ ~ (at' <= Len(ApplicableCapabilities))
      BY <3>1, RequirementsShape DEF ChosenInOrder
    <3> QED BY <1>c, <1>d, <2>1, <2>2, <3>2 DEF PInv
  <2>4. CASE found # None
    <3>1. at' = at + 1 /\ chosen' = Append(chosen, found)
      BY <1>8, <2>4 DEF ReportCapability
    <3>2. /\ ChosenInOrder /\ chosen \in Seq({chosen[n] : n \in DOMAIN chosen})
          /\ Len(chosen) = at - 1
      BY <2>1 DEF PInv
    <3> HIDE DEF found
    <3>3. /\ chosen' \in Seq({chosen[n] : n \in DOMAIN chosen} \cup {found})
          /\ DOMAIN chosen = 1..(at - 1) /\ DOMAIN chosen' = 1..at
          /\ \A n \in 1..(at - 1) : chosen'[n] = chosen[n]
          /\ chosen'[at] = found
          /\ Len(chosen') = at
      BY <1>b, <3>1, <3>2
    <3>4. (chosen \in Seq({chosen[n] : n \in DOMAIN chosen}))'
      <4> DEFINE range == {chosen'[n] : n \in DOMAIN chosen'}
      <4>1. chosen' \in [1..at -> range]
        BY <3>3
      <4> HIDE DEF range
      <4> QED BY <1>b, <4>1, FunctionIsSequence DEF range
    <3>5. ChosenInOrder'
      <4>1. at \in DOMAIN ApplicableCapabilities
        BY <1>b, <2>1, RequirementsShape
      <4>2. ASSUME NEW n \in DOMAIN chosen'
            PROVE  /\ n \in DOMAIN ApplicableCapabilities
                   /\ chosen'[n] = CapabilityFor(ApplicableCapabilities[n]) /\ chosen'[n] # None
        <5>1. CASE n = at
          BY <2>4, <3>3, <4>1, <5>1 DEF found
        <5>2. CASE n # at
          <6>1. n \in DOMAIN chosen
            BY <1>b, <3>3, <4>2, <5>2
          <6> QED BY <3>2, <3>3, <6>1 DEF ChosenInOrder
        <5> QED BY <5>1, <5>2
      <4> QED BY <2>2, <4>2 DEF ChosenInOrder
    <3>6. Len(chosen') = at' - 1
      BY <1>b, <3>1, <3>3
    <3> QED BY <1>c, <1>d, <2>1, <3>4, <3>5, <3>6 DEF PInv
  <2> QED BY <2>3, <2>4
<1>9. CASE Resolve
  <2>1. /\ phase' = "over" /\ phase = "report" /\ matches' = matches /\ input' = input
        /\ chosen' = chosen /\ resolved' = Report
    BY <1>9 DEF Resolve, Report
  <2>2. ChosenInOrder' /\ Report' = Report
    BY <2>1, SameInput DEF PInv, ChosenInOrder, Report
  <2> QED BY <1>c, <1>d, <2>1, <2>2 DEF PInv
<1>10. CASE UNCHANGED vars
  <2>1. /\ phase' = phase /\ matches' = matches /\ input' = input /\ at' = at
        /\ chosen' = chosen /\ resolved' = resolved
    BY <1>10 DEF vars
  <2>2. (ChosenInOrder' <=> ChosenInOrder) /\ Report' = Report
    BY <2>1, SameInput DEF ChosenInOrder, Report
  <2>3. ApplicableCapabilities' = ApplicableCapabilities
    BY <2>1, SameInput
  <2> QED BY <1>c, <1>d, <2>1, <2>2, <2>3 DEF PInv
<1> QED
  BY <1>1, <1>2, <1>3, <1>4, <1>5, <1>6, <1>7, <1>8, <1>9, <1>10 DEF Next, Done

LEMMA IInvHolds == Spec => []IInv
<1>1. IInv /\ [Next]_vars => IInv'
  BY NextTypeOK, NextPInv DEF IInv
<1> QED BY <1>1, InitIInv, PTL DEF Spec

-----------------------------------------------------------------------------
(* Proof systems. *)

LEMMA MatchedIsAble == IInv => OfferedMeansAble
<1> SUFFICES ASSUME IInv, matches, NEW demand \in Demanded
             PROVE  \E held \in RangeOf(Held(demand.capability)), entry \in RangeOf(Requested(demand)) :
                      Agrees(held, entry)
  BY DEF OfferedMeansAble
<1>1. PICK k \in DOMAIN Requirements : Requirements[k] = demand
  BY DemandsAreRequirements DEF IInv
<1>2. CapabilityFor(demand) # None
  BY <1>1 DEF IInv, PInv
<1>3. PICK e \in DOMAIN Requested(demand) :
        /\ CapabilityFor(demand) \in RangeOf(Held(demand.capability))
        /\ Agrees(CapabilityFor(demand), Requested(demand)[e])
  BY <1>2, CapabilityIsPreferred DEF IInv
<1> QED BY <1>3 DEF RangeOf

(* An entry is offered only if the wallet holds, for everything the verifier *)
(* insists on, a capability that agrees with one of its entries: whatever    *)
(* the formats, the triggers and the order they repeat each other in.        *)
THEOREM OfferedIsAble == Spec => []OfferedMeansAble
BY IInvHolds, MatchedIsAble, PTL

LEMMA ReportedIsPreferred == IInv => VerifiersPreference
<1> SUFFICES ASSUME IInv, resolved # None, NEW n \in DOMAIN resolved.capabilities
             PROVE  LET requirement == ApplicableCapabilities[n]
                        asked == Requested(requirement)
                    IN \E e \in DOMAIN asked :
                         /\ Agrees(resolved.capabilities[n], asked[e])
                         /\ \A earlier \in 1..(e - 1), held \in RangeOf(Held(requirement.capability)) :
                              ~ Agrees(held, asked[earlier])
  BY DEF VerifiersPreference
<1>1. resolved.capabilities = chosen /\ ChosenInOrder
  BY DEF IInv, PInv, Report
<1>2. /\ chosen[n] = CapabilityFor(ApplicableCapabilities[n])
      /\ CapabilityFor(ApplicableCapabilities[n]) # None
  BY <1>1 DEF ChosenInOrder
<1> QED BY <1>1, <1>2, CapabilityIsPreferred DEF IInv

(* The system reported for a requirement is of the first entry, in the       *)
(* verifier's order, that the wallet can satisfy at all.                     *)
THEOREM PreferenceIsKept == Spec => []VerifiersPreference
BY IInvHolds, ReportedIsPreferred, PTL

-----------------------------------------------------------------------------
(* Secrets. *)

(* The keys reported for a claim are keys of its pointer. *)
LEMMA KeysAreOfThePath ==
  ASSUME NEW path, IsSequence(path), \A k \in DOMAIN path : IsPlain(path[k]),
         NEW k \in DOMAIN KeysOf(path)
  PROVE  \E m \in DOMAIN path : KeysOf(path)[k] = path[m] /\ path[m] = Str(path[m].text)
<1> DEFINE texts == {j \in DOMAIN path : Is(path[j], "string")}
<1>1. ArePositions(texts)
  BY Positions DEF ArePositions
<1>2. \A m \in texts : m \in DOMAIN path /\ path[m] = Str(path[m].text)
  BY DEF IsPlain, Is
<1>3. ItemsAt(path, texts) = KeysOf(path)
  BY DEF KeysOf
<1> HIDE DEF texts
<1>4. \E m \in texts : ItemsAt(path, texts)[k] = path[m]
  BY <1>1, <1>3, ItemsAtPicks
<1> QED BY <1>2, <1>3, <1>4

LEMMA ReportedKeepsSecrets == IInv => NymSecretsStay
<1> SUFFICES ASSUME IInv, resolved # None, IsNymAuth, NEW c \in Disclosed,
                    NEW key \in RangeOf(c.path), key \in Undisclosable
             PROVE  FALSE
  BY DEF NymSecretsStay
<1>1. resolved = Report /\ TransformPasses
  BY DEF IInv, PInv
<1>2. CASE query.format = "zkp_req"
  <2>1. resolved.zkp_req # None
    BY <1>1, <1>2 DEF TransformPasses, AnswersZkpReq, Report
  <2> QED BY <2>1 DEF Disclosed
<1>3. CASE query.format # "zkp_req"
  <2>1. ~ DisclosesNymAuthSecrets
    BY <1>1, <1>3 DEF TransformPasses
  <2>2. resolved.claims = [i \in DOMAIN query.claims |-> KeysOf(query.claims[i].path)]
    BY <1>1, <1>3 DEF Report, ReportedClaims
  <2>3. resolved.claims # << >> /\ resolved.zkp_req = None
    <3>1. query.claims # << >> /\ IsSequence(query.claims)
      BY <2>1, InputsAreWellFormed DEF DisclosesNymAuthSecrets, IInv, TypeOK, query
    <3>2. DOMAIN query.claims # {}
      BY <3>1 DEF IsSequence
    <3> QED BY <1>1, <1>3, <2>2, <3>2 DEF Report
  <2>4. PICK i \in DOMAIN query.claims :
          c.path = [k \in DOMAIN KeysOf(query.claims[i].path) |-> KeysOf(query.claims[i].path)[k].text]
    <3>1. c.path \in {[k \in DOMAIN keys |-> keys[k].text] : keys \in RangeOf(resolved.claims)}
      BY <2>3 DEF Disclosed
    <3>2. PICK keys \in RangeOf(resolved.claims) : c.path = [k \in DOMAIN keys |-> keys[k].text]
      BY <3>1
    <3>3. PICK i \in DOMAIN query.claims : keys = KeysOf(query.claims[i].path)
      BY <2>2, <3>2 DEF RangeOf
    <3> QED BY <3>2, <3>3
  <2>5. PICK k \in DOMAIN KeysOf(query.claims[i].path) : key = KeysOf(query.claims[i].path)[k].text
    BY <2>4 DEF RangeOf
  <2>6. PICK m \in DOMAIN query.claims[i].path :
          /\ KeysOf(query.claims[i].path)[k] = query.claims[i].path[m]
          /\ query.claims[i].path[m] = Str(query.claims[i].path[m].text)
    <3>1. IsSequence(query.claims[i].path) /\ \A j \in DOMAIN query.claims[i].path : IsPlain(query.claims[i].path[j])
      BY InputsAreWellFormed DEF IInv, TypeOK, query
    <3> QED BY <3>1, KeysAreOfThePath
  <2>7. query.claims[i].path[m] = Str(key)
    BY <2>5, <2>6
  <2> QED BY <2>1, <2>7 DEF DisclosesNymAuthSecrets
<1> QED BY <1>2, <1>3

(* No match discloses a secret of a nym_auth attestation: through no format,  *)
(* and by no pointer, however its keys, wildcards and numbers are mixed.      *)
THEOREM SecretsStay == Spec => []NymSecretsStay
BY IInvHolds, ReportedKeepsSecrets, PTL

-----------------------------------------------------------------------------
(* Circuits. *)

(* A plan that is not refused is the plan of its query, whose meta is whole. *)
LEMMA ValidPlan ==
  ASSUME NEW q, NEW metadata, ~ IsInvalid(Plan(q, metadata))
  PROVE  LET plan == Plan(q, metadata)
         IN /\ plan.raw = q /\ IsMeta(q.meta)
            /\ plan.source_format = q.meta.source_format.text
            /\ plan.meta_doctype = TextOf(q.meta.doctype_value)
            /\ plan.meta_schema_id = TextOf(q.meta.schema_id_value)
<1>1. \A code : IsInvalid(Invalid(code))
  BY DEF IsInvalid, Invalid
<1> DEFINE items == ReadItems(q.req)
           filter == IF metadata = None THEN NoFilter ELSE ReadSystemFilter(metadata)
<1>2. IsMeta(q.meta) /\ ~ IsInvalid(items) /\ ~ IsInvalid(filter)
      /\ Plan(q, metadata) = PlanOf(q, items.functions, filter)
  <2> HIDE DEF items, filter
  <2> QED BY <1>1 DEF Plan, items, filter
<1> HIDE DEF items, filter
<1> QED BY <1>2 DEF PlanOf

(* No code of a rule is None: a plan nothing is wrong with is over a format   *)
(* that has its type of attestation and no other.                             *)
LEMMA SatisfiableHasItsType ==
  ASSUME NEW plan, Unsatisfiable(plan) = None
  PROVE  plan.source_format \in {"mso_mdoc", "bbs_cd"} /\ HasItsType(plan)
<1>1. None # "source_format_unsupported" /\ None # "meta_type_value_invalid"
  BY NoneIsNoCode
<1>2. plan.source_format \in {"mso_mdoc", "bbs_cd"}
  BY <1>1 DEF Unsatisfiable
<1> QED BY <1>1, <1>2 DEF Unsatisfiable

(* What is selected: a plan of a raw query of the id, and a circuit held that *)
(* serves it.                                                                 *)
LEMMA SelectionServes ==
  ASSUME TypeOK, ZkpReqSelection # None
  PROVE  LET plan == ZkpReqSelection.plan
             capability == ZkpReqSelection.capability
         IN /\ \E i \in DOMAIN input.raw : IsText(input.raw[i].id, query.id) /\ plan.raw = input.raw[i]
            /\ IsMeta(plan.raw.meta)
            /\ plan.source_format = plan.raw.meta.source_format.text
            /\ plan.meta_doctype = TextOf(plan.raw.meta.doctype_value)
            /\ plan.meta_schema_id = TextOf(plan.raw.meta.schema_id_value)
            /\ HasItsType(plan)
            /\ capability \in RangeOf(Held("zkp_req"))
            /\ CircuitServes(capability, plan)
<1> DEFINE found == {i \in DOMAIN input.raw : IsText(input.raw[i].id, query.id)}
           i == FirstIndex(found)
           plan == Plan(input.raw[i], input.metadata)
           held == Held("zkp_req")
           serving == {c \in DOMAIN held : CircuitServes(held[c], plan)}
<1>1. found \in SUBSET Nat /\ DOMAIN held \in SUBSET Nat
  <2>1. IsSequence(input.raw)
    BY InputsAreWellFormed DEF TypeOK
  <2>2. DOMAIN held \in SUBSET Nat
    <3> PICK r : r = [capability |-> "zkp_req"]
      OBVIOUS
    <3>1. DOMAIN Held(r.capability) \in SUBSET Nat
      BY Lists
    <3> QED BY <3>1
  <2> QED BY <2>1, <2>2, Positions
<1>2. /\ found # {} /\ ~ IsInvalid(plan) /\ Unsatisfiable(plan) = None /\ serving # {}
      /\ ZkpReqSelection = [capability |-> held[FirstIndex(serving)], plan |-> plan]
  BY DEF ZkpReqSelection
<1>3. i \in found
  <2> HIDE DEF found
  <2> QED BY <1>1, <1>2, FirstIndexIsFirst
<1>4. serving \in SUBSET Nat
  BY <1>1
<1>5. FirstIndex(serving) \in serving
  <2> HIDE DEF serving
  <2> QED BY <1>2, <1>4, FirstIndexIsFirst
<1>6. held[FirstIndex(serving)] \in RangeOf(held) /\ CircuitServes(held[FirstIndex(serving)], plan)
  <2> HIDE DEF plan, held
  <2> QED BY <1>5 DEF RangeOf
<1>7. i \in DOMAIN input.raw /\ IsText(input.raw[i].id, query.id)
  BY <1>3
<1>8. /\ plan.raw = input.raw[i] /\ IsMeta(plan.raw.meta)
      /\ plan.source_format = plan.raw.meta.source_format.text
      /\ plan.meta_doctype = TextOf(plan.raw.meta.doctype_value)
      /\ plan.meta_schema_id = TextOf(plan.raw.meta.schema_id_value)
  <2> HIDE DEF i
  <2> QED BY <1>2, ValidPlan
<1>9. HasItsType(plan)
  <2> HIDE DEF plan
  <2> QED BY <1>2, SatisfiableHasItsType
<1> HIDE DEF found, i, plan, held, serving
<1> QED BY <1>2, <1>6, <1>7, <1>8, <1>9 DEF held

LEMMA MatchedCircuitFits == IInv => CircuitFitsAttestation
<1> SUFFICES ASSUME IInv, resolved # None, query.format = "zkp_req" PROVE CircuitFitsAttestation
  BY DEF CircuitFitsAttestation
<1>1. resolved = Report /\ matches /\ TransformPasses
  BY DEF IInv, PInv
<1>2. /\ ZkpReqSelection # None /\ ZkpReqSelection.plan.source_format = stored.format
      /\ resolved.zkp_req = ZkpReqSelection /\ resolved.claims = << >>
  BY <1>1 DEF TransformPasses, AnswersZkpReq, Report, ReportedClaims
<1> DEFINE plan == ZkpReqSelection.plan
           capability == ZkpReqSelection.capability
<1>3. PICK i \in DOMAIN input.raw : IsText(input.raw[i].id, query.id) /\ plan.raw = input.raw[i]
  BY <1>2, SelectionServes DEF IInv
<1>4. /\ IsMeta(plan.raw.meta)
      /\ plan.source_format = plan.raw.meta.source_format.text
      /\ plan.meta_doctype = TextOf(plan.raw.meta.doctype_value)
      /\ HasItsType(plan)
      /\ capability \in RangeOf(Held("zkp_req"))
      /\ CircuitServes(capability, plan)
  BY <1>2, SelectionServes DEF IInv
<1> HIDE DEF plan, capability
<1>5. /\ plan.system_filter.proof_systems # None => capability.system \in plan.system_filter.proof_systems
      /\ plan.system_filter.system_ids # None => Param(capability, "system_id") \in plan.system_filter.system_ids
  BY <1>4 DEF CircuitServes
<1>6. ASSUME ReadFromOneText, ChecksDoctype, stored.format = "mso_mdoc"
      PROVE  CircuitType(capability) \in {None, stored.doctype}
  <2>1. plan.meta_doctype # None /\ plan.meta_schema_id = None /\ plan.raw.meta.vct_values = None
    BY <1>2, <1>4, <1>6 DEF HasItsType, plan
  <2>2. plan.raw.meta.doctype_value # None /\ plan.meta_doctype = plan.raw.meta.doctype_value.text
    BY <1>4, <2>1 DEF TextOf
  <2>3. "doctype_value" \in DOMAIN query.meta /\ query.meta["doctype_value"] = plan.raw.meta.doctype_value
    BY <1>3, <1>4, <1>6, <2>2 DEF ReadFromOneText, IsMeta
  <2>4. PICK k \in DOMAIN profile.meta_rules :
          /\ profile.meta_rules[k].meta_key = "doctype_value" /\ profile.meta_rules[k].field = "doctype"
          /\ profile.meta_rules[k].op = "eq"
    BY <1>6 DEF ChecksDoctype, RangeOf
  <2>5. MetaMatches(profile.meta_rules[k])
    BY <1>1 DEF IInv, PInv
  <2>6. IsText(query.meta["doctype_value"], stored.doctype)
    BY <2>3, <2>4, <2>5 DEF MetaMatches, CredentialField
  <2>7. plan.meta_doctype = stored.doctype
    BY <2>2, <2>3, <2>6 DEF IsText
  <2>8. RequestedTypes(plan) \subseteq {stored.doctype}
    BY <2>1, <2>7 DEF RequestedTypes
  <2>9. CASE Param(capability, "capabilities") # None
    <3>1. CapabilitiesServe(capability.params["capabilities"], plan)
      BY <1>4, <2>9 DEF CircuitServes
    <3>2. Param(capability, "capabilities") = capability.params["capabilities"]
      BY <2>9 DEF Param
    <3>3. DescriptionOf(capability).credential.type.text \in RequestedTypes(plan)
      BY <3>1, <3>2 DEF CapabilitiesServe, Serves, DescriptionOf
    <3> QED BY <2>8, <2>9, <3>3 DEF CircuitType
  <2>10. CASE Param(capability, "capabilities") = None
    BY <1>4, <2>8, <2>10 DEF CircuitServes, CircuitType
  <2> QED BY <2>9, <2>10
<1> QED BY <1>2, <1>4, <1>5, <1>6 DEF CircuitFitsAttestation, plan, capability

(* What answers a `zkp_req` query is a proof over the format of the very      *)
(* credential offered, by a circuit held that the verifier's lists allow; and *)
(* read from one text, with a profile that compares the doctype, the circuit  *)
(* is one for the type of that credential, though the two are chosen apart.   *)
THEOREM CircuitIsForTheAttestation == Spec => []CircuitFitsAttestation
BY IInvHolds, MatchedCircuitFits, PTL

(* The functions of a readable description have ids of their own.             *)
LEMMA FunctionOfId ==
  ASSUME NEW text \in DOMAIN JsonOf, Readable(JsonOf[text]),
         NEW d \in FunctionsOf(JsonOf[text]), NEW g \in FunctionsOf(JsonOf[text]), d.id.text = g.id.text
  PROVE  d = g
<1> DEFINE functions == JsonOf[text].functions.items
<1>1. IsSequence(functions) /\ \A i \in DOMAIN functions : IsPlain(functions[i].id)
  BY DescriptionsAreJson
<1>2. PICK i \in DOMAIN functions : d = functions[i]
  BY DEF FunctionsOf
<1>3. PICK j \in DOMAIN functions : g = functions[j]
  BY DEF FunctionsOf
<1>4. /\ \A k \in DOMAIN functions : ReadableFunction(functions[k])
      /\ \A k \in DOMAIN functions : \A l \in 1..(k - 1) : functions[l].id # functions[k].id
  BY DEF Readable
<1> HIDE DEF functions
<1>5. \A k \in DOMAIN functions : functions[k].id = Str(functions[k].id.text)
  BY <1>1, <1>4 DEF ReadableFunction, IsFilled, Is, IsPlain
<1>6. functions[i].id = functions[j].id
  BY <1>2, <1>3, <1>5
<1>7. i \in Nat /\ j \in Nat /\ (i < j => i \in 1..(j - 1)) /\ (j < i => j \in 1..(i - 1))
  BY <1>1, Positions
<1>8. i = j
  BY <1>4, <1>6, <1>7
<1> QED BY <1>2, <1>3, <1>8

LEMMA MatchedIsDescribed == IInv => DescribedCircuitProves
<1> SUFFICES ASSUME IInv, resolved # None, query.format = "zkp_req",
                    Param(resolved.zkp_req.capability, "capabilities") # None
             PROVE  LET capability == resolved.zkp_req.capability
                        asked == RangeOf(resolved.zkp_req.plan.functions)
                        declared == RangeOf(DescriptionOf(capability).functions.items)
                    IN /\ {f.function_id : f \in asked} \subseteq {d.id.text : d \in declared}
                       /\ \A d \in declared : d.always = Flag(TRUE) => \E f \in asked : f.function_id = d.id.text
                       /\ \A d \in declared, f \in asked : f.function_id = d.id.text =>
                            \A name \in DOMAIN f.params :
                              LET constraint == d.params.members[name]
                              IN Is(constraint.type, "string") =>
                                   constraint.type.text \in {"full-date", "string", "integer"}
  BY DEF DescribedCircuitProves
<1>1. resolved = Report /\ TransformPasses
  BY DEF IInv, PInv
<1>2. ZkpReqSelection # None /\ resolved.zkp_req = ZkpReqSelection
  BY <1>1 DEF TransformPasses, AnswersZkpReq, Report
<1> DEFINE plan == resolved.zkp_req.plan
           capability == resolved.zkp_req.capability
           text == Param(capability, "capabilities")
           description == JsonOf[text]
           items == plan.functions
<1>3. capability \in RangeOf(Held("zkp_req")) /\ CircuitServes(capability, plan)
  BY <1>2, SelectionServes DEF IInv
<1>4. text = capability.params["capabilities"] /\ "capabilities" \in DOMAIN capability.params
  BY DEF Param
<1>5. text \in DOMAIN JsonOf
  <2>1. PICK i \in DOMAIN Held("zkp_req") : capability = Held("zkp_req")[i]
    BY <1>3 DEF RangeOf
  <2>2. "zkp_req" \in DOMAIN profile.capabilities /\ Held("zkp_req") = profile.capabilities["zkp_req"]
    BY <2>1 DEF Held
  <2> HIDE DEF capability, text
  <2> QED BY <1>4, <2>1, <2>2, InputsAreWellFormed DEF IInv, TypeOK, profile
<1>6. /\ Readable(description)
      /\ \A i \in DOMAIN items : \E f \in FunctionsOf(description) : Supports(f, items[i])
      /\ \A f \in FunctionsOf(description) : CountIsServed(f, items)
  <2>1. CapabilitiesServe(text, plan)
    BY <1>3, <1>4 DEF CircuitServes
  <2> HIDE DEF text, plan
  <2> QED BY <2>1 DEF CapabilitiesServe, Serves
<1>7. DescriptionOf(capability) = description /\ RangeOf(description.functions.items) = FunctionsOf(description)
  BY DEF DescriptionOf, RangeOf, FunctionsOf
<1> HIDE DEF plan, capability, text, description
<1>8. ASSUME NEW f \in RangeOf(items)
      PROVE  \E d \in FunctionsOf(description) : Supports(d, f)
  BY <1>6 DEF RangeOf
<1>9. {f.function_id : f \in RangeOf(items)} \subseteq {d.id.text : d \in FunctionsOf(description)}
  BY <1>8 DEF Supports
<1>10. ASSUME NEW d \in FunctionsOf(description), d.always = Flag(TRUE)
       PROVE  \E f \in RangeOf(items) : f.function_id = d.id.text
  <2>1. Asked(d, items) # {}
    <3>1. CountIsServed(d, items)
      BY <1>6
    <3>2. Cardinality({}) = 0
      BY FS_EmptySet
    <3> QED BY <1>10, <3>1, <3>2 DEF CountIsServed
  <2> QED BY <2>1 DEF Asked, RangeOf
<1>11. ASSUME NEW d \in FunctionsOf(description), NEW f \in RangeOf(items), f.function_id = d.id.text,
              NEW name \in DOMAIN f.params, Is(d.params.members[name].type, "string")
       PROVE  d.params.members[name].type.text \in {"full-date", "string", "integer"}
  <2>1. PICK g \in FunctionsOf(description) : Supports(g, f)
    BY <1>8
  <2>2. g = d
    BY <1>5, <1>6, <1>11, <2>1, FunctionOfId DEF Supports, description
  <2>3. Is(d.params, "object") /\ name \in DOMAIN d.params.members
    BY <2>1, <2>2 DEF Supports
  <2>4. ReadableFunction(d)
    BY <1>6 DEF Readable, FunctionsOf
  <2>5. ReadableConstraint(d.params.members[name])
    BY <2>3, <2>4 DEF ReadableFunction, IsAbsent, Is
  <2> QED BY <1>11, <2>5 DEF ReadableConstraint, IsAbsent, Is
<1> QED BY <1>7, <1>9, <1>10, <1>11 DEF plan, capability

(* A circuit that describes itself is chosen only if it declares every        *)
(* function asked, if all it always proves is asked, and if each parameter    *)
(* asked is of a kind this build understands.                                 *)
THEOREM DescriptionIsKept == Spec => []DescribedCircuitProves
BY IInvHolds, MatchedIsDescribed, PTL
=============================================================================
