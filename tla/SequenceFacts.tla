--------------------------- MODULE SequenceFacts ---------------------------
(***************************************************************************)
(* Facts about numbers and sequences the proofs cite.                      *)
(***************************************************************************)
EXTENDS Basics, SequencesExt, WellFoundedInduction, TLAPS

(* A nonempty set of naturals has a least element; taken of the set of     *)
(* counterexamples, this is induction.                                     *)
LEMMA SmallestNat ==
  ASSUME NEW S \in SUBSET Nat, S # {}
  PROVE  \E n \in S : \A m \in S : n <= m
<1>1. IsWellFoundedOn(OpToRel(<, Nat), Nat)
  BY NatLessThanWellFounded
<1>2. PICK n \in S : \A m \in S : <<m, n>> \notin OpToRel(<, Nat)
  BY <1>1, WFMin
<1>3. \A m \in S : ~ (m < n)
  BY <1>2 DEF OpToRel
<1> QED BY <1>3

(* And a nonempty set of positions has a last one. *)
LEMMA LargestIn ==
  ASSUME NEW L \in Nat, NEW S \in SUBSET (1..L), S # {}
  PROVE  \E n \in S : \A m \in (n + 1)..L : m \notin S
<1> DEFINE after == {k \in 0..L : L - k \in S}
<1>1. PICK n : n \in S /\ n \in 1..L
  OBVIOUS
<1>2. L - n \in after
  <2> SUFFICES ASSUME NEW k, k = L - n PROVE k \in after
    OBVIOUS
  <2>1. k \in 0..L /\ L - k = n
    BY <1>1
  <2> QED
    BY <1>1, <2>1
<1>3. PICK k \in after : \A j \in after : k <= j
  <2>1. after \in SUBSET Nat
    OBVIOUS
  <2> HIDE DEF after
  <2>2. after # {}
    BY <1>2
  <2> QED
    BY <2>1, <2>2, SmallestNat
<1> DEFINE last == L - k
<1>4. k \in 0..L /\ last \in S /\ last \in 1..L
  BY <1>3
<1>5. ASSUME NEW m \in (last + 1)..L, m \in S PROVE FALSE
  <2> SUFFICES ASSUME NEW j, j = L - m PROVE FALSE
    OBVIOUS
  <2>1. j \in 0..L /\ L - j = m /\ j < k
    BY <1>4
  <2>2. j \in after
    BY <1>5, <2>1
  <2>3. k <= j
    BY <1>3, <2>2
  <2> HIDE DEF after, last
  <2> QED
    BY <1>4, <2>1, <2>3
<1> HIDE DEF last
<1> QED
  BY <1>4, <1>5

(* The first position at which a sequence has an element of S, as the      *)
(* code's Iterator::find sees it.                                          *)
LEMMA FirstPosition ==
  ASSUME NEW n \in Nat, NEW S \in SUBSET (1..n), S # {}
  PROVE  \E i \in S : \A j \in 1..(i - 1) : j \notin S
<1>1. PICK i \in S : \A j \in S : i <= j
  BY SmallestNat
<1> QED BY <1>1

LEMMA FunctionIsSequence ==
  ASSUME NEW S, NEW n \in Nat, NEW f \in [1..n -> S]
  PROVE  f \in Seq(S) /\ Len(f) = n
  OBVIOUS

LEMMA OneMore ==
  ASSUME NEW S, NEW n \in Nat \ {0}, NEW f \in Seq(S), NEW g \in Seq(S),
         Len(f) = n - 1, Len(g) = n, \A i \in 1..(n - 1) : f[i] = g[i]
  PROVE  g = Append(f, g[n])
<1>1. /\ Append(f, g[n]) \in Seq(S) /\ Len(Append(f, g[n])) = n
      /\ \A i \in 1..n : Append(f, g[n])[i] = g[i]
  <2>1. g[n] \in S /\ DOMAIN f = 1..(n - 1)
    OBVIOUS
  <2> QED
    BY <2>1
<1> QED
  BY <1>1

LEMMA LastExcept ==
  ASSUME NEW S, NEW f \in Seq(S), NEW g \in S, NEW e \in S
  PROVE  [Append(f, g) EXCEPT ![Len(Append(f, g))] = e] = Append(f, e)
<1> DEFINE h == Append(f, g)
           n == Len(f) + 1
           next == [h EXCEPT ![n] = e]
<1>1. /\ h \in Seq(S) /\ DOMAIN h = 1..n /\ Len(h) = n /\ n \in Nat \ {0} /\ Len(f) = n - 1
      /\ \A i \in 1..(n - 1) : h[i] = f[i]
  OBVIOUS
<1> HIDE DEF h, n
<1>2. next = [i \in 1..n |-> IF i = n THEN e ELSE h[i]]
  BY <1>1
<1>3. next \in [1..n -> S]
  <2>1. \A i \in 1..n : h[i] \in S
    BY <1>1
  <2> QED
    BY <1>2, <2>1
<1>4. next[n] = e /\ \A i \in 1..(n - 1) : f[i] = next[i]
  BY <1>1, <1>2
<1> HIDE DEF next
<1>5. next \in Seq(S) /\ Len(next) = n
  BY <1>1, <1>3, FunctionIsSequence
<1>6. next = Append(f, next[n])
  BY <1>1, <1>4, <1>5, OneMore
<1> QED
  BY <1>1, <1>4, <1>6 DEF h, next

(* One sequence after another; a name of its own, as the provers cite facts *)
(* about it by.                                                              *)
Joined(f, g) == f \o g

LEMMA AppendAfter ==
  ASSUME NEW S, NEW f \in Seq(S), NEW g \in Seq(S), NEW e \in S
  PROVE  Append(Joined(f, g), e) = Joined(f, Append(g, e))
  BY DEF Joined

LEMMA JoinedInAnyOrder ==
  ASSUME NEW S, NEW f \in Seq(S), NEW g \in Seq(S), NEW h \in Seq(S)
  PROVE  /\ Joined(f, g) \in Seq(S)
         /\ Joined(Joined(f, g), h) = Joined(f, Joined(g, h))
         /\ Joined(f, << >>) = f /\ Joined(<< >>, f) = f
  BY DEF Joined

(* A sequence seen through a function of its elements. *)
Mapped(h, f) == [i \in DOMAIN f |-> h[f[i]]]

Maps(h, V, W) == h \in [V -> W]

LEMMA MappedAppends ==
  ASSUME NEW V, NEW W, NEW h, Maps(h, V, W), NEW f \in Seq(V), NEW e \in V
  PROVE  /\ Mapped(h, f) \in Seq(W) /\ Len(Mapped(h, f)) = Len(f)
         /\ DOMAIN Mapped(h, f) = DOMAIN f
         /\ Mapped(h, Append(f, e)) \in Seq(W)
         /\ Mapped(h, Append(f, e)) = Append(Mapped(h, f), h[e])
<1> DEFINE more == Append(f, e)
           m == Mapped(h, more)
           n == Len(f)
<1>1. n \in Nat /\ DOMAIN f = 1..n /\ \A i \in 1..n : h[f[i]] \in W
  BY DEF Maps
<1>2. /\ more \in Seq(V) /\ Len(more) = n + 1 /\ DOMAIN more = 1..(n + 1) /\ more[n + 1] = e
      /\ \A i \in 1..n : more[i] = f[i]
  OBVIOUS
<1>3. Mapped(h, f) \in [1..n -> W]
  BY <1>1 DEF Mapped
<1>4. Mapped(h, f) \in Seq(W) /\ Len(Mapped(h, f)) = n
  <2> HIDE DEF n
  <2> QED
    BY <1>1, <1>3, FunctionIsSequence
<1> HIDE DEF more, n
<1>5. m \in [1..(n + 1) -> W]
  <2>1. \A i \in 1..(n + 1) : h[more[i]] \in W
    <3>1. h[e] \in W
      BY DEF Maps
    <3>2. \A i \in 1..(n + 1) : i = n + 1 \/ i \in 1..n
      BY <1>1
    <3> QED
      BY <1>1, <1>2, <3>1, <3>2
  <2> QED
    BY <1>2, <2>1 DEF Mapped
<1>6. m[n + 1] = h[e] /\ \A i \in 1..n : Mapped(h, f)[i] = m[i]
  BY <1>1, <1>2 DEF Mapped
<1> HIDE DEF m
<1>7. m \in Seq(W) /\ Len(m) = n + 1
  <2>1. n + 1 \in Nat
    BY <1>1
  <2> QED
    BY <1>5, <2>1, FunctionIsSequence
<1>8. m = Append(Mapped(h, f), m[n + 1])
  <2> SUFFICES ASSUME NEW k \in Nat \ {0}, k = n + 1 PROVE m = Append(Mapped(h, f), m[k])
    BY <1>1
  <2>1. k - 1 = n
    BY <1>1
  <2> QED
    BY <1>4, <1>6, <1>7, <2>1, OneMore
<1>9. DOMAIN Mapped(h, f) = DOMAIN f
  BY DEF Mapped
<1> QED
  BY <1>4, <1>6, <1>7, <1>8, <1>9 DEF m, more, n

-----------------------------------------------------------------------------
(* Laying sequences end to end. What the community module computes by        *)
(* recursion is the last value of a function of the number of sequences laid *)
(* so far, which exists for every number by SmallestNat.                     *)
Flattens(seqs, n, f) ==
  f = [i \in 1..n |-> IF i = 1 THEN seqs[i] ELSE f[i - 1] \o seqs[i]]

LEMMA FlatteningExists ==
  ASSUME NEW seqs, NEW n \in Nat
  PROVE  \E f : Flattens(seqs, n, f)
<1> DEFINE bad == {m \in Nat : ~ \E f : Flattens(seqs, m, f)}
<1> SUFFICES ASSUME bad # {} PROVE FALSE
  OBVIOUS
<1>1. PICK m \in bad : \A k \in bad : m <= k
  <2>1. bad \in SUBSET Nat
    OBVIOUS
  <2> HIDE DEF bad
  <2> QED
    BY <2>1, SmallestNat
<1>2. CASE m = 0
  <2> DEFINE f == [i \in 1..0 |-> seqs[i]]
  <2>1. f = [i \in 1..0 |-> IF i = 1 THEN seqs[i] ELSE f[i - 1] \o seqs[i]]
    BY SMT
  <2> QED
    BY <1>1, <1>2, <2>1 DEF Flattens
<1>3. CASE m # 0
  <2>1. m \in Nat /\ m - 1 \in Nat /\ m - 1 \notin bad
    BY <1>1, <1>3
  <2>2. PICK f : Flattens(seqs, m - 1, f)
    BY <2>1
  <2> DEFINE g == [i \in 1..m |-> IF i < m THEN f[i] ELSE IF i = 1 THEN seqs[i] ELSE f[i - 1] \o seqs[i]]
  <2>3. \A i \in 1..m : g[i] = IF i = 1 THEN seqs[i] ELSE g[i - 1] \o seqs[i]
    <3> SUFFICES ASSUME NEW i \in 1..m
                 PROVE  g[i] = IF i = 1 THEN seqs[i] ELSE g[i - 1] \o seqs[i]
      OBVIOUS
    <3>1. i # 1 => i - 1 \in 1..m /\ g[i - 1] = f[i - 1]
      BY <2>1
    <3>2. CASE i = m
      BY <2>1, <3>1, <3>2
    <3>3. CASE i # m
      <4>1. i \in 1..(m - 1) /\ g[i] = f[i]
        BY <2>1, <3>3
      <4>2. f[i] = IF i = 1 THEN seqs[i] ELSE f[i - 1] \o seqs[i]
        BY <2>2, <4>1 DEF Flattens
      <4> QED
        BY <3>1, <4>1, <4>2
    <3> QED
      BY <3>2, <3>3
  <2>4. DOMAIN g = 1..m /\ g = [i \in 1..m |-> g[i]]
    OBVIOUS
  <2> HIDE DEF g
  <2>5. Flattens(seqs, m, g)
    BY <2>3, <2>4 DEF Flattens
  <2> QED
    BY <1>1, <2>5
<1> QED
  BY <1>2, <1>3

(* Two functions that lay the same first sequences agree on them. *)
LEMMA FlatteningIsOne ==
  ASSUME NEW S, NEW n \in Nat, NEW k \in Nat, n <= k, NEW few, NEW many, NEW f, NEW g,
         \A i \in 1..n : few[i] = many[i] /\ few[i] \in Seq(S),
         Flattens(few, n, f), Flattens(many, k, g)
  PROVE  \A i \in 1..n : f[i] = g[i] /\ f[i] \in Seq(S)
<1> DEFINE bad == {i \in 1..n : ~ (f[i] = g[i] /\ f[i] \in Seq(S))}
<1> SUFFICES ASSUME bad # {} PROVE FALSE
  OBVIOUS
<1>1. PICK m \in bad : \A j \in bad : m <= j
  <2>1. bad \in SUBSET Nat
    BY SMT
  <2> HIDE DEF bad
  <2> QED
    BY <2>1, SmallestNat
<1>2. m \in 1..n /\ m \in 1..k
  BY <1>1
<1>3. /\ f[m] = IF m = 1 THEN few[m] ELSE f[m - 1] \o few[m]
      /\ g[m] = IF m = 1 THEN many[m] ELSE g[m - 1] \o many[m]
  BY <1>2 DEF Flattens
<1>4. m # 1 => m - 1 \in 1..n /\ f[m - 1] = g[m - 1] /\ f[m - 1] \in Seq(S)
  <2> SUFFICES ASSUME m # 1 PROVE m - 1 \in 1..n /\ m - 1 \notin bad
    OBVIOUS
  <2> QED
    BY <1>1, <1>2
<1>5. f[m] = g[m] /\ f[m] \in Seq(S)
  BY <1>2, <1>3, <1>4
<1> QED
  BY <1>1, <1>5

LEMMA FlattenIsLast ==
  ASSUME NEW seqs, Len(seqs) \in Nat \ {0}
  PROVE  \E f : Flattens(seqs, Len(seqs), f) /\ FlattenSeq(seqs) = f[Len(seqs)]
<1> DEFINE flatten == CHOOSE f : f = [i \in 1..Len(seqs) |-> IF i = 1 THEN seqs[i] ELSE f[i - 1] \o seqs[i]]
<1>1. \E f : f = [i \in 1..Len(seqs) |-> IF i = 1 THEN seqs[i] ELSE f[i - 1] \o seqs[i]]
  BY FlatteningExists DEF Flattens
<1>2. flatten = [i \in 1..Len(seqs) |-> IF i = 1 THEN seqs[i] ELSE flatten[i - 1] \o seqs[i]]
  BY Zenon, <1>1
<1>3. FlattenSeq(seqs) = flatten[Len(seqs)]
  BY Zenon DEF FlattenSeq
<1> HIDE DEF flatten
<1> QED
  BY <1>2, <1>3 DEF Flattens

LEMMA FlattenNothing == FlattenSeq(<< >>) = << >>
  BY DEF FlattenSeq

LEMMA FlattenAppends ==
  ASSUME NEW S, NEW seqs \in Seq(Seq(S)), NEW s \in Seq(S)
  PROVE  /\ FlattenSeq(seqs) \in Seq(S)
         /\ FlattenSeq(Append(seqs, s)) = Joined(FlattenSeq(seqs), s)
<1> USE DEF Joined
<1> DEFINE more == Append(seqs, s)
           n == Len(seqs)
<1>1. /\ n \in Nat /\ Len(more) = n + 1 /\ more[n + 1] = s
      /\ \A i \in 1..n : seqs[i] = more[i] /\ seqs[i] \in Seq(S)
  OBVIOUS
<1>2. PICK g : Flattens(more, n + 1, g) /\ FlattenSeq(more) = g[n + 1]
  <2>1. Len(more) \in Nat \ {0} /\ Len(more) = n + 1
    BY <1>1
  <2> HIDE DEF more, n
  <2> QED
    BY <2>1, FlattenIsLast
<1>3. g[n + 1] = IF n = 0 THEN more[n + 1] ELSE g[n] \o more[n + 1]
  <2> HIDE DEF more, n
  <2>1. n + 1 \in 1..(n + 1) /\ n + 1 - 1 = n /\ (n + 1 = 1 <=> n = 0)
    BY <1>1
  <2>2. \A i \in 1..(n + 1) : g[i] = IF i = 1 THEN more[i] ELSE g[i - 1] \o more[i]
    BY <1>2 DEF Flattens
  <2> SUFFICES ASSUME NEW i \in 1..(n + 1), i = n + 1
               PROVE  g[i] = IF n = 0 THEN more[i] ELSE g[n] \o more[i]
    BY <2>1
  <2>3. i - 1 = n /\ (i = 1 <=> n = 0)
    BY <1>1
  <2>4. g[i] = IF i = 1 THEN more[i] ELSE g[i - 1] \o more[i]
    BY <2>2
  <2> QED
    BY <2>3, <2>4
<1>4. CASE n = 0
  <2>1. seqs = << >>
    BY <1>4
  <2>2. FlattenSeq(more) = s
    <3> HIDE DEF more, n
    <3> QED
      BY <1>1, <1>2, <1>3, <1>4
  <2>3. << >> \o s = s /\ << >> \in Seq(S)
    OBVIOUS
  <2> QED
    BY <2>1, <2>2, <2>3, FlattenNothing
<1>5. CASE n # 0
  <2>1. PICK f : Flattens(seqs, n, f) /\ FlattenSeq(seqs) = f[n]
    BY <1>1, <1>5, FlattenIsLast
  <2>2. f[n] = g[n] /\ f[n] \in Seq(S)
    <3>1. /\ n \in Nat /\ n + 1 \in Nat /\ n <= n + 1 /\ n \in 1..n
          /\ \A i \in 1..n : seqs[i] = more[i] /\ seqs[i] \in Seq(S)
      BY <1>1, <1>5
    <3>2. Flattens(seqs, n, f) /\ Flattens(more, n + 1, g)
      BY <1>2, <2>1
    <3> HIDE DEF more, n
    <3>3. \A i \in 1..n : f[i] = g[i] /\ f[i] \in Seq(S)
      BY <3>1, <3>2, FlatteningIsOne
    <3> QED
      BY <3>1, <3>3
  <2> QED
    BY <1>1, <1>2, <1>3, <1>5, <2>1, <2>2
<1> QED
  BY <1>4, <1>5

(* The last of the sequences laid end to end, and the ones before it. *)
LEMMA FlattenStep ==
  ASSUME NEW S, NEW n \in Nat, NEW seqs \in [1..n -> Seq(S)]
  PROVE  /\ FlattenSeq(seqs) \in Seq(S)
         /\ n = 0 => FlattenSeq(seqs) = << >>
         /\ n # 0 => FlattenSeq(seqs) =
                      Joined(FlattenSeq([i \in 1..(n - 1) |-> seqs[i]]), seqs[n])
<1>1. seqs \in Seq(Seq(S)) /\ Len(seqs) = n
  BY FunctionIsSequence
<1>2. FlattenSeq(seqs) \in Seq(S)
  <2>1. << >> \in Seq(S)
    OBVIOUS
  <2> QED
    BY <1>1, <2>1, FlattenAppends
<1>3. ASSUME n = 0 PROVE FlattenSeq(seqs) = << >>
  <2>1. seqs = << >>
    BY <1>1, <1>3
  <2> QED
    BY <2>1, FlattenNothing
<1>4. ASSUME n # 0
      PROVE  FlattenSeq(seqs) = Joined(FlattenSeq([i \in 1..(n - 1) |-> seqs[i]]), seqs[n])
  <2> DEFINE few == [i \in 1..(n - 1) |-> seqs[i]]
  <2>1. few \in [1..(n - 1) -> Seq(S)] /\ n - 1 \in Nat
    BY <1>4
  <2>2. few \in Seq(Seq(S)) /\ Len(few) = n - 1
    BY <2>1, FunctionIsSequence
  <2>3. \A i \in 1..(n - 1) : few[i] = seqs[i]
    OBVIOUS
  <2>4. seqs[n] \in Seq(S)
    BY <1>4
  <2> HIDE DEF few
  <2>5. seqs = Append(few, seqs[n])
    BY <1>1, <1>4, <2>2, <2>3, OneMore
  <2> QED
    BY <2>2, <2>4, <2>5, FlattenAppends DEF few
<1> QED
  BY <1>2, <1>3, <1>4

-----------------------------------------------------------------------------
(* A function computed step by step over the first naturals exists, given    *)
(* each step as a value of a function. *)
Iterates(V, n, base, step, f) ==
  f \in [0..n -> V] /\ f[0] = base /\ \A k \in 1..n : f[k] = step[<<k, f[k - 1]>>]

LEMMA IterationExists ==
  ASSUME NEW V, NEW n \in Nat, NEW base \in V, NEW step \in [(1..n) \X V -> V]
  PROVE  \E f : Iterates(V, n, base, step, f)
<1> DEFINE Steps(m, f) == f \in [0..m -> V] /\ f[0] = base /\ \A k \in 1..m : f[k] = step[<<k, f[k - 1]>>]
           bad == {m \in 0..n : ~ \E f : Steps(m, f)}
<1>1. bad = {}
  <2> SUFFICES ASSUME bad # {} PROVE FALSE
    OBVIOUS
  <2>1. PICK m \in bad : \A k \in bad : m <= k
    <3>1. bad \in SUBSET Nat
      OBVIOUS
    <3> HIDE DEF bad
    <3> QED
      BY <3>1, SmallestNat
  <2>2. CASE m = 0
    <3> DEFINE f == [k \in 0..0 |-> base]
    <3>1. Steps(0, f)
      OBVIOUS
    <3> QED
      BY <2>1, <2>2, <3>1
  <2>3. CASE m # 0
    <3>1. m \in 1..n /\ m - 1 \in 0..n /\ m - 1 \notin bad
      BY <2>1, <2>3
    <3>2. PICK f : Steps(m - 1, f)
      BY <3>1
    <3> DEFINE e == step[<<m, f[m - 1]>>]
               h == [k \in 0..m |-> IF k = m THEN e ELSE f[k]]
    <3>3. e \in V
      <4>1. f[m - 1] \in V
        BY <3>1, <3>2
      <4>2. <<m, f[m - 1]>> \in (1..n) \X V
        BY <3>1, <4>1
      <4> QED
        BY <4>2
    <3>4. h \in [0..m -> V]
      <4> HIDE DEF e
      <4>1. \A k \in 0..m : k # m => f[k] \in V
        BY <3>1, <3>2
      <4> QED
        BY <3>3, <4>1
    <3>5. h[0] = base
      BY <3>1, <3>2
    <3>6. ASSUME NEW k \in 1..m PROVE h[k] = step[<<k, h[k - 1]>>]
      <4>1. k - 1 \in 0..m /\ h[k - 1] = f[k - 1]
        BY <3>1
      <4>2. CASE k = m
        BY <4>1, <4>2
      <4>3. CASE k # m
        <5>1. k \in 1..(m - 1) /\ h[k] = f[k]
          BY <3>1, <4>3
        <5> QED
          BY <3>2, <4>1, <5>1
      <4> QED
        BY <4>2, <4>3
    <3>7. Steps(m, h)
      BY <3>4, <3>5, <3>6
    <3> QED
      BY <2>1, <3>7
  <2> QED
    BY <2>2, <2>3
<1>2. \E f : Steps(n, f)
  <2>1. n \in 0..n
    OBVIOUS
  <2>2. n \notin bad
    <3> HIDE DEF bad
    <3> QED
      BY <1>1
  <2> QED
    BY <2>1, <2>2
<1> QED
  BY <1>2 DEF Iterates

(* And a function that takes those steps is such a function. *)
LEMMA IterationIs ==
  ASSUME NEW V, NEW n \in Nat, NEW base \in V, NEW step \in [(1..n) \X V -> V],
         NEW f, f = [k \in 0..n |-> f[k]], f[0] = base,
         \A k \in 1..n : f[k - 1] \in V => f[k] = step[<<k, f[k - 1]>>]
  PROVE  Iterates(V, n, base, step, f)
<1> DEFINE bad == {k \in 0..n : f[k] \notin V}
<1>1. bad = {}
  <2> SUFFICES ASSUME bad # {} PROVE FALSE
    OBVIOUS
  <2>1. PICK m \in bad : \A k \in bad : m <= k
    <3>1. bad \in SUBSET Nat
      OBVIOUS
    <3> HIDE DEF bad
    <3> QED
      BY <3>1, SmallestNat
  <2>2. m \in 1..n /\ m - 1 \in 0..n /\ m - 1 \notin bad
    BY <2>1
  <2>3. f[m - 1] \in V
    BY <2>2
  <2>4. <<m, f[m - 1]>> \in (1..n) \X V /\ f[m] = step[<<m, f[m - 1]>>]
    BY <2>2, <2>3
  <2> QED
    BY <2>1, <2>4
<1>2. \A k \in 0..n : f[k] \in V
  BY <1>1
<1>3. \A k \in 1..n : k - 1 \in 0..n
  OBVIOUS
<1> HIDE DEF bad
<1>4. f \in [0..n -> V]
  BY <1>2
<1> QED
  BY <1>2, <1>3, <1>4 DEF Iterates

(* Where the elements of joined sequences are. *)
LEMMA JoinedAt ==
  ASSUME NEW S, NEW f \in Seq(S), NEW g \in Seq(S)
  PROVE  /\ Joined(f, g) \in Seq(S) /\ Len(Joined(f, g)) = Len(f) + Len(g)
         /\ \A i \in 1..Len(f) : Joined(f, g)[i] = f[i]
         /\ \A i \in 1..Len(g) : Joined(f, g)[Len(f) + i] = g[i]
BY DEF Joined

(* A part of what was laid end to end, and where it starts. *)
SeqsUpTo(seqs, m) == [j \in 1..m |-> seqs[j]]

Lies(S, part, at, whole) ==
  /\ whole \in Seq(S) /\ at \in Nat /\ at + Len(part) <= Len(whole)
  /\ \A k \in 1..Len(part) : whole[at + k] = part[k]

LEMMA FlattenPart ==
  ASSUME NEW S, NEW n \in Nat, NEW seqs, Maps(seqs, 1..n, Seq(S)), NEW i \in 1..n
  PROVE  Lies(S, seqs[i], Len(FlattenSeq(SeqsUpTo(seqs, i - 1))), FlattenSeq(seqs))
<1> DEFINE F(m) == FlattenSeq(SeqsUpTo(seqs, m))
           at == Len(F(i - 1))
           part == seqs[i]
           Holds(m) == /\ at + Len(part) <= Len(F(m))
                       /\ \A k \in 1..Len(part) : F(m)[at + k] = part[k]
           bad == {m \in 1..n : i <= m /\ ~Holds(m)}
<1> USE DEF Maps
<1>1. \A m \in 0..n : F(m) \in Seq(S) /\ (m # 0 => F(m) = Joined(F(m - 1), seqs[m]))
  <2> SUFFICES ASSUME NEW m \in 0..n
               PROVE  F(m) \in Seq(S) /\ (m # 0 => F(m) = Joined(F(m - 1), seqs[m]))
    OBVIOUS
  <2> DEFINE few == SeqsUpTo(seqs, m)
  <2>1. m \in Nat /\ few \in [1..m -> Seq(S)]
    BY DEF SeqsUpTo
  <2>2. m # 0 => [j \in 1..(m - 1) |-> few[j]] = SeqsUpTo(seqs, m - 1) /\ few[m] = seqs[m]
    BY DEF SeqsUpTo
  <2> HIDE DEF few
  <2>3. /\ FlattenSeq(few) \in Seq(S)
        /\ m # 0 => FlattenSeq(few) = Joined(FlattenSeq([j \in 1..(m - 1) |-> few[j]]), few[m])
    BY <2>1, FlattenStep
  <2> QED
    BY <2>2, <2>3 DEF few
<1>2. SeqsUpTo(seqs, n) = seqs
  BY DEF SeqsUpTo
<1>3. part \in Seq(S) /\ i - 1 \in 0..n /\ i \in 0..n /\ i # 0 /\ i \in Nat
  OBVIOUS
<1>4. at \in Nat /\ Len(part) \in Nat /\ F(i - 1) \in Seq(S)
  BY <1>1, <1>3
<1>5. Holds(i)
  <2> HIDE DEF F
  <2>1. F(i) = Joined(F(i - 1), part)
    BY <1>1, <1>3
  <2> DEFINE before == F(i - 1)
  <2> HIDE DEF part, before
  <2>2. part \in Seq(S) /\ before \in Seq(S)
    BY <1>3, <1>4 DEF before
  <2>3. /\ Len(Joined(before, part)) = Len(before) + Len(part)
        /\ \A k \in 1..Len(part) : Joined(before, part)[Len(before) + k] = part[k]
    BY <2>2, JoinedAt
  <2>4. Len(before) + Len(part) <= Len(Joined(before, part))
    BY <2>2, <2>3
  <2> QED
    BY <2>1, <2>3, <2>4 DEF before
<1>6. bad = {}
  <2> SUFFICES ASSUME bad # {} PROVE FALSE
    OBVIOUS
  <2> HIDE DEF F
  <2>1. PICK m \in bad : \A j \in bad : m <= j
    <3>1. bad \in SUBSET Nat
      BY SMT
    <3> HIDE DEF bad
    <3> QED
      BY <3>1, SmallestNat
  <2>2. m # i /\ m \in 1..n /\ i <= m /\ ~Holds(m)
    BY <1>5, <2>1
  <2>3. m - 1 \in 1..n /\ i <= m - 1 /\ m - 1 \in 0..n /\ m \in 0..n /\ m # 0
    BY <1>3, <2>2
  <2>4. Holds(m - 1)
    <3>1. m - 1 \notin bad
      <4> SUFFICES ASSUME m - 1 \in bad PROVE FALSE
        OBVIOUS
      <4>1. m <= m - 1
        BY <2>1
      <4> QED
        BY <2>2, <4>1
    <3> HIDE DEF Holds
    <3> QED
      BY <2>3, <3>1
  <2> DEFINE before == F(m - 1)
             next == seqs[m]
  <2>5. F(m) = Joined(before, next) /\ before \in Seq(S) /\ next \in Seq(S)
    BY <1>1, <2>3
  <2>6. at + Len(part) <= Len(before) /\ \A k \in 1..Len(part) : before[at + k] = part[k]
    BY <2>4
  <2> HIDE DEF before, next, at, part
  <2>7. /\ Len(F(m)) = Len(before) + Len(next)
        /\ \A k \in 1..Len(before) : F(m)[k] = before[k]
    BY <2>5, JoinedAt
  <2>8. Len(before) \in Nat /\ Len(next) \in Nat
    BY <2>5
  <2>9. ASSUME NEW k \in 1..Len(part) PROVE at + k \in 1..Len(before)
    <3>1. at + Len(part) <= Len(before) /\ at \in Nat /\ Len(part) \in Nat
      BY <1>4, <2>6
    <3> QED
      BY <2>8, <3>1
  <2>10. Holds(m)
    <3> DEFINE now == F(m)
    <3>1. Len(now) = Len(before) + Len(next) /\ \A k \in 1..Len(before) : now[k] = before[k]
      BY <2>7
    <3> HIDE DEF now
    <3>2. at + Len(part) <= Len(now)
      <4>1. at + Len(part) <= Len(before) /\ at \in Nat /\ Len(part) \in Nat
        BY <1>4, <2>6
      <4> QED
        BY <2>8, <3>1, <4>1
    <3>3. ASSUME NEW k \in 1..Len(part) PROVE now[at + k] = part[k]
      <4>1. before[at + k] = part[k] /\ at + k \in 1..Len(before)
        BY <2>6, <2>9
      <4> SUFFICES ASSUME NEW j, j = at + k PROVE now[j] = before[j]
        BY <4>1
      <4> QED
        BY <3>1, <4>1
    <3> QED
      BY <3>2, <3>3 DEF now
  <2> QED
    BY <2>2, <2>10
<1>7. Holds(n)
  <2>1. n \in 1..n /\ i <= n
    OBVIOUS
  <2>2. n \notin bad
    BY <1>6
  <2> HIDE DEF Holds
  <2> QED
    BY <2>1, <2>2
<1>8. F(n) = FlattenSeq(seqs) /\ F(n) \in Seq(S)
  <2>1. n \in 0..n
    OBVIOUS
  <2> QED
    BY <1>1, <1>2, <2>1
<1> QED
  BY <1>4, <1>7, <1>8 DEF Lies

(* A run of elements of a sequence, which has the elements of another. *)
LEMMA SubSeqIs ==
  ASSUME NEW S, NEW s, NEW t \in Seq(S), NEW a, Lies(S, t, a, s)
  PROVE  SubSeq(s, a + 1, a + Len(t)) = t
<1> USE DEF Lies
<1> DEFINE u == SubSeq(s, a + 1, a + Len(t))
<1>1. u \in Seq(S) /\ Len(u) = Len(t)
  OBVIOUS
<1>2. \A k \in 1..Len(t) : u[k] = s[a + 1 + k - 1]
  OBVIOUS
<1>3. \A k \in 1..Len(t) : u[k] = t[k]
  <2> SUFFICES ASSUME NEW k \in 1..Len(t) PROVE u[k] = t[k]
    OBVIOUS
  <2>1. a + 1 + k - 1 = a + k
    OBVIOUS
  <2> QED
    BY <1>2, <2>1
<1> HIDE DEF u
<1>4. u = t
  BY <1>1, <1>3
<1> QED
  BY <1>4 DEF u

-----------------------------------------------------------------------------
(* Division. *)
LEMMA QuotientIs ==
  ASSUME NEW a \in Nat \ {0}, NEW n \in Nat, NEW k \in Nat, NEW r \in 0..(a - 1), n = a * k + r
  PROVE  n \div a = k /\ n % a = r
<1>1. n \div a \in Nat /\ n % a \in 0..(a - 1) /\ n = a * (n \div a) + (n % a)
  OBVIOUS
<1> DEFINE m == n \div a
           s == n % a
<1>2. m \in Nat /\ s \in 0..(a - 1) /\ a * m + s = a * k + r
  BY <1>1
<1> HIDE DEF m, s
<1>3. ASSUME NEW x \in Nat, NEW y \in Nat, x < y PROVE a * x + a <= a * y
  <2>1. PICK z \in Nat : y = x + 1 + z
    <3>1. y - x - 1 \in Nat /\ y = x + 1 + (y - x - 1)
      BY <1>3
    <3> QED
      BY <3>1
  <2>2. a * y = a * x + a + a * z /\ a * z >= 0
    BY <2>1
  <2> QED
    BY <2>2
<1>4. ~ (m < k)
  <2> SUFFICES ASSUME m < k PROVE FALSE
    OBVIOUS
  <2>1. a * m + a <= a * k
    BY <1>2, <1>3
  <2> QED
    BY <1>2, <2>1
<1>5. ~ (k < m)
  <2> SUFFICES ASSUME k < m PROVE FALSE
    OBVIOUS
  <2>1. a * k + a <= a * m
    BY <1>2, <1>3
  <2> QED
    BY <1>2, <2>1
<1>6. m = k
  BY <1>2, <1>4, <1>5
<1> QED
  BY <1>2, <1>6 DEF m, s

(* One more: the remainder grows, or starts anew and the quotient grows. *)
LEMMA NextQuotient ==
  ASSUME NEW a \in Nat \ {0}, NEW n \in Nat
  PROVE  /\ n \div a \in Nat /\ n % a \in 0..(a - 1) /\ n = a * (n \div a) + (n % a)
         /\ n % a = a - 1 => (n + 1) \div a = n \div a + 1 /\ (n + 1) % a = 0
         /\ n % a # a - 1 => (n + 1) \div a = n \div a /\ (n + 1) % a = (n % a) + 1
<1>1. n \div a \in Nat /\ n % a \in 0..(a - 1) /\ n = a * (n \div a) + (n % a)
  OBVIOUS
<1> DEFINE m == n \div a
           s == n % a
<1> SUFFICES ASSUME TRUE
             PROVE  /\ s = a - 1 => (n + 1) \div a = m + 1 /\ (n + 1) % a = 0
                    /\ s # a - 1 => (n + 1) \div a = m /\ (n + 1) % a = s + 1
  BY <1>1
<1>2. m \in Nat /\ s \in 0..(a - 1) /\ n = a * m + s
  BY <1>1
<1> HIDE DEF m, s
<1>3. CASE s = a - 1
  <2>1. n + 1 = a * (m + 1) + 0 /\ m + 1 \in Nat /\ 0 \in 0..(a - 1) /\ n + 1 \in Nat
    BY <1>2, <1>3
  <2> QED
    BY <1>3, <2>1, QuotientIs
<1>4. CASE s # a - 1
  <2>1. n + 1 = a * m + (s + 1) /\ s + 1 \in 0..(a - 1) /\ n + 1 \in Nat
    BY <1>2, <1>4
  <2> QED
    BY <1>2, <1>4, <2>1, QuotientIs
<1> QED
  BY <1>3, <1>4

(* Dividing by a product is dividing twice. *)
LEMMA ProductRemainder ==
  ASSUME NEW a \in Nat \ {0}, NEW w \in Nat \ {0}, NEW n \in Nat
  PROVE  n % (a * w) = a * w - 1 <=> n % a = a - 1 /\ (n \div a) % w = w - 1
<1> DEFINE m == n \div a
           s == n % a
           t == m % w
           u == m \div w
<1>1. m \in Nat /\ s \in 0..(a - 1) /\ n = a * m + s
  BY NextQuotient
<1>2. u \in Nat /\ t \in 0..(w - 1) /\ m = w * u + t
  <2> HIDE DEF m
  <2> QED
    BY <1>1, NextQuotient
<1> HIDE DEF m, s, t, u
<1>3. n = (a * w) * u + (a * t + s)
  <2>1. a * m = a * (w * u) + a * t
    BY <1>1, <1>2
  <2>2. a * (w * u) = (a * w) * u
    BY <1>2
  <2> QED
    BY <1>1, <1>2, <2>1, <2>2
<1>4. a * w \in Nat \ {0}
  BY SMT
<1>5. a * t + s \in 0..(a * w - 1) /\ (a * t + s = a * w - 1 <=> s = a - 1 /\ t = w - 1)
  <2>1. PICK z \in Nat : w = t + 1 + z
    <3>1. w - t - 1 \in Nat /\ w = t + 1 + (w - t - 1)
      BY <1>2
    <3> QED
      BY <3>1
  <2>2. a * w = a * t + a + a * z /\ a * z \in Nat /\ a * t \in Nat
    BY <1>2, <2>1
  <2>3. z = 0 <=> t = w - 1
    BY <1>2, <2>1
  <2>4. z # 0 => a * z >= a
    BY <2>1
  <2>5. z = 0 => a * z = 0
    OBVIOUS
  <2> DEFINE at == a * t
             az == a * z
  <2>6. /\ at \in Nat /\ az \in Nat /\ a * w = at + a + az /\ (az = 0 <=> t = w - 1)
        /\ az # 0 => az >= a
    BY <2>2, <2>3, <2>4, <2>5
  <2> HIDE DEF at, az
  <2> SUFFICES at + s \in 0..(a * w - 1) /\ (at + s = a * w - 1 <=> s = a - 1 /\ t = w - 1)
    BY DEF at
  <2> DEFINE aw == a * w
  <2> HIDE DEF aw
  <2> SUFFICES at + s \in 0..(aw - 1) /\ (at + s = aw - 1 <=> s = a - 1 /\ t = w - 1)
    BY DEF aw
  <2>7. aw = at + a + az
    BY <2>6 DEF aw
  <2> QED
    BY <1>1, <2>6, <2>7
<1>6. n % (a * w) = a * t + s
  BY <1>2, <1>3, <1>4, <1>5, QuotientIs
<1> QED
  BY <1>5, <1>6 DEF s, t, m
-----------------------------------------------------------------------------
(* Picking elements of a sequence, one position at a time.                   *)
LEMMA PickedSteps ==
  ASSUME NEW V, NEW seq \in Seq(V), NEW S
  PROVE  /\ PickedOf(seq, S) \in [0..Len(seq) -> Seq(V)]
         /\ PickedOf(seq, S)[0] = << >>
         /\ \A k \in 1..Len(seq) :
              PickedOf(seq, S)[k] = IF k \in S THEN Append(PickedOf(seq, S)[k - 1], seq[k])
                                    ELSE PickedOf(seq, S)[k - 1]
<1> DEFINE n == Len(seq)
           L == Seq(V)
           base == << >>
           step == [e \in (1..n) \X L |-> IF e[1] \in S THEN Append(e[2], seq[e[1]]) ELSE e[2]]
           Picks(f) == f = [k \in 0..n |-> IF k = 0 THEN << >>
                                           ELSE IF k \in S THEN Append(f[k - 1], seq[k])
                                           ELSE f[k - 1]]
           picked == CHOOSE f : Picks(f)
<1>0. n \in Nat /\ base \in L
  OBVIOUS
<1>1. step \in [(1..n) \X L -> L]
  <2>1. \A f \in L : \A i \in 1..n : Append(f, seq[i]) \in L
    OBVIOUS
  <2>2. ASSUME NEW e \in (1..n) \X L
        PROVE  (IF e[1] \in S THEN Append(e[2], seq[e[1]]) ELSE e[2]) \in L
    <3>1. e[1] \in 1..n /\ e[2] \in L
      OBVIOUS
    <3> HIDE DEF L, n
    <3> QED
      BY <2>1, <3>1
  <2> HIDE DEF L, n
  <2> QED
    BY <2>2
<1>2. PICK f : Iterates(L, n, base, step, f)
  <2> HIDE DEF L, step, n, base
  <2> QED
    BY Zenon, <1>0, <1>1, IterationExists
<1>3. ASSUME NEW k \in 1..n
      PROVE  f[k] = IF k \in S THEN Append(f[k - 1], seq[k]) ELSE f[k - 1]
  <2>1. f[k - 1] \in L
    BY <1>2 DEF Iterates
  <2>2. <<k, f[k - 1]>> \in (1..n) \X L
    BY <2>1
  <2> HIDE DEF L
  <2> QED
    BY <1>2, <2>2 DEF Iterates
<1>4. Picks(f)
  <2>1. \A k \in 0..n : f[k] = IF k = 0 THEN << >>
                               ELSE IF k \in S THEN Append(f[k - 1], seq[k]) ELSE f[k - 1]
    <3>1. f[0] = << >>
      BY <1>2 DEF Iterates
    <3>2. \A k \in 0..n : k = 0 \/ k \in 1..n
      BY <1>0
    <3> HIDE DEF n
    <3> SUFFICES ASSUME NEW k \in 0..n
                 PROVE  f[k] = IF k = 0 THEN << >>
                               ELSE IF k \in S THEN Append(f[k - 1], seq[k]) ELSE f[k - 1]
      OBVIOUS
    <3>3. CASE k = 0
      BY <3>1, <3>3
    <3>4. CASE k # 0
      BY <1>3, <3>2, <3>4
    <3> QED
      BY <3>3, <3>4
  <2>2. f = [k \in 0..n |-> f[k]]
    BY <1>2 DEF Iterates
  <2> QED
    BY <2>1, <2>2
<1>5. Picks(picked)
  <2> HIDE DEF Picks
  <2> QED
    BY <1>4
<1>6. PickedOf(seq, S) = picked
  BY Zenon DEF PickedOf
<1>7. /\ picked = [k \in 0..n |-> picked[k]] /\ picked[0] = base
      /\ \A k \in 1..n : picked[k] = IF k \in S THEN Append(picked[k - 1], seq[k])
                                     ELSE picked[k - 1]
  <2> HIDE DEF picked
  <2>1. \A k \in 0..n : picked[k] = IF k = 0 THEN << >>
                                    ELSE IF k \in S THEN Append(picked[k - 1], seq[k])
                                    ELSE picked[k - 1]
    BY <1>5
  <2>2. 0 \in 0..n /\ \A k \in 1..n : k \in 0..n /\ k # 0
    BY <1>0
  <2>3. picked = [k \in 0..n |-> picked[k]]
    BY <1>5
  <2> HIDE DEF Picks
  <2> QED
    BY <2>1, <2>2, <2>3
<1> HIDE DEF picked, Picks
<1>8. \A k \in 1..n : picked[k - 1] \in L => picked[k] = step[<<k, picked[k - 1]>>]
  <2> SUFFICES ASSUME NEW k \in 1..n, NEW v \in L, v = picked[k - 1]
               PROVE  picked[k] = step[<<k, v>>]
    OBVIOUS
  <2>1. <<k, v>> \in (1..n) \X L
    OBVIOUS
  <2>2. picked[k] = IF k \in S THEN Append(v, seq[k]) ELSE v
    BY <1>7
  <2> HIDE DEF L, n
  <2> QED
    BY <2>1, <2>2
<1>9. Iterates(L, n, base, step, picked)
  <2> HIDE DEF L, step, n, base
  <2> QED
    BY <1>0, <1>1, <1>7, <1>8, IterationIs
<1>10. picked \in [0..n -> L]
  BY <1>9 DEF Iterates
<1> QED
  BY <1>6, <1>7, <1>10

(* What is picked of the first n elements depends on these alone. *)
SameFirst(n, seq, S, other, T) ==
  n <= Len(other) /\ \A i \in 1..n : seq[i] = other[i] /\ (i \in S <=> i \in T)

LEMMA PickedAgree ==
  ASSUME NEW V, NEW seq \in Seq(V), NEW other \in Seq(V), NEW S, NEW T,
         NEW n \in 0..Len(seq), SameFirst(n, seq, S, other, T)
  PROVE  PickedOf(seq, S)[n] = PickedOf(other, T)[n]
<1> DEFINE f == PickedOf(seq, S)
           h == PickedOf(other, T)
           bad == {k \in 0..n : f[k] # h[k]}
<1> USE DEF SameFirst
<1>1. /\ f[0] = << >> /\ h[0] = << >>
      /\ \A k \in 1..Len(seq) : f[k] = IF k \in S THEN Append(f[k - 1], seq[k]) ELSE f[k - 1]
      /\ \A k \in 1..Len(other) : h[k] = IF k \in T THEN Append(h[k - 1], other[k]) ELSE h[k - 1]
  BY PickedSteps
<1> HIDE DEF f, h
<1>2. bad = {}
  <2> SUFFICES ASSUME bad # {} PROVE FALSE
    OBVIOUS
  <2>1. PICK k \in bad : \A j \in bad : k <= j
    <3>1. bad \in SUBSET Nat
      OBVIOUS
    <3> HIDE DEF bad
    <3> QED
      BY <3>1, SmallestNat
  <2>2. k # 0
    BY <1>1, <2>1
  <2>3. k \in 1..n /\ k \in 1..Len(seq) /\ k \in 1..Len(other) /\ k - 1 \in 0..n /\ k - 1 \notin bad
    BY <2>1, <2>2
  <2>4. f[k - 1] = h[k - 1]
    BY <2>3
  <2>5. f[k] = h[k]
    BY <1>1, <2>3, <2>4
  <2> QED
    BY <2>1, <2>5
<1>3. n \in 0..n
  OBVIOUS
<1> QED
  BY <1>2, <1>3 DEF f, h

LEMMA PickedAppends ==
  ASSUME NEW V, NEW seq \in Seq(V), NEW e \in V, NEW S, NEW T,
         \A i \in 1..Len(seq) : i \in S <=> i \in T
  PROVE  /\ Picked(seq, S) \in Seq(V)
         /\ Picked(Append(seq, e), T) =
              IF Len(seq) + 1 \in T THEN Append(Picked(seq, S), e) ELSE Picked(seq, S)
<1> DEFINE more == Append(seq, e)
           n == Len(seq)
<1>1. /\ more \in Seq(V) /\ Len(more) = n + 1 /\ more[n + 1] = e /\ n \in Nat
      /\ \A i \in 1..n : more[i] = seq[i]
  OBVIOUS
<1> HIDE DEF more
<1>2. PickedOf(seq, S)[n] = PickedOf(more, T)[n]
  <2> SUFFICES ASSUME NEW k \in 0..Len(seq), k = n
               PROVE  PickedOf(seq, S)[k] = PickedOf(more, T)[k]
    OBVIOUS
  <2>1. SameFirst(k, seq, S, more, T)
    BY <1>1 DEF SameFirst
  <2>2. more \in Seq(V)
    BY <1>1
  <2> HIDE DEF n
  <2> QED
    BY <2>1, <2>2, PickedAgree
<1>3. PickedOf(more, T)[n + 1] = IF n + 1 \in T THEN Append(PickedOf(more, T)[n], e)
                                 ELSE PickedOf(more, T)[n]
  <2> SUFFICES ASSUME NEW k, k = n + 1
               PROVE  PickedOf(more, T)[k] = IF k \in T THEN Append(PickedOf(more, T)[n], e)
                                             ELSE PickedOf(more, T)[n]
    OBVIOUS
  <2>1. k \in 1..Len(more) /\ k - 1 = n /\ more[k] = e
    BY <1>1
  <2> HIDE DEF n
  <2> QED
    BY <1>1, <2>1, PickedSteps
<1>4. PickedOf(seq, S)[n] \in Seq(V)
  BY PickedSteps
<1>5. Picked(more, T) = PickedOf(more, T)[n + 1]
  BY <1>1 DEF Picked
<1> QED
  BY <1>2, <1>3, <1>4, <1>5 DEF Picked, more

(* What is picked is what is at those positions. *)
LEMMA PickedAre ==
  ASSUME NEW V, NEW seq \in Seq(V), NEW S
  PROVE  /\ Picked(seq, S) \in Seq(V)
         /\ \A k \in DOMAIN Picked(seq, S) :
              \E i \in DOMAIN seq : i \in S /\ Picked(seq, S)[k] = seq[i]
         /\ \A i \in DOMAIN seq : i \in S =>
              \E k \in DOMAIN Picked(seq, S) : Picked(seq, S)[k] = seq[i]
<1> DEFINE f == PickedOf(seq, S)
           L == Len(seq)
           Good(n) == /\ \A k \in 1..Len(f[n]) : \E i \in 1..n : i \in S /\ f[n][k] = seq[i]
                      /\ \A i \in 1..n : i \in S => \E k \in 1..Len(f[n]) : f[n][k] = seq[i]
           bad == {n \in 0..L : ~Good(n)}
<1>1. /\ f \in [0..L -> Seq(V)] /\ f[0] = << >> /\ L \in Nat /\ DOMAIN seq = 1..L
      /\ \A k \in 1..L : f[k] = IF k \in S THEN Append(f[k - 1], seq[k]) ELSE f[k - 1]
  BY PickedSteps
<1>2. \A i \in 1..L : seq[i] \in V
  OBVIOUS
<1> HIDE DEF f, L
<1>3. bad = {}
  <2> SUFFICES ASSUME bad # {} PROVE FALSE
    OBVIOUS
  <2>1. PICK n \in bad : \A j \in bad : n <= j
    <3>1. bad \in SUBSET Nat
      BY <1>1
    <3> HIDE DEF bad
    <3> QED
      BY <3>1, SmallestNat
  <2>2. n # 0
    <3>1. Good(0)
      BY <1>1
    <3> QED
      BY <2>1, <3>1
  <2>3. n \in 1..L /\ n - 1 \in 0..L /\ n - 1 \notin bad /\ n \in Nat
    <3> HIDE DEF Good
    <3>1. n \in 1..L /\ n - 1 \in 0..L /\ n \in Nat
      BY <1>1, <2>1, <2>2
    <3>2. n - 1 \notin bad
      <4> SUFFICES ASSUME n - 1 \in bad PROVE FALSE
        OBVIOUS
      <4>1. n <= n - 1
        BY <2>1
      <4> QED
        BY <3>1, <4>1
    <3> QED
      BY <3>1, <3>2
  <2>4. Good(n - 1)
    BY <2>3
  <2> DEFINE old == f[n - 1]
             m == Len(old)
  <2>5. old \in Seq(V) /\ m \in Nat /\ seq[n] \in V
    BY <1>1, <1>2, <2>3
  <2>6. /\ \A k \in 1..m : \E i \in 1..(n - 1) : i \in S /\ old[k] = seq[i]
        /\ \A i \in 1..(n - 1) : i \in S => \E k \in 1..m : old[k] = seq[i]
    BY <2>4
  <2>7. CASE n \notin S
    <3>1. f[n] = old
      BY <1>1, <2>3, <2>7
    <3>2. \A i \in 1..(n - 1) : i \in 1..n
      BY <2>3
    <3>3. \A i \in 1..n : i \in S => i \in 1..(n - 1)
      BY <2>3, <2>7
    <3> HIDE DEF old
    <3>4. Good(n)
      BY <2>6, <3>1, <3>2, <3>3
    <3> QED
      BY <2>1, <3>4
  <2>8. CASE n \in S
    <3>1. f[n] = Append(old, seq[n])
      BY <1>1, <2>3, <2>8
    <3> HIDE DEF old
    <3>2. Len(f[n]) = m + 1 /\ f[n][m + 1] = seq[n] /\ \A k \in 1..m : f[n][k] = old[k]
      BY <2>5, <3>1
    <3>3. \A k \in 1..(m + 1) : \E i \in 1..n : i \in S /\ f[n][k] = seq[i]
      <4> SUFFICES ASSUME NEW k \in 1..(m + 1) PROVE \E i \in 1..n : i \in S /\ f[n][k] = seq[i]
        OBVIOUS
      <4>1. CASE k = m + 1
        BY <2>3, <2>8, <3>2, <4>1
      <4>2. CASE k # m + 1
        <5>1. k \in 1..m
          BY <2>5, <4>2
        <5>2. PICK i \in 1..(n - 1) : i \in S /\ old[k] = seq[i]
          BY <2>6, <5>1
        <5> QED
          BY <2>3, <3>2, <5>1, <5>2
      <4> QED
        BY <4>1, <4>2
    <3>4. \A i \in 1..n : i \in S => \E k \in 1..(m + 1) : f[n][k] = seq[i]
      <4> SUFFICES ASSUME NEW i \in 1..n, i \in S PROVE \E k \in 1..(m + 1) : f[n][k] = seq[i]
        OBVIOUS
      <4>1. CASE i = n
        BY <2>5, <3>2, <4>1
      <4>2. CASE i # n
        <5>1. i \in 1..(n - 1)
          BY <2>3, <4>2
        <5>2. PICK k \in 1..m : old[k] = seq[i]
          BY <2>6, <5>1
        <5> QED
          BY <2>5, <3>2, <5>2
      <4> QED
        BY <4>1, <4>2
    <3> QED
      BY <2>1, <3>2, <3>3, <3>4
  <2> QED
    BY <2>7, <2>8
<1>4. L \in 0..L
  BY <1>1
<1>5. Good(L)
  BY <1>3, <1>4
<1>6. Picked(seq, S) = f[L] /\ f[L] \in Seq(V)
  BY <1>1, <1>4 DEF Picked, f, L
<1>7. DOMAIN f[L] = 1..Len(f[L])
  BY <1>6
<1> QED
  BY <1>1, <1>5, <1>6, <1>7

-----------------------------------------------------------------------------
(* The elements of a sequence that are in a set. *)
PickedIn(seq, Keep) == Picked(seq, {i \in DOMAIN seq : seq[i] \in Keep})

LEMMA PickedInAppends ==
  ASSUME NEW V, NEW seq \in Seq(V), NEW e \in V, NEW Keep
  PROVE  /\ PickedIn(seq, Keep) \in Seq(V)
         /\ PickedIn(Append(seq, e), Keep) =
              IF e \in Keep THEN Append(PickedIn(seq, Keep), e) ELSE PickedIn(seq, Keep)
<1> DEFINE S == {i \in DOMAIN seq : seq[i] \in Keep}
           T == {i \in DOMAIN Append(seq, e) : Append(seq, e)[i] \in Keep}
<1>1. \A i \in 1..Len(seq) : i \in S <=> i \in T
  OBVIOUS
<1>2. Len(seq) + 1 \in T <=> e \in Keep
  OBVIOUS
<1> HIDE DEF S, T
<1>3. /\ Picked(seq, S) \in Seq(V)
      /\ Picked(Append(seq, e), T) =
           IF Len(seq) + 1 \in T THEN Append(Picked(seq, S), e) ELSE Picked(seq, S)
  BY <1>1, PickedAppends
<1> QED
  BY <1>2, <1>3 DEF PickedIn, S, T

LEMMA PickedNothing ==
  ASSUME NEW S
  PROVE  Picked(<< >>, S) = << >>
<1> SUFFICES ASSUME NEW V, NEW s \in Seq(V), s = << >> PROVE Picked(s, S) = << >>
  <2>1. << >> \in Seq({})
    OBVIOUS
  <2> QED
    BY <2>1
<1>1. Len(s) = 0
  OBVIOUS
<1>2. PickedOf(s, S)[0] = << >>
  BY PickedSteps
<1> QED
  BY <1>1, <1>2 DEF Picked

(* Picking from what was picked, seen through a function. *)
LEMMA PickedTwice ==
  ASSUME NEW U, NEW V, NEW W, NEW h, Maps(h, V, W), NEW seq \in Seq(U), NEW S, NEW Keep, NEW T,
         \A i \in DOMAIN seq : i \in S => seq[i] \in V,
         \A i \in DOMAIN seq : i \in T <=> i \in S /\ h[seq[i]] \in Keep
  PROVE  PickedIn(Mapped(h, Picked(seq, S)), Keep) = Mapped(h, Picked(seq, T))
<1> DEFINE L == Len(seq)
           F == PickedOf(seq, S)
           G == PickedOf(seq, T)
           Good(n) == /\ F[n] \in Seq(V) /\ G[n] \in Seq(V)
                      /\ PickedIn(Mapped(h, F[n]), Keep) = Mapped(h, G[n])
           bad == {n \in 0..L : ~Good(n)}
<1>1. /\ F[0] = << >> /\ L \in Nat
      /\ \A k \in 1..L : F[k] = IF k \in S THEN Append(F[k - 1], seq[k]) ELSE F[k - 1]
  BY PickedSteps
<1>2. /\ G[0] = << >>
      /\ \A k \in 1..L : G[k] = IF k \in T THEN Append(G[k - 1], seq[k]) ELSE G[k - 1]
  BY PickedSteps
<1>3. \A k \in 1..L : k \in S => seq[k] \in V
  OBVIOUS
<1>4. Picked(seq, S) = F[L] /\ Picked(seq, T) = G[L]
  BY DEF Picked
<1>5. \A i \in 1..L : i \in T <=> i \in S /\ h[seq[i]] \in Keep
  OBVIOUS
<1> HIDE DEF F, G, L
<1>6. bad = {}
  <2> SUFFICES ASSUME bad # {} PROVE FALSE
    OBVIOUS
  <2>1. PICK n \in bad : \A j \in bad : n <= j
    <3>1. bad \in SUBSET Nat
      BY <1>1
    <3> HIDE DEF bad
    <3> QED
      BY <3>1, SmallestNat
  <2> HIDE DEF Good
  <2>2. n # 0
    <3>1. Mapped(h, << >>) = << >> /\ << >> \in Seq(V)
      BY DEF Mapped
    <3>2. PickedIn(<< >>, Keep) = << >>
      BY PickedNothing DEF PickedIn
    <3>3. Good(0)
      BY <1>1, <1>2, <3>1, <3>2 DEF Good
    <3> QED
      BY <2>1, <3>3
  <2>3. n \in 1..L /\ n - 1 \in 0..L /\ ~Good(n)
    BY <1>1, <2>1, <2>2
  <2>4. Good(n - 1)
    <3>1. n - 1 \notin bad
      <4> SUFFICES ASSUME n - 1 \in bad PROVE FALSE
        OBVIOUS
      <4>1. n <= n - 1
        BY <2>1
      <4> QED
        BY <1>1, <2>3, <4>1
    <3> QED
      BY <2>3, <3>1
  <2> DEFINE f == F[n - 1]
             g == G[n - 1]
             e == seq[n]
  <2>5. /\ f \in Seq(V) /\ g \in Seq(V)
        /\ PickedIn(Mapped(h, f), Keep) = Mapped(h, g)
    BY <2>4 DEF Good
  <2>6. n \in S => e \in V /\ h[e] \in W
    BY <1>3, <2>3 DEF Maps
  <2>7. /\ F[n] = IF n \in S THEN Append(f, e) ELSE f
        /\ G[n] = IF n \in T THEN Append(g, e) ELSE g
        /\ n \in T <=> n \in S /\ h[e] \in Keep
    BY <1>1, <1>2, <1>5, <2>3
  <2> HIDE DEF f, g, e, bad
  <2>8. CASE n \notin S
    BY <2>3, <2>5, <2>7, <2>8 DEF Good
  <2>9. CASE n \in S
    <3> DEFINE all == Mapped(h, f)
               last == h[e]
    <3>1. all \in Seq(W) /\ Mapped(h, Append(f, e)) = Append(all, last)
      BY <2>5, <2>6, <2>9, MappedAppends
    <3>2. Mapped(h, Append(g, e)) = Append(Mapped(h, g), last)
      BY <2>5, <2>6, <2>9, MappedAppends
    <3>3. last \in W
      BY <2>6, <2>9
    <3>4. Append(f, e) \in Seq(V) /\ Append(g, e) \in Seq(V)
      BY <2>5, <2>6, <2>9
    <3>5. PickedIn(all, Keep) = Mapped(h, g)
      BY <2>5
    <3>6. n \in T <=> last \in Keep
      BY <2>7, <2>9
    <3> HIDE DEF all, last
    <3>7. PickedIn(Append(all, last), Keep) =
            IF last \in Keep THEN Append(PickedIn(all, Keep), last) ELSE PickedIn(all, Keep)
      BY <3>1, <3>3, PickedInAppends
    <3> QED
      BY <2>3, <2>5, <2>7, <2>9, <3>1, <3>2, <3>4, <3>5, <3>6, <3>7 DEF Good
  <2> QED
    BY <2>8, <2>9
<1>7. L \in 0..L
  BY <1>1
<1>8. Good(L)
  <2> HIDE DEF Good
  <2> QED
    BY <1>6, <1>7
<1> QED
  BY <1>4, <1>8

-----------------------------------------------------------------------------
LEMMA AppendedAt ==
  ASSUME NEW V, NEW f \in Seq(V), NEW e \in V
  PROVE  /\ Append(f, e) \in Seq(V) /\ Len(Append(f, e)) = Len(f) + 1
         /\ Append(f, e)[Len(f) + 1] = e
         /\ \A k \in 1..Len(f) : Append(f, e)[k] = f[k]
OBVIOUS

(* Induction up to a number, on the set of the numbers it holds for.         *)
LEMMA InductionTo ==
  ASSUME NEW L \in Nat, NEW G, 0 \in G, \A n \in 1..L : n - 1 \in G => n \in G
  PROVE  \A n \in 0..L : n \in G
<1> DEFINE bad == {n \in 0..L : n \notin G}
<1> SUFFICES ASSUME bad # {} PROVE FALSE
  OBVIOUS
<1>1. PICK n \in bad : \A m \in bad : n <= m
  <2>1. bad \in SUBSET Nat
    OBVIOUS
  <2> HIDE DEF bad
  <2> QED
    BY <2>1, SmallestNat
<1>2. n \in 1..L /\ n - 1 \in 0..L /\ ~(n <= n - 1)
  BY <1>1
<1>3. n - 1 \in G
  BY <1>1, <1>2
<1> QED
  BY <1>1, <1>2, <1>3

(* Sequences of the same length picked at the same positions: what is picked *)
(* of them comes from the same positions, in the same order.                 *)
At(at, few, n, S, seq) ==
  /\ at \in [1..few -> 1..n]
  /\ \A k \in 1..few : at[k] \in S
  /\ \A j, k \in 1..few : j < k => at[j] < at[k]

Together(at, f, h, n, S, seq, other) ==
  /\ At(at, Len(f), n, S, seq)
  /\ \A k \in 1..Len(f) : f[k] = seq[at[k]] /\ h[k] = other[at[k]]

LEMMA PickedTogether ==
  ASSUME NEW V, NEW W, NEW seq \in Seq(V), NEW other \in Seq(W), Len(seq) = Len(other),
         NEW S, NEW n \in 0..Len(seq)
  PROVE  LET f == PickedOf(seq, S)[n]
             h == PickedOf(other, S)[n]
         IN /\ f \in Seq(V) /\ h \in Seq(W) /\ Len(f) = Len(h)
            /\ \E at : Together(at, f, h, n, S, seq, other)
<1> DEFINE L == Len(seq)
           F == PickedOf(seq, S)
           H == PickedOf(other, S)
           Good(m) == /\ F[m] \in Seq(V) /\ H[m] \in Seq(W) /\ Len(F[m]) = Len(H[m])
                      /\ \E at : /\ At(at, Len(F[m]), m, S, seq)
                                 /\ \A k \in 1..Len(F[m]) : F[m][k] = seq[at[k]] /\ H[m][k] = other[at[k]]
           good == {m \in 0..L : Good(m)}
<1>1. /\ F \in [0..L -> Seq(V)] /\ F[0] = << >> /\ L \in Nat
      /\ \A k \in 1..L : F[k] = IF k \in S THEN Append(F[k - 1], seq[k]) ELSE F[k - 1]
      /\ \A k \in 1..L : seq[k] \in V
  BY PickedSteps
<1>2. /\ H \in [0..L -> Seq(W)] /\ H[0] = << >>
      /\ \A k \in 1..L : H[k] = IF k \in S THEN Append(H[k - 1], other[k]) ELSE H[k - 1]
      /\ \A k \in 1..L : other[k] \in W
  BY PickedSteps
<1> HIDE DEF F, H, L
<1>3. 0 \in good
  <2>1. At(<< >>, 0, 0, S, seq)
    BY DEF At
  <2>2. F[0] = << >> /\ H[0] = << >> /\ F[0] \in Seq(V) /\ H[0] \in Seq(W) /\ Len(F[0]) = 0 /\ Len(H[0]) = 0
    BY <1>1, <1>2
  <2>3. \A k \in 1..Len(F[0]) : FALSE
    BY <2>2
  <2>4. Good(0)
    BY <2>1, <2>2, <2>3
  <2> QED
    BY <1>1, <2>4
<1>4. ASSUME NEW m \in 1..L, m - 1 \in good PROVE m \in good
  <2>1. m \in 0..L /\ m - 1 \in 0..L /\ m \in Nat
    BY <1>1
  <2>2. Good(m - 1)
    BY <1>4
  <2> DEFINE f == F[m - 1]
             h == H[m - 1]
             l == Len(f)
  <2>3. PICK at : At(at, l, m - 1, S, seq) /\ \A k \in 1..l : f[k] = seq[at[k]] /\ h[k] = other[at[k]]
    BY <2>2
  <2>4. f \in Seq(V) /\ h \in Seq(W) /\ l \in Nat /\ Len(h) = l
    BY <2>2
  <2>5. /\ at \in [1..l -> 1..(m - 1)] /\ \A k \in 1..l : at[k] \in S
        /\ \A j, k \in 1..l : j < k => at[j] < at[k]
    BY <2>3 DEF At
  <2>6. CASE m \notin S
    <3>1. F[m] = f /\ H[m] = h
      BY <1>1, <1>2, <2>6
    <3>2. At(at, l, m, S, seq)
      <4>1. at \in [1..l -> 1..m]
        BY <2>1, <2>5
      <4> QED
        BY <2>5, <4>1 DEF At
    <3> HIDE DEF f, h
    <3>3. Good(m)
      BY <2>3, <2>4, <3>1, <3>2 DEF l
    <3> QED
      BY <2>1, <3>3
  <2>7. CASE m \in S
    <3>1. F[m] = Append(f, seq[m]) /\ H[m] = Append(h, other[m])
      BY <1>1, <1>2, <2>7
    <3> DEFINE up == [k \in 1..(l + 1) |-> IF k = l + 1 THEN m ELSE at[k]]
    <3> HIDE DEF f, h, l
    <3>2. /\ F[m] \in Seq(V) /\ H[m] \in Seq(W) /\ Len(F[m]) = l + 1 /\ Len(H[m]) = l + 1
          /\ F[m][l + 1] = seq[m] /\ H[m][l + 1] = other[m]
          /\ \A k \in 1..l : F[m][k] = f[k] /\ H[m][k] = h[k]
      <4>1. seq[m] \in V /\ other[m] \in W /\ f \in Seq(V) /\ h \in Seq(W) /\ Len(f) = l /\ Len(h) = l
        BY <1>1, <1>2, <2>4 DEF l
      <4>2. /\ F[m] \in Seq(V) /\ Len(F[m]) = l + 1 /\ F[m][l + 1] = seq[m]
            /\ \A k \in 1..l : F[m][k] = f[k]
        BY <3>1, <4>1, AppendedAt
      <4>3. /\ H[m] \in Seq(W) /\ Len(H[m]) = l + 1 /\ H[m][l + 1] = other[m]
            /\ \A k \in 1..l : H[m][k] = h[k]
        BY <3>1, <4>1, AppendedAt
      <4> QED
        BY <4>2, <4>3
    <3>3. up \in [1..(l + 1) -> 1..m] /\ up[l + 1] = m /\ \A k \in 1..l : up[k] = at[k] /\ k # l + 1
      <4>1. l \in Nat
        BY <2>4
      <4>2. \A k \in 1..(l + 1) : k # l + 1 => k \in 1..l
        BY <4>1
      <4> QED
        BY <2>1, <2>5, <4>1, <4>2
    <3> HIDE DEF up
    <3>4. \A k \in 1..(l + 1) : k = l + 1 \/ k \in 1..l
      BY <2>4
    <3>5. At(up, l + 1, m, S, seq)
      <4>1. \A k \in 1..(l + 1) : up[k] \in S
        BY <2>5, <2>7, <3>3, <3>4
      <4>2. ASSUME NEW j \in 1..(l + 1), NEW k \in 1..(l + 1), j < k PROVE up[j] < up[k]
        <5>1. j \in 1..l
          BY <2>4, <4>2
        <5>2. CASE k = l + 1
          BY <2>1, <2>5, <3>3, <5>1, <5>2
        <5>3. CASE k \in 1..l
          BY <2>5, <3>3, <4>2, <5>1, <5>3
        <5> QED
          BY <3>4, <5>2, <5>3
      <4> QED
        BY <3>3, <4>1, <4>2 DEF At
    <3>6. \A k \in 1..(l + 1) : F[m][k] = seq[up[k]] /\ H[m][k] = other[up[k]]
      BY <2>3, <3>2, <3>3, <3>4
    <3>7. Good(m)
      BY <3>2, <3>5, <3>6
    <3> QED
      BY <2>1, <3>7
  <2> QED
    BY <2>6, <2>7
<1>5. \A m \in 0..L : m \in good
  <2>1. L \in Nat
    BY <1>1
  <2> HIDE DEF good
  <2> QED
    BY <1>3, <1>4, <2>1, InductionTo
<1>6. Good(n)
  BY <1>5 DEF L
<1> QED
  BY <1>6 DEF F, H, Together

LEMMA Increasing ==
  ASSUME NEW l \in Nat, NEW n \in Nat, NEW at \in [1..l -> 1..n],
         \A j, k \in 1..l : j < k => at[j] < at[k]
  PROVE  l <= n
<1> DEFINE good == {k \in 0..l : k > 0 => k <= at[k]}
<1>1. 0 \in good
  OBVIOUS
<1>2. ASSUME NEW k \in 1..l, k - 1 \in good PROVE k \in good
  <2>1. k \in 0..l /\ at[k] \in 1..n
    OBVIOUS
  <2>2. CASE k = 1
    BY <2>1, <2>2
  <2>3. CASE k # 1
    <3>1. k - 1 \in 1..l /\ k - 1 < k /\ k - 1 > 0
      BY <2>3
    <3>2. at[k - 1] \in 1..n /\ at[k - 1] < at[k] /\ k - 1 <= at[k - 1]
      BY <1>2, <3>1
    <3>3. k <= at[k]
      BY <2>1, <3>2
    <3> QED
      BY <2>1, <3>3
  <2> QED
    BY <2>2, <2>3
<1>3. \A k \in 0..l : k \in good
  <2> HIDE DEF good
  <2> QED
    BY <1>1, <1>2, InductionTo
<1>4. l \in good
  BY <1>3
<1>5. l > 0 => l <= at[l] /\ at[l] \in 1..n
  BY <1>4
<1> QED
  BY <1>5

-----------------------------------------------------------------------------
(* Picking by element: nothing, everything, and part by part.                *)
LEMMA PickedInJoined ==
  ASSUME NEW V, NEW few \in Seq(V), NEW more \in Seq(V), NEW Keep
  PROVE  /\ PickedIn(few, Keep) \in Seq(V)
         /\ (\A i \in DOMAIN more : more[i] \notin Keep) =>
              PickedIn(Joined(few, more), Keep) = PickedIn(few, Keep)
         /\ (\A i \in DOMAIN more : more[i] \in Keep) =>
              PickedIn(Joined(few, more), Keep) = Joined(PickedIn(few, Keep), more)
<1> DEFINE L == Len(more)
           first(m) == SubSeq(more, 1, m)
           Good(m) == /\ first(m) \in Seq(V) /\ Joined(few, first(m)) \in Seq(V)
                      /\ (\A i \in 1..m : more[i] \notin Keep) =>
                           PickedIn(Joined(few, first(m)), Keep) = PickedIn(few, Keep)
                      /\ (\A i \in 1..m : more[i] \in Keep) =>
                           PickedIn(Joined(few, first(m)), Keep) = Joined(PickedIn(few, Keep), first(m))
           good == {m \in 0..L : Good(m)}
<1>1. PickedIn(few, Keep) \in Seq(V)
  <2>1. \A e \in V : PickedIn(few, Keep) \in Seq(V)
    BY PickedInAppends
  <2>2. CASE V = {}
    <3>1. few = << >>
      BY <2>2
    <3> QED
      BY <3>1, PickedNothing DEF PickedIn
  <2> QED
    BY <2>1, <2>2
<1>2. L \in Nat /\ DOMAIN more = 1..L /\ \A i \in 1..L : more[i] \in V
  OBVIOUS
<1> DEFINE kept == PickedIn(few, Keep)
<1>3. 0 \in good
  <2>1. first(0) = << >> /\ << >> \in Seq(V)
    OBVIOUS
  <2>2. Joined(few, << >>) = few /\ Joined(kept, << >>) = kept
    BY <1>1 DEF Joined
  <2>3. Good(0)
    BY <2>1, <2>2
  <2> QED
    BY <1>2, <2>3
<1>4. ASSUME NEW m \in 1..L, m - 1 \in good PROVE m \in good
  <2>1. m \in 0..L /\ m - 1 \in 0..L /\ m \in Nat /\ more[m] \in V /\ m \in 1..m /\ \A i \in 1..(m - 1) : i \in 1..m
    BY <1>2
  <2>2. first(m) = Append(first(m - 1), more[m])
    BY <1>2, <2>1
  <2>3. Good(m - 1)
    BY <1>4
  <2> DEFINE before == first(m - 1)
  <2>4. before \in Seq(V) /\ Joined(few, before) \in Seq(V)
    BY <2>3
  <2>5. Joined(few, first(m)) = Append(Joined(few, before), more[m])
    BY <2>1, <2>2, <2>4 DEF Joined
  <2>6. PickedIn(Joined(few, first(m)), Keep) =
          IF more[m] \in Keep THEN Append(PickedIn(Joined(few, before), Keep), more[m])
          ELSE PickedIn(Joined(few, before), Keep)
    <3> HIDE DEF before, first
    <3>1. \A f \in Seq(V), e \in V :
            PickedIn(Append(f, e), Keep) =
              IF e \in Keep THEN Append(PickedIn(f, Keep), e) ELSE PickedIn(f, Keep)
      BY PickedInAppends
    <3> QED
      BY <2>1, <2>4, <2>5, <3>1
  <2>7. /\ (\A i \in 1..(m - 1) : more[i] \notin Keep) => PickedIn(Joined(few, before), Keep) = kept
        /\ (\A i \in 1..(m - 1) : more[i] \in Keep) => PickedIn(Joined(few, before), Keep) = Joined(kept, before)
    BY <2>3
  <2>8. first(m) \in Seq(V) /\ Joined(few, first(m)) \in Seq(V)
    <3> HIDE DEF before
    <3>1. Append(Joined(few, before), more[m]) \in Seq(V) /\ Append(before, more[m]) \in Seq(V)
      BY <2>1, <2>4
    <3>2. first(m) = Append(before, more[m])
      BY <2>2 DEF before
    <3> HIDE DEF first
    <3> QED
      BY <2>5, <3>1, <3>2
  <2>9. Append(Joined(kept, before), more[m]) = Joined(kept, first(m))
    <3>1. kept \in Seq(V)
      BY <1>1
    <3> HIDE DEF kept, before
    <3>2. Append(Joined(kept, before), more[m]) = Joined(kept, Append(before, more[m]))
      <4>1. \A f \in Seq(V), g \in Seq(V), e \in V : Append(Joined(f, g), e) = Joined(f, Append(g, e))
        BY AppendAfter
      <4> QED
        BY <2>1, <2>4, <3>1, <4>1
    <3>3. first(m) = Append(before, more[m])
      BY <2>2 DEF before
    <3> HIDE DEF first
    <3> QED
      BY <3>2, <3>3
  <2> HIDE DEF before, first, kept
  <2>10. Good(m)
    BY <2>1, <2>6, <2>7, <2>8, <2>9 DEF kept
  <2> QED
    BY <2>1, <2>10
<1>5. \A m \in 0..L : m \in good
  <2>1. L \in Nat
    BY <1>2
  <2> HIDE DEF good, L
  <2> QED
    BY <1>3, <1>4, <2>1, InductionTo
<1>6. Good(L)
  BY <1>2, <1>5
<1>7. first(L) = more
  BY <1>2
<1> HIDE DEF first
<1> QED
  BY <1>1, <1>2, <1>6, <1>7

LEMMA PickedInAll ==
  ASSUME NEW V, NEW seq \in Seq(V), NEW Keep
  PROVE  /\ (\A i \in DOMAIN seq : seq[i] \in Keep) => PickedIn(seq, Keep) = seq
         /\ (\A i \in DOMAIN seq : seq[i] \notin Keep) => PickedIn(seq, Keep) = << >>
<1>1. << >> \in Seq(V) /\ Joined(<< >>, seq) = seq
  BY DEF Joined
<1>2. PickedIn(<< >>, Keep) = << >>
  BY PickedNothing DEF PickedIn
<1>3. \A few \in Seq(V) :
        /\ (\A i \in DOMAIN seq : seq[i] \notin Keep) => PickedIn(Joined(few, seq), Keep) = PickedIn(few, Keep)
        /\ (\A i \in DOMAIN seq : seq[i] \in Keep) =>
             PickedIn(Joined(few, seq), Keep) = Joined(PickedIn(few, Keep), seq)
  BY PickedInJoined
<1>4. /\ (\A i \in DOMAIN seq : seq[i] \notin Keep) => PickedIn(Joined(<< >>, seq), Keep) = PickedIn(<< >>, Keep)
      /\ (\A i \in DOMAIN seq : seq[i] \in Keep) =>
           PickedIn(Joined(<< >>, seq), Keep) = Joined(PickedIn(<< >>, Keep), seq)
  BY <1>1, <1>3
<1> QED
  BY <1>1, <1>2, <1>4

(* Only the kth of the sequences has elements in Keep, and all of its are.   *)
LEMMA PickedOfParts ==
  ASSUME NEW V, NEW seqs \in Seq(Seq(V)), NEW Keep, NEW k \in DOMAIN seqs,
         \A i \in DOMAIN seqs : i # k => \A j \in DOMAIN seqs[i] : seqs[i][j] \notin Keep,
         \A j \in DOMAIN seqs[k] : seqs[k][j] \in Keep
  PROVE  PickedIn(FlattenSeq(seqs), Keep) = seqs[k]
<1> DEFINE L == Len(seqs)
           flat(m) == FlattenSeq(SubSeq(seqs, 1, m))
           Good(m) == flat(m) \in Seq(V) /\ PickedIn(flat(m), Keep) = IF m < k THEN << >> ELSE seqs[k]
           good == {m \in 0..L : Good(m)}
<1>1. L \in Nat /\ DOMAIN seqs = 1..L /\ k \in 1..L /\ \A i \in 1..L : seqs[i] \in Seq(V)
  OBVIOUS
<1>2. 0 \in good
  <2>1. SubSeq(seqs, 1, 0) = << >>
    OBVIOUS
  <2>2. flat(0) = << >>
    BY <2>1, FlattenNothing
  <2>3. PickedIn(<< >>, Keep) = << >> /\ << >> \in Seq(V)
    BY PickedNothing DEF PickedIn
  <2> HIDE DEF flat
  <2>4. Good(0)
    <3>1. 0 < k
      BY <1>1
    <3>2. flat(0) \in Seq(V) /\ PickedIn(flat(0), Keep) = << >>
      BY <2>2, <2>3
    <3> QED
      BY <3>1, <3>2
  <2> QED
    BY <1>1, <2>4
<1>3. ASSUME NEW m \in 1..L, m - 1 \in good PROVE m \in good
  <2>1. m \in 0..L /\ m - 1 \in 0..L /\ m \in Nat /\ seqs[m] \in Seq(V) /\ m \in DOMAIN seqs
    BY <1>1
  <2>2. /\ SubSeq(seqs, 1, m) = Append(SubSeq(seqs, 1, m - 1), seqs[m])
        /\ SubSeq(seqs, 1, m - 1) \in Seq(Seq(V))
    BY <1>1, <2>1
  <2>3. flat(m) = Joined(flat(m - 1), seqs[m]) /\ flat(m - 1) \in Seq(V)
    BY <2>1, <2>2, FlattenAppends
  <2>4. Good(m - 1)
    BY <1>3
  <2> HIDE DEF flat
  <2>5. flat(m) \in Seq(V)
    BY <2>1, <2>3 DEF Joined
  <2>6. CASE m = k
    <3>1. PickedIn(flat(m - 1), Keep) = << >>
      BY <1>1, <2>4, <2>6
    <3>2. PickedIn(flat(m), Keep) = Joined(<< >>, seqs[k])
      BY <2>1, <2>3, <2>6, <3>1, PickedInJoined
    <3>3. Joined(<< >>, seqs[k]) = seqs[k]
      BY <1>1 DEF Joined
    <3>4. Good(m)
      BY <1>1, <2>5, <2>6, <3>2, <3>3
    <3> QED
      BY <2>1, <3>4
  <2>7. CASE m # k
    <3>1. PickedIn(flat(m), Keep) = PickedIn(flat(m - 1), Keep)
      BY <2>1, <2>3, <2>7, PickedInJoined
    <3>2. m < k <=> m - 1 < k
      BY <1>1, <2>1, <2>7
    <3>3. Good(m)
      BY <2>4, <2>5, <3>1, <3>2
    <3> QED
      BY <2>1, <3>3
  <2> QED
    BY <2>6, <2>7
<1>4. \A m \in 0..L : m \in good
  <2>1. L \in Nat
    BY <1>1
  <2> HIDE DEF good, L
  <2> QED
    BY <1>2, <1>3, <2>1, InductionTo
<1>5. Good(L) /\ ~(L < k)
  BY <1>1, <1>4
<1>6. SubSeq(seqs, 1, L) = seqs
  BY <1>1
<1> QED
  BY <1>5, <1>6

LEMMA JoinedOne ==
  ASSUME NEW V, NEW f \in Seq(V), NEW g \in Seq(V)
  PROVE  /\ Joined(f, g) \in Seq(V)
         /\ \A i \in 1..Len(f) : Joined(f, g)[i] = f[i]
         /\ Len(g) = 1 => Len(Joined(f, g)) = Len(f) + 1 /\ Joined(f, g)[Len(f) + 1] = g[1]
<1>1. /\ Joined(f, g) \in Seq(V) /\ Len(Joined(f, g)) = Len(f) + Len(g)
      /\ \A i \in 1..Len(f) : Joined(f, g)[i] = f[i]
  BY JoinedAt
<1>2. \A i \in 1..Len(g) : Joined(f, g)[Len(f) + i] = g[i]
  BY JoinedAt
<1>3. Len(g) = 1 => 1 \in 1..Len(g)
  OBVIOUS
<1> QED
  BY <1>1, <1>2, <1>3

(* Flattening sequences of one element each.                                 *)
LEMMA FlattenOnes ==
  ASSUME NEW V, NEW seqs \in Seq(Seq(V)), \A i \in DOMAIN seqs : Len(seqs[i]) = 1
  PROVE  /\ FlattenSeq(seqs) \in Seq(V) /\ Len(FlattenSeq(seqs)) = Len(seqs)
         /\ \A i \in DOMAIN seqs : FlattenSeq(seqs)[i] = seqs[i][1]
<1> DEFINE L == Len(seqs)
           flat(m) == FlattenSeq(SubSeq(seqs, 1, m))
           Good(m) == /\ flat(m) \in Seq(V) /\ Len(flat(m)) = m
                      /\ \A i \in 1..m : flat(m)[i] = seqs[i][1]
           good == {m \in 0..L : Good(m)}
<1>1. L \in Nat /\ DOMAIN seqs = 1..L /\ \A i \in 1..L : seqs[i] \in Seq(V) /\ Len(seqs[i]) = 1
  OBVIOUS
<1>2. 0 \in good
  <2>1. SubSeq(seqs, 1, 0) = << >>
    OBVIOUS
  <2>2. flat(0) = << >>
    BY <2>1, FlattenNothing
  <2> HIDE DEF flat
  <2>3. Good(0)
    <3>1. flat(0) \in Seq(V) /\ Len(flat(0)) = 0
      <4>1. << >> \in Seq(V) /\ Len(<< >>) = 0
        OBVIOUS
      <4> QED
        BY <2>2, <4>1
    <3>2. \A i \in 1..0 : FALSE
      OBVIOUS
    <3> QED
      BY <3>1, <3>2
  <2> QED
    BY <1>1, <2>3
<1>3. ASSUME NEW m \in 1..L, m - 1 \in good PROVE m \in good
  <2>1. m \in 0..L /\ m - 1 \in 0..L /\ m \in Nat /\ seqs[m] \in Seq(V) /\ m \in DOMAIN seqs /\ Len(seqs[m]) = 1
    BY <1>1
  <2>2. /\ SubSeq(seqs, 1, m) = Append(SubSeq(seqs, 1, m - 1), seqs[m])
        /\ SubSeq(seqs, 1, m - 1) \in Seq(Seq(V))
    BY <1>1, <2>1
  <2>3. flat(m) = Joined(flat(m - 1), seqs[m]) /\ flat(m - 1) \in Seq(V)
    BY <2>1, <2>2, FlattenAppends
  <2>4. Good(m - 1)
    BY <1>3
  <2> HIDE DEF flat
  <2>5. /\ flat(m) \in Seq(V) /\ Len(flat(m)) = m
        /\ \A i \in 1..(m - 1) : flat(m)[i] = flat(m - 1)[i]
        /\ flat(m)[m] = seqs[m][1]
    <3>1. /\ Joined(flat(m - 1), seqs[m]) \in Seq(V)
          /\ Len(Joined(flat(m - 1), seqs[m])) = Len(flat(m - 1)) + 1
          /\ \A i \in 1..Len(flat(m - 1)) : Joined(flat(m - 1), seqs[m])[i] = flat(m - 1)[i]
          /\ Joined(flat(m - 1), seqs[m])[Len(flat(m - 1)) + 1] = seqs[m][1]
      BY <2>1, <2>3, JoinedOne
    <3>2. Len(flat(m - 1)) = m - 1 /\ (m - 1) + 1 = m
      BY <2>1, <2>4
    <3> QED
      BY <2>1, <2>3, <3>1, <3>2
  <2>6. \A i \in 1..m : i = m \/ i \in 1..(m - 1)
    BY <2>1
  <2>7. Good(m)
    BY <2>4, <2>5, <2>6
  <2> QED
    BY <2>1, <2>7
<1>4. \A m \in 0..L : m \in good
  <2>1. L \in Nat
    BY <1>1
  <2> HIDE DEF good, L
  <2> QED
    BY <1>2, <1>3, <2>1, InductionTo
<1>5. Good(L)
  BY <1>1, <1>4
<1>6. SubSeq(seqs, 1, L) = seqs
  BY <1>1
<1> QED
  BY <1>1, <1>5, <1>6
=============================================================================
