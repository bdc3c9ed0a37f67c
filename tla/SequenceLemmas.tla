---------------------------- MODULE SequenceLemmas ----------------------------
(***************************************************************************)
(* What the proofs need to know of recursive definitions over sequences:   *)
(* induction for a set of numbers, the concatenation FlattenSeq and the    *)
(* left fold of the community modules.                                     *)
(***************************************************************************)
EXTENDS Naturals, Sequences, SequencesExt, SequenceTheorems, WellFoundedInduction, TLAPS

\* Induction, for a set instead of a predicate: it follows from the minimum that a
\* set of natural numbers has.
LEMMA SetInduction ==
  ASSUME NEW S, 0 \in S, \A n \in Nat : n \in S => n + 1 \in S
  PROVE  \A n \in Nat : n \in S
<1> DEFINE Out == {n \in Nat : n \notin S}
           Less == OpToRel(<, Nat)
<1>1. SUFFICES ASSUME Out # {} PROVE FALSE
  OBVIOUS
<1>2. IsWellFoundedOn(Less, Nat)
  BY NatLessThanWellFounded
<1> HIDE DEF Less
<1>3. PICK x \in Out : \A y \in Out : <<y, x>> \notin Less
  <2>1. \E x \in Out : \A y \in Out : ~(<<y, x>> \in Less)
    <3> HIDE DEF Out
    <3>1. Out \subseteq Nat
      BY DEF Out
    <3>2. QED
      BY <1>1, <1>2, <3>1, WFMin
  <2>2. QED
    BY <2>1
<1>4. x \in Nat \ {0} /\ x - 1 \in Nat /\ (x - 1) + 1 = x
  OBVIOUS
<1>5. x - 1 \in Out
  BY <1>4
<1>6. <<x - 1, x>> \in Less
  BY <1>4 DEF Less, OpToRel
<1>7. QED
  BY <1>3, <1>5, <1>6

\* Primitive recursion up to a bound: from a first value, a function that takes each
\* value and its number to the next leads to a run of values.  The hypotheses and
\* the conclusion are named because the provers instantiate names more easily.
IsStep(step, T, n) == step \in [T \X (1..n) -> T]

IsRun(run, T, first, step, n) ==
  /\ run \in [0..n -> T]
  /\ run[0] = first
  /\ \A i \in 1..n : run[i] = step[<<run[i - 1], i>>]

LEMMA Recursion ==
  ASSUME NEW T, NEW first \in T, NEW n \in Nat, NEW step, IsStep(step, T, n)
  PROVE  \E run : IsRun(run, T, first, step, n)
<1> DEFINE Reached == {k \in Nat : k <= n => \E run : IsRun(run, T, first, step, k)}
<1>1. 0 \in Reached
  <2> DEFINE f == [i \in 0..0 |-> first]
  <2>1. IsRun(f, T, first, step, 0)
    BY DEF IsRun
  <2>2. QED
    BY <2>1
<1>2. ASSUME NEW k \in Nat, k \in Reached
      PROVE  k + 1 \in Reached
  <2>1. SUFFICES ASSUME k + 1 <= n
                 PROVE  \E run : IsRun(run, T, first, step, k + 1)
    OBVIOUS
  <2>2. PICK f : IsRun(f, T, first, step, k)
    BY <1>2, <2>1
  <2> DEFINE g == [i \in 0..(k + 1) |-> IF i = k + 1 THEN step[<<f[k], k + 1>>] ELSE f[i]]
  <2>3. step[<<f[k], k + 1>>] \in T
    BY <2>1, <2>2 DEF IsRun, IsStep
  <2>4. g \in [0..(k + 1) -> T]
    BY <2>2, <2>3 DEF IsRun
  <2>5. ASSUME NEW i \in 1..(k + 1)
        PROVE  g[i] = step[<<g[i - 1], i>>]
    <3>1. g[i - 1] = f[i - 1]
      OBVIOUS
    <3>2. CASE i = k + 1
      <4>1. g[i] = step[<<f[k], k + 1>>] /\ i - 1 = k
        BY <3>2
      <4>2. QED
        BY <3>1, <3>2, <4>1
    <3>3. CASE i # k + 1
      <4>1. i \in 1..k /\ g[i] = f[i]
        BY <3>3
      <4>2. QED
        BY <2>2, <3>1, <4>1 DEF IsRun
    <3>4. QED
      BY <3>2, <3>3
  <2>6. g[0] = first
    BY <2>2 DEF IsRun
  <2>7. IsRun(g, T, first, step, k + 1)
    BY <2>4, <2>5, <2>6 DEF IsRun
  <2>8. QED
    BY <2>7
<1> HIDE DEF Reached
<1>3. \A k \in Nat : k \in Reached
  BY <1>1, <1>2, SetInduction
<1>4. n \in Reached /\ n <= n
  BY <1>3
<1>5. QED
  BY <1>4 DEF Reached

\* Associativity, named because the provers instantiate a name more easily.
Assoc(a, b, c) == a \o (b \o c) = (a \o b) \o c

LEMMA ConcatAssoc ==
  ASSUME NEW S, NEW a \in Seq(S), NEW b \in Seq(S), NEW c \in Seq(S)
  PROVE  Assoc(a, b, c)
  BY ConcatAssociative DEF Assoc

-----------------------------------------------------------------------------
(***************************************************************************)
(* FlattenSeq.                                                             *)
(***************************************************************************)
\* The function that FlattenSeq takes the last value of: what the first i sequences
\* are together.
Flat(seqs) ==
  CHOOSE flatten : flatten = [i \in 1..Len(seqs) |->
     IF i = 1 THEN seqs[i] ELSE flatten[i - 1] \o seqs[i]]

LEMMA FlattenIsFlat ==
  ASSUME NEW seqs, Len(seqs) # 0
  PROVE  FlattenSeq(seqs) = Flat(seqs)[Len(seqs)]
  BY DEF FlattenSeq, Flat

LEMMA FlatFacts ==
  ASSUME NEW A, NEW seqs \in Seq(Seq(A))
  PROVE  /\ Flat(seqs) \in [1..Len(seqs) -> Seq(A)]
         /\ \A i \in 1..Len(seqs) :
               Flat(seqs)[i] = IF i = 1 THEN seqs[i] ELSE Flat(seqs)[i - 1] \o seqs[i]
<1> DEFINE n == Len(seqs)
           step == [p \in Seq(A) \X (1..n) |-> p[1] \o seqs[p[2]]]
<1>1. n \in Nat /\ \A i \in 1..n : seqs[i] \in Seq(A)
  OBVIOUS
<1>2. step \in [Seq(A) \X (1..n) -> Seq(A)] /\ <<>> \in Seq(A)
  BY <1>1
<1> HIDE DEF n
<1>3. PICK f : IsRun(f, Seq(A), <<>>, step, n)
  <2>1. IsStep(step, Seq(A), n)
    BY <1>2 DEF IsStep
  <2> HIDE DEF step
  <2>2. QED
    BY <1>1, <1>2, <2>1, Recursion
<1> DEFINE g == [i \in 1..n |-> f[i]]
<1>4. ASSUME NEW i \in 1..n
      PROVE  g[i] = IF i = 1 THEN seqs[i] ELSE g[i - 1] \o seqs[i]
  <2>1. f[i - 1] \in Seq(A) /\ f[i] = f[i - 1] \o seqs[i]
    <3>1. i - 1 \in 0..n /\ f[i - 1] \in Seq(A)
      BY <1>1, <1>3 DEF IsRun
    <3>2. <<f[i - 1], i>> \in Seq(A) \X (1..n)
      BY <3>1
    <3>3. step[<<f[i - 1], i>>] = f[i - 1] \o seqs[i]
      BY <3>2
    <3>4. QED
      BY <1>3, <3>1, <3>3 DEF IsRun
  <2>2. CASE i = 1
    <3>1. f[i - 1] = <<>>
      BY <1>3, <2>2 DEF IsRun
    <3>2. <<>> \o seqs[i] = seqs[i]
      BY <1>1
    <3>3. QED
      BY <2>1, <2>2, <3>1, <3>2
  <2>3. CASE i # 1
    <3>1. i - 1 \in 1..n
      BY <1>1, <2>3
    <3>2. QED
      BY <2>1, <2>3, <3>1
  <2>4. QED
    BY <2>2, <2>3
<1>5. g = [i \in 1..n |-> IF i = 1 THEN seqs[i] ELSE g[i - 1] \o seqs[i]]
  BY <1>4
<1>6. Flat(seqs) = [i \in 1..n |-> IF i = 1 THEN seqs[i] ELSE Flat(seqs)[i - 1] \o seqs[i]]
  <2> HIDE DEF g
  <2>1. QED
    BY <1>5 DEF Flat, n
<1>7. \A i \in 1..n : Flat(seqs)[i] \in Seq(A)
  <2> DEFINE Typed == {k \in Nat : k + 1 <= n => Flat(seqs)[k + 1] \in Seq(A)}
  <2>1. 0 \in Typed
    <3>1. 1 <= n => Flat(seqs)[1] = seqs[1] /\ seqs[1] \in Seq(A)
      BY <1>1, <1>6
    <3>2. QED
      BY <3>1
  <2>2. ASSUME NEW k \in Nat, k \in Typed
        PROVE  k + 1 \in Typed
    <3>1. SUFFICES ASSUME (k + 1) + 1 <= n
                   PROVE  Flat(seqs)[(k + 1) + 1] \in Seq(A)
      OBVIOUS
    <3>2. Flat(seqs)[k + 1] \in Seq(A)
      BY <1>1, <2>2, <3>1
    <3>3. (k + 1) + 1 \in 1..n /\ (k + 1) + 1 # 1 /\ ((k + 1) + 1) - 1 = k + 1
      BY <1>1, <3>1
    <3>4. Flat(seqs)[(k + 1) + 1] = Flat(seqs)[k + 1] \o seqs[(k + 1) + 1]
      BY <1>6, <3>3
    <3>5. QED
      BY <1>1, <3>2, <3>3, <3>4
  <2> HIDE DEF Typed
  <2>3. \A k \in Nat : k \in Typed
    BY <2>1, <2>2, SetInduction
  <2>4. ASSUME NEW i \in 1..n
        PROVE  Flat(seqs)[i] \in Seq(A)
    <3>1. i - 1 \in Nat /\ (i - 1) + 1 = i /\ i <= n
      BY <1>1
    <3>2. i - 1 \in Typed
      BY <2>3, <3>1
    <3>3. QED
      BY <3>1, <3>2 DEF Typed
  <2>5. QED
    BY <2>4
<1>8. QED
  BY <1>6, <1>7 DEF n

\* What the first i sequences are together, for i from 0.
Prefix(seqs, i) == IF i = 0 THEN <<>> ELSE Flat(seqs)[i]

LEMMA PrefixFacts ==
  ASSUME NEW A, NEW seqs \in Seq(Seq(A))
  PROVE  /\ Prefix(seqs, 0) = <<>>
         /\ \A i \in 0..Len(seqs) : Prefix(seqs, i) \in Seq(A)
         /\ \A i \in 0..Len(seqs) : i # Len(seqs) =>
               Prefix(seqs, i + 1) = Prefix(seqs, i) \o seqs[i + 1]
         /\ FlattenSeq(seqs) = Prefix(seqs, Len(seqs))
<1>1. Len(seqs) \in Nat /\ \A i \in 1..Len(seqs) : seqs[i] \in Seq(A)
  OBVIOUS
<1>2. /\ \A i \in 1..Len(seqs) : Flat(seqs)[i] \in Seq(A)
      /\ \A i \in 1..Len(seqs) :
               Flat(seqs)[i] = IF i = 1 THEN seqs[i] ELSE Flat(seqs)[i - 1] \o seqs[i]
  BY FlatFacts
<1>3. \A i \in 0..Len(seqs) : Prefix(seqs, i) \in Seq(A)
  <2>1. <<>> \in Seq(A)
    OBVIOUS
  <2>2. QED
    BY <1>1, <1>2, <2>1 DEF Prefix
<1>4. ASSUME NEW i \in 0..Len(seqs), i # Len(seqs)
      PROVE  Prefix(seqs, i + 1) = Prefix(seqs, i) \o seqs[i + 1]
  <2>1. i + 1 \in 1..Len(seqs) /\ (i + 1) - 1 = i /\ i + 1 # 0
    BY <1>1, <1>4
  <2>2. CASE i = 0
    <3>1. Prefix(seqs, i + 1) = seqs[i + 1] /\ Prefix(seqs, i) = <<>>
      BY <1>2, <2>1, <2>2 DEF Prefix
    <3>2. seqs[i + 1] \in Seq(A)
      BY <1>1, <2>1
    <3>3. <<>> \o seqs[i + 1] = seqs[i + 1]
      BY <3>2, ConcatEmptySeq
    <3>4. QED
      BY <3>1, <3>3
  <2>3. CASE i # 0
    <3>1. i + 1 # 1
      BY <2>1, <2>3
    <3>2. QED
      BY <1>2, <2>1, <2>3, <3>1 DEF Prefix
  <2>4. QED
    BY <2>2, <2>3
<1>5. FlattenSeq(seqs) = Prefix(seqs, Len(seqs))
  <2>1. CASE Len(seqs) = 0
    BY <2>1 DEF FlattenSeq, Prefix
  <2>2. CASE Len(seqs) # 0
    BY <2>2, FlattenIsFlat DEF Prefix
  <2>3. QED
    BY <2>1, <2>2
<1>6. QED
  BY <1>3, <1>4, <1>5 DEF Prefix

LEMMA FlattenType ==
  ASSUME NEW A, NEW seqs \in Seq(Seq(A))
  PROVE  FlattenSeq(seqs) \in Seq(A)
  BY PrefixFacts, LenProperties

LEMMA FlattenEmpty == FlattenSeq(<<>>) = <<>>
  BY DEF FlattenSeq

LEMMA FlattenAppend ==
  ASSUME NEW A, NEW seqs \in Seq(Seq(A)), NEW added \in Seq(A)
  PROVE  FlattenSeq(Append(seqs, added)) = FlattenSeq(seqs) \o added
<1> DEFINE more == Append(seqs, added)
           n == Len(seqs)
           Same == {k \in Nat : k <= n => Prefix(more, k) = Prefix(seqs, k)}
<1>1. /\ more \in Seq(Seq(A)) /\ Len(more) = n + 1 /\ n \in Nat
      /\ more[n + 1] = added /\ \A i \in 1..n : more[i] = seqs[i]
  BY AppendProperties
<1> HIDE DEF more, n
<1>2. 0 \in Same
  BY DEF Prefix
<1>3. ASSUME NEW k \in Nat, k \in Same
      PROVE  k + 1 \in Same
  <2>1. SUFFICES ASSUME k + 1 <= n
                 PROVE  Prefix(more, k + 1) = Prefix(seqs, k + 1)
    OBVIOUS
  <2>2. /\ k \in 0..n /\ k # n /\ k \in 0..(n + 1) /\ k # n + 1 /\ k + 1 \in 1..n
        /\ Prefix(more, k) = Prefix(seqs, k)
    BY <1>1, <1>3, <2>1
  <2>3. Prefix(seqs, k + 1) = Prefix(seqs, k) \o seqs[k + 1]
    BY <2>2, PrefixFacts DEF n
  <2>4. Prefix(more, k + 1) = Prefix(more, k) \o more[k + 1]
    BY <1>1, <2>2, PrefixFacts
  <2>5. QED
    BY <1>1, <2>2, <2>3, <2>4
<1> HIDE DEF Same
<1>4. n \in Same
  BY <1>1, <1>2, <1>3, SetInduction
<1>5. Prefix(more, n) = Prefix(seqs, n)
  BY <1>1, <1>4 DEF Same
<1>6. n \in 0..(n + 1) /\ n # n + 1
  BY <1>1
<1>7. Prefix(more, n + 1) = Prefix(more, n) \o more[n + 1]
  BY <1>1, <1>6, PrefixFacts
<1>8. FlattenSeq(more) = Prefix(more, n + 1) /\ FlattenSeq(seqs) = Prefix(seqs, n)
  BY <1>1, PrefixFacts DEF n
<1>9. QED
  BY <1>1, <1>5, <1>7, <1>8 DEF more

LEMMA FlattenHeadTail ==
  ASSUME NEW A, NEW seqs \in Seq(Seq(A)), seqs # <<>>
  PROVE  FlattenSeq(seqs) = Head(seqs) \o FlattenSeq(Tail(seqs))
<1> DEFINE first == Head(seqs)
           rest == Tail(seqs)
           n == Len(rest)
           Joined(k) == first \o Prefix(rest, k)
           Same == {k \in Nat : k <= n => Prefix(seqs, k + 1) = Joined(k)}
<1>1. /\ rest \in Seq(Seq(A)) /\ Len(seqs) = n + 1 /\ n \in Nat
      /\ first = seqs[1] /\ first \in Seq(A)
      /\ \A i \in 1..n : rest[i] = seqs[i + 1]
  OBVIOUS
<1>2. 0 \in Same
  <2>1. 0 \in 0..Len(seqs) /\ 0 # Len(seqs)
    BY <1>1
  <2>2. Prefix(seqs, 0 + 1) = Prefix(seqs, 0) \o seqs[0 + 1]
    BY <2>1, PrefixFacts
  <2>3. Prefix(seqs, 0) = <<>> /\ Prefix(rest, 0) = <<>>
    BY DEF Prefix
  <2>4. <<>> \o seqs[1] = seqs[1] /\ first \o <<>> = Head(seqs)
    BY <1>1, ConcatEmptySeq
  <2>5. QED
    BY <1>1, <2>2, <2>3, <2>4
<1> HIDE DEF first, rest, n
<1>3. ASSUME NEW k \in Nat, k \in Same
      PROVE  k + 1 \in Same
  <2>1. SUFFICES ASSUME k + 1 <= n
                 PROVE  Prefix(seqs, (k + 1) + 1) = Joined(k + 1)
    <3> HIDE DEF Joined
    <3> QED
      OBVIOUS
  <2>2. /\ k \in 0..n /\ k # n /\ k + 1 \in 0..(n + 1) /\ k + 1 # n + 1 /\ k + 1 \in 1..n
        /\ Prefix(seqs, k + 1) = first \o Prefix(rest, k)
    BY <1>1, <1>3, <2>1
  <2>3. Prefix(rest, k + 1) = Prefix(rest, k) \o rest[k + 1] /\ Prefix(rest, k) \in Seq(A)
    BY <1>1, <2>2, PrefixFacts DEF n
  <2>4. Prefix(seqs, (k + 1) + 1) = Prefix(seqs, k + 1) \o seqs[(k + 1) + 1]
    BY <1>1, <2>2, PrefixFacts
  <2>5. rest[k + 1] = seqs[(k + 1) + 1] /\ rest[k + 1] \in Seq(A)
    BY <1>1, <2>2, ElementOfSeq DEF n
  <2>6. (first \o Prefix(rest, k)) \o rest[k + 1]
          = first \o (Prefix(rest, k) \o rest[k + 1])
    <3> DEFINE x == first
               y == Prefix(rest, k)
               z == rest[k + 1]
    <3>1. x \in Seq(A) /\ y \in Seq(A) /\ z \in Seq(A)
      BY <1>1, <2>3, <2>5
    <3> HIDE DEF x, y, z
    <3>2. (x \o y) \o z = x \o (y \o z)
      BY <3>1, ConcatAssociative
    <3>3. QED
      BY <3>2 DEF x, y, z
  <2>7. QED
    BY <2>2, <2>3, <2>4, <2>5, <2>6
<1> HIDE DEF Same
<1>4. n \in Same
  BY <1>1, <1>2, <1>3, SetInduction
<1>5. Prefix(seqs, n + 1) = first \o Prefix(rest, n)
  BY <1>1, <1>4 DEF Same
<1>6. FlattenSeq(rest) = Prefix(rest, n) /\ FlattenSeq(seqs) = Prefix(seqs, n + 1)
  BY <1>1, PrefixFacts DEF n
<1>7. QED
  BY <1>5, <1>6 DEF first, rest

\* The elements of the whole are those of the parts.
LEMMA ConcatElements ==
  ASSUME NEW A, NEW s \in Seq(A), NEW t \in Seq(A)
  PROVE  ToSet(s \o t) = ToSet(s) \union ToSet(t)
<1> DEFINE st == s \o t
<1>1. /\ st \in Seq(A) /\ Len(st) = Len(s) + Len(t) /\ Len(s) \in Nat /\ Len(t) \in Nat
      /\ \A i \in 1..(Len(s) + Len(t)) : st[i] = IF i <= Len(s) THEN s[i] ELSE t[i - Len(s)]
      /\ DOMAIN s = 1..Len(s) /\ DOMAIN t = 1..Len(t)
  BY ConcatProperties, LenProperties
<1>2. DOMAIN st = 1..(Len(s) + Len(t))
  BY <1>1, LenProperties
<1> HIDE DEF st
<1>3. ASSUME NEW x \in ToSet(st)
      PROVE  x \in ToSet(s) \union ToSet(t)
  <2>1. PICK i \in 1..(Len(s) + Len(t)) : x = st[i]
    BY <1>2 DEF ToSet
  <2>2. CASE i <= Len(s)
    BY <1>1, <2>1, <2>2 DEF ToSet
  <2>3. CASE i > Len(s)
    <3>1. i - Len(s) \in 1..Len(t)
      BY <1>1, <2>3
    <3>2. x = t[i - Len(s)]
      BY <1>1, <2>1, <2>3
    <3>3. x \in ToSet(t)
      BY <1>1, <3>1, <3>2 DEF ToSet
    <3>4. QED
      BY <3>3
  <2>4. QED
    BY <1>1, <2>2, <2>3
<1>4. ASSUME NEW x \in ToSet(s)
      PROVE  x \in ToSet(st)
  <2>1. PICK i \in 1..Len(s) : x = s[i]
    BY <1>1 DEF ToSet
  <2>2. i \in 1..(Len(s) + Len(t)) /\ i <= Len(s)
    BY <1>1
  <2>3. QED
    BY <1>1, <1>2, <2>1, <2>2 DEF ToSet
<1>5. ASSUME NEW x \in ToSet(t)
      PROVE  x \in ToSet(st)
  <2>1. PICK i \in 1..Len(t) : x = t[i]
    BY <1>1 DEF ToSet
  <2>2. Len(s) + i \in 1..(Len(s) + Len(t)) /\ ~(Len(s) + i <= Len(s)) /\ (Len(s) + i) - Len(s) = i
    BY <1>1
  <2>3. st[Len(s) + i] = t[i]
    BY <1>1, <2>2
  <2>4. QED
    BY <1>2, <2>1, <2>2, <2>3 DEF ToSet
<1>6. QED
  BY <1>3, <1>4, <1>5 DEF st

LEMMA FlattenElements ==
  ASSUME NEW A, NEW seqs \in Seq(Seq(A))
  PROVE  ToSet(FlattenSeq(seqs)) = UNION {ToSet(seqs[i]) : i \in DOMAIN seqs}
<1> DEFINE n == Len(seqs)
           Parts(k) == UNION {ToSet(seqs[i]) : i \in 1..k}
           Same == {k \in Nat : k <= n => ToSet(Prefix(seqs, k)) = Parts(k)}
<1>1. n \in Nat /\ DOMAIN seqs = 1..n
  BY LenProperties
<1>2. 0 \in Same
  <2>1. ToSet(Prefix(seqs, 0)) = {} /\ Parts(0) = {}
    BY DEF Prefix, ToSet
  <2>2. QED
    BY <2>1
<1> HIDE DEF n
<1>3. ASSUME NEW k \in Nat, k \in Same
      PROVE  k + 1 \in Same
  <2>1. SUFFICES ASSUME k + 1 <= n
                 PROVE  ToSet(Prefix(seqs, k + 1)) = Parts(k + 1)
    <3> HIDE DEF Parts
    <3>1. QED
      OBVIOUS
  <2>2. k \in 0..n /\ k # n /\ k + 1 \in 1..n /\ ToSet(Prefix(seqs, k)) = Parts(k)
    BY <1>1, <1>3, <2>1
  <2>3. Prefix(seqs, k + 1) = Prefix(seqs, k) \o seqs[k + 1] /\ Prefix(seqs, k) \in Seq(A)
    BY <2>2, PrefixFacts DEF n
  <2>4. seqs[k + 1] \in Seq(A)
    BY <2>2, ElementOfSeq DEF n
  <2>5. ToSet(Prefix(seqs, k + 1)) = ToSet(Prefix(seqs, k)) \union ToSet(seqs[k + 1])
    BY <2>3, <2>4, ConcatElements
  <2>6. Parts(k + 1) = Parts(k) \union ToSet(seqs[k + 1])
    <3>1. 1..(k + 1) = (1..k) \union {k + 1}
      OBVIOUS
    <3>2. QED
      BY <3>1
  <2>7. QED
    BY <2>2, <2>5, <2>6
<1> HIDE DEF Same
<1>4. n \in Same
  BY <1>1, <1>2, <1>3, SetInduction
<1>5. ToSet(Prefix(seqs, n)) = Parts(n)
  BY <1>1, <1>4 DEF Same
<1>6. FlattenSeq(seqs) = Prefix(seqs, n)
  BY PrefixFacts DEF n
<1>7. QED
  BY <1>1, <1>5, <1>6

-----------------------------------------------------------------------------
(***************************************************************************)
(* FoldLeft.  Its definition recurs over the subsets of the domain, and    *)
(* takes an operator, which no lemma here can be about: where a model      *)
(* folds an operator, SetRecursion shows that the recursion of FoldLeft    *)
(* has a solution, and FoldRun what the solution is.                       *)
(***************************************************************************)
\* The last index is folded last.
LastOf(s) == CHOOSE x \in s : \A y \in s : x >= y

IsFold(fold, T, first, step, n) ==
  /\ fold \in [SUBSET (1..n) -> T]
  /\ \A s \in SUBSET (1..n) :
        fold[s] = IF s = {} THEN first ELSE step[<<fold[s \ {LastOf(s)}], LastOf(s)>>]

LEMMA LastOfFirst ==
  ASSUME NEW n \in Nat, NEW s \in SUBSET (1..n), n \in s
  PROVE  LastOf(s) = n
<1>1. \A x \in s : x \in Nat /\ x <= n
  OBVIOUS
<1>2. \A x \in s : (\A y \in s : x >= y) <=> x = n
  BY <1>1
<1>3. (CHOOSE x \in s : \A y \in s : x >= y) = n
  BY <1>2
<1>4. QED
  BY <1>3 DEF LastOf

LEMMA SetRecursion ==
  ASSUME NEW T, NEW first \in T, NEW n \in Nat, NEW step, IsStep(step, T, n)
  PROVE  \E fold : IsFold(fold, T, first, step, n)
<1> DEFINE Reached == {k \in Nat : k <= n => \E fold : IsFold(fold, T, first, step, k)}
<1>1. 0 \in Reached
  <2> DEFINE f == [s \in SUBSET (1..0) |-> first]
  <2>1. SUBSET (1..0) = {{}}
    OBVIOUS
  <2>2. IsFold(f, T, first, step, 0)
    BY <2>1 DEF IsFold
  <2>3. QED
    BY <2>2
<1>2. ASSUME NEW k \in Nat, k \in Reached
      PROVE  k + 1 \in Reached
  <2>1. SUFFICES ASSUME k + 1 <= n
                 PROVE  \E fold : IsFold(fold, T, first, step, k + 1)
    OBVIOUS
  <2>2. PICK f : IsFold(f, T, first, step, k)
    BY <1>2, <2>1
  <2> DEFINE g == [s \in SUBSET (1..(k + 1)) |->
                     IF k + 1 \in s THEN step[<<f[s \ {k + 1}], k + 1>>] ELSE f[s]]
  <2>3. ASSUME NEW s \in SUBSET (1..(k + 1))
        PROVE  /\ k + 1 \notin s => s \in SUBSET (1..k)
               /\ s \ {k + 1} \in SUBSET (1..k)
    OBVIOUS
  <2>4. ASSUME NEW s \in SUBSET (1..(k + 1))
        PROVE  g[s] \in T
    <3>1. CASE k + 1 \in s
      <4>1. f[s \ {k + 1}] \in T
        BY <2>2, <2>3 DEF IsFold
      <4>2. <<f[s \ {k + 1}], k + 1>> \in T \X (1..n)
        BY <2>1, <4>1
      <4>3. step[<<f[s \ {k + 1}], k + 1>>] \in T
        BY <4>2 DEF IsStep
      <4>4. QED
        BY <3>1, <4>3
    <3>2. CASE k + 1 \notin s
      BY <2>2, <2>3, <3>2 DEF IsFold
    <3>3. QED
      BY <3>1, <3>2
  <2>5. ASSUME NEW s \in SUBSET (1..(k + 1))
        PROVE  g[s] = IF s = {} THEN first ELSE step[<<g[s \ {LastOf(s)}], LastOf(s)>>]
    <3>1. CASE k + 1 \in s
      <4>1. LastOf(s) = k + 1 /\ s # {}
        BY <3>1, LastOfFirst
      <4>2. s \ {k + 1} \in SUBSET (1..(k + 1)) /\ k + 1 \notin s \ {k + 1}
        OBVIOUS
      <4>3. g[s \ {k + 1}] = f[s \ {k + 1}]
        BY <4>2
      <4>4. g[s] = step[<<f[s \ {k + 1}], k + 1>>]
        BY <3>1
      <4> HIDE DEF g
      <4>5. QED
        BY <4>1, <4>3, <4>4
    <3>2. CASE k + 1 \notin s
      <4>1. s \in SUBSET (1..k)
        BY <2>3, <3>2
      <4>2. s \ {LastOf(s)} \in SUBSET (1..(k + 1)) /\ k + 1 \notin s \ {LastOf(s)}
        BY <3>2
      <4>3. g[s] = f[s] /\ g[s \ {LastOf(s)}] = f[s \ {LastOf(s)}]
        BY <3>2, <4>2
      <4> HIDE DEF g
      <4>4. f[s] = IF s = {} THEN first ELSE step[<<f[s \ {LastOf(s)}], LastOf(s)>>]
        BY <2>2, <4>1 DEF IsFold
      <4>5. QED
        BY <4>3, <4>4
    <3>3. QED
      BY <3>1, <3>2
  <2>6. g \in [SUBSET (1..(k + 1)) -> T]
    <3>1. g = [s \in SUBSET (1..(k + 1)) |-> g[s]]
      OBVIOUS
    <3> HIDE DEF g
    <3>2. QED
      BY <2>4, <3>1
  <2>7. IsFold(g, T, first, step, k + 1)
    <3> HIDE DEF g
    <3>1. QED
      BY <2>5, <2>6 DEF IsFold
  <2>8. QED
    BY <2>7
<1> HIDE DEF Reached
<1>3. \A k \in Nat : k \in Reached
  BY <1>1, <1>2, SetInduction
<1>4. n \in Reached /\ n <= n
  BY <1>3
<1>5. QED
  BY <1>4 DEF Reached

LEMMA LastOfIn ==
  ASSUME NEW n \in Nat
  PROVE  \A s \in SUBSET (1..n) : s # {} => LastOf(s) \in s
<1> DEFINE Found == {k \in Nat : \A s \in SUBSET (1..k) : s # {} => LastOf(s) \in s}
<1>1. 0 \in Found
  <2>1. SUBSET (1..0) = {{}}
    OBVIOUS
  <2>2. QED
    BY <2>1
<1>2. ASSUME NEW k \in Nat, k \in Found
      PROVE  k + 1 \in Found
  <2>1. SUFFICES ASSUME NEW s \in SUBSET (1..(k + 1)), s # {}
                 PROVE  LastOf(s) \in s
    OBVIOUS
  <2>2. CASE k + 1 \in s
    BY <2>2, LastOfFirst
  <2>3. CASE k + 1 \notin s
    <3>1. s \in SUBSET (1..k)
      BY <2>3
    <3>2. QED
      BY <1>2, <2>1, <3>1
  <2>4. QED
    BY <2>2, <2>3
<1> HIDE DEF Found
<1>3. n \in Found
  BY <1>1, <1>2, SetInduction
<1>4. QED
  BY <1>3 DEF Found

\* The first i numbers, as a set that is folded.
LEMMA InitialFacts ==
  ASSUME NEW n \in Nat, NEW i \in 1..n
  PROVE  /\ 1..i \in SUBSET (1..n) /\ 1..i # {} /\ LastOf(1..i) = i
         /\ (1..i) \ {i} = 1..(i - 1) /\ 1..(i - 1) \in SUBSET (1..n)
<1>1. i \in Nat /\ 1..i \in SUBSET (1..n) /\ i \in 1..i
  OBVIOUS
<1>2. LastOf(1..i) = i
  BY <1>1, LastOfFirst
<1>3. QED
  BY <1>1, <1>2

\* What a fold makes of the first i elements is a run.
LEMMA FoldRun ==
  ASSUME NEW T, NEW first \in T, NEW n \in Nat, NEW step, IsStep(step, T, n),
         NEW fold, fold[{}] = first,
         \A i \in 1..n : fold[1..(i - 1)] \in T => fold[1..i] = step[<<fold[1..(i - 1)], i>>]
  PROVE  IsRun([i \in 0..n |-> fold[1..i]], T, first, step, n)
<1> DEFINE run == [i \in 0..n |-> fold[1..i]]
           Typed == {k \in Nat : k <= n => fold[1..k] \in T}
<1>1. fold[1..0] = first
  <2>1. 1..0 = {}
    OBVIOUS
  <2>2. QED
    BY <2>1
<1>2. 0 \in Typed
  BY <1>1
<1>3. ASSUME NEW k \in Nat, k \in Typed
      PROVE  k + 1 \in Typed
  <2>1. SUFFICES ASSUME k + 1 <= n
                 PROVE  fold[1..(k + 1)] \in T
    OBVIOUS
  <2>2. fold[1..k] \in T /\ k + 1 \in 1..n /\ (k + 1) - 1 = k
    BY <1>3, <2>1
  <2>3. <<fold[1..k], k + 1>> \in T \X (1..n)
    BY <2>2
  <2>4. step[<<fold[1..k], k + 1>>] \in T
    BY <2>3 DEF IsStep
  <2>5. QED
    BY <2>2, <2>4
<1> HIDE DEF Typed
<1>4. ASSUME NEW i \in 0..n
      PROVE  fold[1..i] \in T
  <2>1. i \in Nat /\ i <= n
    OBVIOUS
  <2>2. i \in Typed
    BY <1>2, <1>3, <2>1, SetInduction
  <2>3. QED
    BY <2>1, <2>2 DEF Typed
<1>5. ASSUME NEW i \in 1..n
      PROVE  run[i] = step[<<run[i - 1], i>>]
  <2>1. i \in 0..n /\ i - 1 \in 0..n
    OBVIOUS
  <2>2. run[i] = fold[1..i] /\ run[i - 1] = fold[1..(i - 1)]
    BY <2>1
  <2>3. fold[1..(i - 1)] \in T
    BY <1>4, <2>1
  <2> HIDE DEF run
  <2>4. QED
    BY <2>2, <2>3
<1>6. run[0] = first
  BY <1>1
<1>7. run \in [0..n -> T]
  BY <1>4
<1> HIDE DEF run
<1>8. IsRun(run, T, first, step, n)
  BY <1>5, <1>6, <1>7 DEF IsRun
<1>9. QED
  BY <1>8 DEF run

=============================================================================
