-------------------------- MODULE SequenceLemmas --------------------------
(***************************************************************************)
(* Facts about numbers and sequences that the proofs about the components  *)
(* share: least elements, induction up to a number, and what FlattenSeq    *)
(* makes of a sequence of sequences.                                       *)
(***************************************************************************)
EXTENDS Integers, Sequences, SequencesExt, FiniteSetsExt, SequenceTheorems,
        WellFoundedInduction, TLAPS

(* A non-empty set of natural numbers has a least element. *)
LEMMA Least ==
    ASSUME NEW S \in SUBSET Nat, S # {}
    PROVE  Min(S) \in S /\ \A y \in S : Min(S) <= y
<1> DEFINE R == {ss \in Nat \X Nat : ss[1] < ss[2]}
<1>1. OpToRel(<, Nat) = R
  BY DEF OpToRel
<1>2. IsWellFoundedOn(R, Nat)
  BY <1>1, NatLessThanWellFounded, Zenon
<1>3. \A a, b \in Nat : a < b => <<a, b>> \in R
  OBVIOUS
<1> HIDE DEF R
<1>4. PICK x \in S : \A y \in S : ~ (<<y, x>> \in R)
  BY <1>2, WFMin
<1>5. ASSUME NEW y \in S PROVE x <= y
  <2>1. y < x => <<y, x>> \in R
    BY <1>3
  <2>2. ~ (y < x)
    BY <1>4, <2>1
  <2> QED
    BY <2>2
<1> QED
  BY <1>5 DEF Min

(* Induction up to n, for a set instead of a predicate. *)
LEMMA UpTo ==
    ASSUME NEW n \in Nat, NEW Good,
           n >= 1 => 1 \in Good,
           \A i \in 1 .. n : i + 1 \in 1 .. n /\ i \in Good => i + 1 \in Good
    PROVE  \A i \in 1 .. n : i \in Good
<1> DEFINE Bad == {i \in 1 .. n : i \notin Good}
<1>1. ASSUME Bad # {} PROVE FALSE
  <2>1. Bad \in SUBSET Nat
    OBVIOUS
  <2>2. PICK m \in Bad : \A y \in Bad : m <= y
    <3> HIDE DEF Bad
    <3> QED
      BY <1>1, <2>1, Least
  <2>3. m \in 1 .. n /\ m \notin Good /\ m # 1
    OBVIOUS
  <2>4. m - 1 \in 1 .. n /\ (m - 1) + 1 = m
    BY <2>3
  <2>5. m - 1 \notin Bad
    <3> HIDE DEF Bad
    <3> QED
      BY <2>2, <2>3
  <2> QED
    BY <2>3, <2>4, <2>5
<1> QED
  BY <1>1

(* The same from 0.                                                        *)
LEMMA FromZero ==
    ASSUME NEW n \in Nat, NEW Good, 0 \in Good,
           \A i \in 0 .. n : i + 1 \in 0 .. n /\ i \in Good => i + 1 \in Good
    PROVE  \A i \in 0 .. n : i \in Good
<1>1. n >= 1 => 1 \in Good
  <2>1. n >= 1 => 0 \in 0 .. n /\ 0 + 1 \in 0 .. n /\ 0 + 1 = 1
    OBVIOUS
  <2> QED
    BY <2>1
<1>2. \A i \in 1 .. n : i + 1 \in 1 .. n /\ i \in Good => i + 1 \in Good
  OBVIOUS
<1>3. \A i \in 1 .. n : i \in Good
  BY <1>1, <1>2, UpTo
<1>4. \A i \in 0 .. n : i = 0 \/ i \in 1 .. n
  OBVIOUS
<1> QED
  BY <1>3, <1>4

-----------------------------------------------------------------------------
(* FlattenSeq, whose recursion runs over the sequences from the first.     *)

Flat(ss, f) ==
    f = [i \in 1 .. Len(ss) |-> IF i = 1 THEN ss[i] ELSE f[i - 1] \o ss[i]]

LEMMA FlatStep ==
    ASSUME NEW ss, NEW f, Flat(ss, f), Len(ss) \in Nat
    PROVE  /\ Len(ss) >= 1 => f[1] = ss[1]
           /\ \A i \in 1 .. Len(ss) : i + 1 \in 1 .. Len(ss) => f[i + 1] = f[i] \o ss[i + 1]
<1>1. \A i \in 1 .. Len(ss) : f[i] = IF i = 1 THEN ss[i] ELSE f[i - 1] \o ss[i]
  BY DEF Flat
<1>2. ASSUME NEW i \in 1 .. Len(ss), i + 1 \in 1 .. Len(ss)
      PROVE  f[i + 1] = f[i] \o ss[i + 1]
  <2>1. i + 1 # 1 /\ (i + 1) - 1 = i
    OBVIOUS
  <2> QED
    BY <1>1, <1>2, <2>1
<1>3. Len(ss) >= 1 => 1 \in 1 .. Len(ss)
  OBVIOUS
<1> QED
  BY <1>1, <1>2, <1>3

LEMMA FlatExists ==
    ASSUME NEW ss, Len(ss) \in Nat
    PROVE  \E f : Flat(ss, f)
<1> DEFINE Upto(n, g) == g = [i \in 1 .. n |-> IF i = 1 THEN ss[i] ELSE g[i - 1] \o ss[i]]
           Good == {n \in Nat : \E g : Upto(n, g)}
<1>1. 1 \in Good
  <2>1. Upto(1, [i \in 1 .. 1 |-> ss[1]])
    OBVIOUS
  <2> QED
    BY <2>1
<1>2. ASSUME NEW n \in Nat, n >= 1, n \in Good PROVE n + 1 \in Good
  <2>1. PICK g : Upto(n, g)
    BY <1>2
  <2> DEFINE h == [i \in 1 .. n + 1 |-> IF i = n + 1 THEN g[n] \o ss[n + 1] ELSE g[i]]
  <2> HIDE DEF Good
  <2>2. \A i \in 1 .. n : h[i] = g[i] /\ g[i] = IF i = 1 THEN ss[i] ELSE g[i - 1] \o ss[i]
    <3>1. \A i \in 1 .. n : g[i] = IF i = 1 THEN ss[i] ELSE g[i - 1] \o ss[i]
      BY <2>1
    <3>2. \A i \in 1 .. n : i # n + 1 /\ i \in 1 .. n + 1
      OBVIOUS
    <3>3. \A i \in 1 .. n : h[i] = g[i]
      BY <3>2
    <3> QED
      BY <3>1, <3>3
  <2>3. \A i \in 1 .. n + 1 : h[i] = IF i = 1 THEN ss[i] ELSE h[i - 1] \o ss[i]
    <3> SUFFICES ASSUME NEW i \in 1 .. n + 1
                 PROVE  h[i] = IF i = 1 THEN ss[i] ELSE h[i - 1] \o ss[i]
      OBVIOUS
    <3>1. CASE i = n + 1
      <4>1. i # 1 /\ i - 1 = n /\ n \in 1 .. n
        BY <3>1, <1>2
      <4>2. h[i] = g[n] \o ss[i]
        BY <3>1
      <4>3. h[n] = g[n]
        BY <4>1, <2>2
      <4> HIDE DEF h
      <4> QED
        BY <4>1, <4>2, <4>3
    <3>2. CASE i # n + 1
      <4>1. i \in 1 .. n /\ (i # 1 => i - 1 \in 1 .. n)
        BY <3>2
      <4> HIDE DEF h
      <4>2. h[i] = g[i] /\ g[i] = IF i = 1 THEN ss[i] ELSE g[i - 1] \o ss[i]
        BY <2>2, <4>1
      <4>3. i # 1 => h[i - 1] = g[i - 1]
        BY <2>2, <4>1
      <4> QED
        BY <4>2, <4>3
    <3> QED
      BY <3>1, <3>2
  <2>4. Upto(n + 1, h)
    <3>1. h = [i \in 1 .. n + 1 |-> h[i]]
      OBVIOUS
    <3> HIDE DEF h
    <3> QED
      BY <2>3, <3>1
  <2> HIDE DEF h, Upto
  <2> QED
    BY <2>4 DEF Good
<1>3. CASE Len(ss) = 0
  <2>1. Flat(ss, [i \in 1 .. 0 |-> 0])
    BY <1>3 DEF Flat
  <2> QED
    BY <2>1
<1>4. CASE Len(ss) >= 1
  <2> HIDE DEF Good
  <2>1. Len(ss) \in Good
    <3>1. \A i \in 1 .. Len(ss) : i + 1 \in 1 .. Len(ss) /\ i \in Good => i + 1 \in Good
      BY <1>2
    <3>2. \A i \in 1 .. Len(ss) : i \in Good
      BY <1>1, <3>1, UpTo
    <3> QED
      BY <3>2, <1>4
  <2>2. PICK g : Upto(Len(ss), g)
    BY <2>1 DEF Good
  <2>3. Flat(ss, g)
    BY <2>2 DEF Flat
  <2> QED
    BY <2>3
<1> QED
  BY <1>3, <1>4

LEMMA FlattenIs ==
    ASSUME NEW ss, Len(ss) \in Nat, Len(ss) # 0
    PROVE  \E f : Flat(ss, f) /\ FlattenSeq(ss) = f[Len(ss)]
<1> DEFINE f == CHOOSE g : Flat(ss, g)
<1>1. Flat(ss, f)
  BY FlatExists, Zenon
<1>2. FlattenSeq(ss) = f[Len(ss)]
  BY DEF FlattenSeq, Flat
<1> HIDE DEF f
<1> QED
  BY <1>1, <1>2

LEMMA FlatType ==
    ASSUME NEW S, NEW ss \in Seq(Seq(S)), NEW f, Flat(ss, f)
    PROVE  \A i \in 1 .. Len(ss) : f[i] \in Seq(S)
<1> DEFINE Good == {i \in 1 .. Len(ss) : f[i] \in Seq(S)}
<1>1. Len(ss) \in Nat /\ \A i \in 1 .. Len(ss) : ss[i] \in Seq(S)
  OBVIOUS
<1>a. /\ Len(ss) >= 1 => f[1] = ss[1]
      /\ \A i \in 1 .. Len(ss) : i + 1 \in 1 .. Len(ss) => f[i + 1] = f[i] \o ss[i + 1]
  BY <1>1, FlatStep
<1>2. Len(ss) >= 1 => 1 \in Good
  <2>1. Len(ss) >= 1 => 1 \in 1 .. Len(ss)
    BY <1>1
  <2> QED
    BY <1>1, <1>a, <2>1
<1>3. ASSUME NEW i \in 1 .. Len(ss), i + 1 \in 1 .. Len(ss), i \in Good
      PROVE  i + 1 \in Good
  <2>1. f[i + 1] = f[i] \o ss[i + 1]
    BY <1>a, <1>3
  <2>2. f[i] \in Seq(S) /\ ss[i + 1] \in Seq(S)
    BY <1>1, <1>3
  <2>3. f[i + 1] \in Seq(S)
    BY <2>1, <2>2, ConcatProperties
  <2> QED
    BY <1>3, <2>3
<1> HIDE DEF Good
<1>4. \A i \in 1 .. Len(ss) : i + 1 \in 1 .. Len(ss) /\ i \in Good => i + 1 \in Good
  BY <1>3
<1>5. \A i \in 1 .. Len(ss) : i \in Good
  BY <1>1, <1>2, <1>4, UpTo
<1> QED
  BY <1>5 DEF Good

LEMMA FlattenEmpty == FlattenSeq(<< >>) = << >>
BY DEF FlattenSeq

LEMMA FlattenType ==
    ASSUME NEW S, NEW ss \in Seq(Seq(S))
    PROVE  FlattenSeq(ss) \in Seq(S)
<1>1. CASE Len(ss) = 0
  <2>1. ss = << >>
    BY <1>1
  <2>2. FlattenSeq(ss) = << >>
    BY <2>1, FlattenEmpty
  <2>3. << >> \in Seq(S)
    OBVIOUS
  <2> QED
    BY <2>2, <2>3
<1>2. CASE Len(ss) # 0
  <2>1. Len(ss) \in Nat /\ Len(ss) \in 1 .. Len(ss)
    BY <1>2
  <2>2. PICK f : Flat(ss, f) /\ FlattenSeq(ss) = f[Len(ss)]
    BY <1>2, <2>1, FlattenIs
  <2> QED
    BY <2>1, <2>2, FlatType
<1> QED
  BY <1>1, <1>2

(* One more sequence comes behind all that came before. *)
LEMMA FlattenAppend ==
    ASSUME NEW S, NEW ss \in Seq(Seq(S)), NEW s \in Seq(S)
    PROVE  FlattenSeq(Append(ss, s)) = FlattenSeq(ss) \o s
<1> DEFINE tt == Append(ss, s)
<1>1. /\ Len(tt) = Len(ss) + 1 /\ Len(ss) \in Nat /\ Len(tt) \in Nat /\ Len(tt) # 0
      /\ tt[Len(ss) + 1] = s
      /\ \A i \in 1 .. Len(ss) : tt[i] = ss[i]
  OBVIOUS
<1> HIDE DEF tt
<1>2. PICK g : Flat(tt, g) /\ FlattenSeq(tt) = g[Len(tt)]
  BY <1>1, FlattenIs
<1>g. /\ Len(tt) >= 1 => g[1] = tt[1]
      /\ \A i \in 1 .. Len(tt) : i + 1 \in 1 .. Len(tt) => g[i + 1] = g[i] \o tt[i + 1]
  BY <1>1, <1>2, FlatStep
<1>3. CASE Len(ss) = 0
  <2>1. ss = << >> /\ FlattenSeq(ss) = << >>
    BY <1>3, FlattenEmpty
  <2>2. g[1] = tt[1]
    BY <1>1, <1>g
  <2>3. << >> \o s = s
    BY ConcatEmptySeq
  <2> QED
    BY <1>1, <1>2, <1>3, <2>1, <2>2, <2>3 DEF tt
<1>4. CASE Len(ss) # 0
  <2>1. PICK f : Flat(ss, f) /\ FlattenSeq(ss) = f[Len(ss)]
    BY <1>1, <1>4, FlattenIs
  <2> DEFINE Good == {i \in 1 .. Len(ss) : g[i] = f[i]}
  <2>f. /\ Len(ss) >= 1 => f[1] = ss[1]
        /\ \A i \in 1 .. Len(ss) : i + 1 \in 1 .. Len(ss) => f[i + 1] = f[i] \o ss[i + 1]
    BY <1>1, <2>1, FlatStep
  <2>2. 1 \in Good
    <3>1. 1 \in 1 .. Len(ss) /\ Len(tt) >= 1
      BY <1>1, <1>4
    <3>2. g[1] = tt[1] /\ f[1] = ss[1]
      BY <1>g, <2>f, <3>1
    <3>3. tt[1] = ss[1]
      BY <1>1, <3>1
    <3> QED
      BY <3>1, <3>2, <3>3
  <2>3. ASSUME NEW i \in 1 .. Len(ss), i + 1 \in 1 .. Len(ss), i \in Good
        PROVE  i + 1 \in Good
    <3>1. f[i + 1] = f[i] \o ss[i + 1]
      BY <2>f, <2>3
    <3>2. i \in 1 .. Len(tt) /\ i + 1 \in 1 .. Len(tt)
      BY <1>1, <2>3
    <3>3. g[i + 1] = g[i] \o tt[i + 1]
      BY <1>g, <3>2
    <3>4. tt[i + 1] = ss[i + 1]
      BY <1>1, <2>3
    <3>5. g[i] = f[i]
      BY <2>3
    <3> QED
      BY <2>3, <3>1, <3>3, <3>4, <3>5
  <2> HIDE DEF Good
  <2>4. \A i \in 1 .. Len(ss) : i + 1 \in 1 .. Len(ss) /\ i \in Good => i + 1 \in Good
    BY <2>3
  <2>5. \A i \in 1 .. Len(ss) : i \in Good
    BY <1>1, <2>2, <2>4, UpTo
  <2>6. g[Len(ss)] = f[Len(ss)]
    BY <1>1, <1>4, <2>5 DEF Good
  <2>7. Len(ss) \in 1 .. Len(tt) /\ Len(ss) + 1 \in 1 .. Len(tt)
    BY <1>1, <1>4
  <2>8. g[Len(ss) + 1] = g[Len(ss)] \o tt[Len(ss) + 1]
    BY <1>g, <2>7
  <2> QED
    BY <1>1, <1>2, <2>1, <2>6, <2>8 DEF tt
<1> QED
  BY <1>3, <1>4

(* The first sequence comes before all others. *)
LEMMA FlattenHead ==
    ASSUME NEW S, NEW ss \in Seq(Seq(S)), ss # << >>
    PROVE  FlattenSeq(ss) = ss[1] \o FlattenSeq(Tail(ss))
<1> DEFINE tt == Tail(ss)
<1>1. /\ Len(tt) = Len(ss) - 1 /\ Len(ss) \in Nat /\ Len(tt) \in Nat /\ Len(ss) # 0
      /\ tt \in Seq(Seq(S))
      /\ \A i \in 1 .. Len(tt) : tt[i] = ss[i + 1] /\ i + 1 \in 1 .. Len(ss) /\ i \in 1 .. Len(ss)
      /\ \A i \in 1 .. Len(ss) : ss[i] \in Seq(S)
  OBVIOUS
<1>2. ss[1] \in Seq(S)
  BY <1>1
<1> HIDE DEF tt
<1>3. PICK f : Flat(ss, f) /\ FlattenSeq(ss) = f[Len(ss)]
  BY <1>1, FlattenIs
<1>f. /\ Len(ss) >= 1 => f[1] = ss[1]
      /\ \A i \in 1 .. Len(ss) : i + 1 \in 1 .. Len(ss) => f[i + 1] = f[i] \o ss[i + 1]
  BY <1>1, <1>3, FlatStep
<1>4. f[1] = ss[1]
  BY <1>1, <1>f
<1>5. CASE Len(tt) = 0
  <2>1. tt = << >> /\ FlattenSeq(tt) = << >>
    BY <1>1, <1>5, FlattenEmpty
  <2>2. ss[1] \o << >> = ss[1]
    BY <1>2, ConcatEmptySeq
  <2>3. Len(ss) = 1
    BY <1>1, <1>5
  <2> QED
    BY <1>3, <1>4, <2>1, <2>2, <2>3 DEF tt
<1>6. CASE Len(tt) # 0
  <2>1. PICK g : Flat(tt, g) /\ FlattenSeq(tt) = g[Len(tt)]
    BY <1>1, <1>6, FlattenIs
  <2>g. /\ Len(tt) >= 1 => g[1] = tt[1]
        /\ \A i \in 1 .. Len(tt) : i + 1 \in 1 .. Len(tt) => g[i + 1] = g[i] \o tt[i + 1]
    BY <1>1, <2>1, FlatStep
  <2>2. \A i \in 1 .. Len(tt) : g[i] \in Seq(S)
    BY <1>1, <2>1, FlatType
  <2> DEFINE Good == {i \in 1 .. Len(tt) : f[i + 1] = ss[1] \o g[i]}
  <2>3. 1 \in Good
    <3>1. 1 \in 1 .. Len(tt) /\ Len(tt) >= 1
      BY <1>1, <1>6
    <3>2. g[1] = tt[1] /\ tt[1] = ss[1 + 1]
      BY <1>1, <2>g, <3>1
    <3>3. f[1 + 1] = f[1] \o ss[1 + 1]
      BY <1>1, <1>f, <3>1
    <3> QED
      BY <1>4, <3>1, <3>2, <3>3
  <2>4. ASSUME NEW i \in 1 .. Len(tt), i + 1 \in 1 .. Len(tt), i \in Good
        PROVE  i + 1 \in Good
    <3>1. g[i + 1] = g[i] \o tt[i + 1] /\ tt[i + 1] = ss[(i + 1) + 1]
      BY <1>1, <2>g, <2>4
    <3>2. i + 1 \in 1 .. Len(ss) /\ (i + 1) + 1 \in 1 .. Len(ss)
      BY <1>1, <2>4
    <3>3. f[(i + 1) + 1] = f[i + 1] \o ss[(i + 1) + 1]
      BY <1>f, <3>2
    <3>4. g[i] \in Seq(S) /\ ss[(i + 1) + 1] \in Seq(S)
      BY <1>1, <2>2, <3>2
    <3>5. (ss[1] \o g[i]) \o ss[(i + 1) + 1] = ss[1] \o (g[i] \o ss[(i + 1) + 1])
      <4>1. \A a, b, c \in Seq(S) : (a \o b) \o c = a \o (b \o c)
        <5> SUFFICES ASSUME NEW a \in Seq(S), NEW b \in Seq(S), NEW c \in Seq(S)
                     PROVE  (a \o b) \o c = a \o (b \o c)
          OBVIOUS
        <5> QED
          OBVIOUS
      <4> HIDE DEF Good
      <4> QED
        BY <1>2, <3>4, <4>1, Zenon
    <3>6. f[i + 1] = ss[1] \o g[i]
      BY <2>4
    <3>7. f[(i + 1) + 1] = ss[1] \o g[i + 1]
      BY <3>1, <3>3, <3>5, <3>6
    <3> QED
      BY <2>4, <3>7
  <2> HIDE DEF Good
  <2>5. \A i \in 1 .. Len(tt) : i + 1 \in 1 .. Len(tt) /\ i \in Good => i + 1 \in Good
    BY <2>4
  <2>6. \A i \in 1 .. Len(tt) : i \in Good
    BY <1>1, <2>3, <2>5, UpTo
  <2>7. f[Len(tt) + 1] = ss[1] \o g[Len(tt)]
    <3>1. Len(tt) \in 1 .. Len(tt)
      BY <1>1, <1>6
    <3>2. Len(tt) \in Good
      BY <2>6, <3>1
    <3> QED
      BY <3>2 DEF Good
  <2>8. Len(tt) + 1 = Len(ss)
    BY <1>1
  <2> QED
    BY <1>3, <2>1, <2>7, <2>8 DEF tt
<1> QED
  BY <1>5, <1>6

-----------------------------------------------------------------------------
(* The sequences that the elements of a sequence stand for, one after the  *)
(* other; e tells what an element stands for.                              *)

Through(e, s) == FlattenSeq([i \in DOMAIN s |-> e[s[i]]])

LEMMA ThroughSeq ==
    ASSUME NEW F, NEW S, NEW e \in [F -> Seq(S)], NEW fs \in Seq(F)
    PROVE  [i \in DOMAIN fs |-> e[fs[i]]] \in Seq(Seq(S))
<1>1. Len(fs) \in Nat /\ DOMAIN fs = 1 .. Len(fs) /\ \A i \in 1 .. Len(fs) : fs[i] \in F
  OBVIOUS
<1>2. [i \in 1 .. Len(fs) |-> e[fs[i]]] \in [1 .. Len(fs) -> Seq(S)]
  BY <1>1
<1> QED
  BY <1>1, <1>2

LEMMA ThroughType ==
    ASSUME NEW F, NEW S, NEW e \in [F -> Seq(S)], NEW fs \in Seq(F)
    PROVE  Through(e, fs) \in Seq(S)
<1>1. [i \in DOMAIN fs |-> e[fs[i]]] \in Seq(Seq(S))
  BY ThroughSeq
<1> QED
  BY <1>1, FlattenType DEF Through

LEMMA ThroughEmpty ==
    ASSUME NEW e
    PROVE  Through(e, << >>) = << >>
<1>1. [i \in DOMAIN << >> |-> e[<< >>[i]]] = << >>
  OBVIOUS
<1> QED
  BY <1>1, FlattenEmpty DEF Through

LEMMA ThroughAppend ==
    ASSUME NEW F, NEW S, NEW e \in [F -> Seq(S)], NEW fs \in Seq(F), NEW x \in F
    PROVE  Through(e, Append(fs, x)) = Through(e, fs) \o e[x]
<1> DEFINE es == [i \in DOMAIN fs |-> e[fs[i]]]
           gs == Append(fs, x)
           ds == [i \in DOMAIN gs |-> e[gs[i]]]
<1>1. es \in Seq(Seq(S)) /\ gs \in Seq(F)
  BY ThroughSeq
<1>2. ds \in Seq(Seq(S))
  <2> HIDE DEF gs
  <2> QED
    BY <1>1, ThroughSeq
<1>3. Len(es) = Len(fs) /\ Len(fs) \in Nat /\ \A i \in 1 .. Len(fs) : es[i] = e[fs[i]]
  OBVIOUS
<1>4. /\ Len(gs) = Len(fs) + 1 /\ gs[Len(fs) + 1] = x
      /\ \A i \in 1 .. Len(fs) : gs[i] = fs[i]
  OBVIOUS
<1>5. Len(ds) = Len(gs) /\ \A i \in 1 .. Len(gs) : ds[i] = e[gs[i]]
  <2> HIDE DEF gs
  <2> QED
    BY <1>1
<1> HIDE DEF es, gs, ds
<1>6. e[x] \in Seq(S)
  OBVIOUS
<1>7. ds = Append(es, e[x])
  BY <1>1, <1>2, <1>3, <1>4, <1>5, <1>6
<1>8. FlattenSeq(Append(es, e[x])) = FlattenSeq(es) \o e[x]
  BY <1>1, <1>6, FlattenAppend
<1> QED
  BY <1>7, <1>8 DEF Through, es, gs, ds

LEMMA ThroughHead ==
    ASSUME NEW F, NEW S, NEW e \in [F -> Seq(S)], NEW fs \in Seq(F), fs # << >>
    PROVE  Through(e, fs) = e[fs[1]] \o Through(e, Tail(fs))
<1> DEFINE es == [i \in DOMAIN fs |-> e[fs[i]]]
           gs == Tail(fs)
           ds == [i \in DOMAIN gs |-> e[gs[i]]]
<1>1. es \in Seq(Seq(S)) /\ gs \in Seq(F)
  BY ThroughSeq
<1>2. ds \in Seq(Seq(S))
  <2> HIDE DEF gs
  <2> QED
    BY <1>1, ThroughSeq
<1>3. Len(es) = Len(fs) /\ Len(fs) \in Nat \ {0} /\ \A i \in 1 .. Len(fs) : es[i] = e[fs[i]]
  OBVIOUS
<1>4. Len(gs) = Len(fs) - 1 /\ \A i \in 1 .. Len(gs) : gs[i] = fs[i + 1]
  OBVIOUS
<1>5. Len(ds) = Len(gs) /\ \A i \in 1 .. Len(gs) : ds[i] = e[gs[i]]
  <2> HIDE DEF gs
  <2> QED
    BY <1>1
<1> HIDE DEF es, gs, ds
<1>6. es # << >> /\ es[1] = e[fs[1]]
  BY <1>1, <1>3
<1>7. ds = Tail(es)
  <2>1. /\ Tail(es) \in Seq(Seq(S)) /\ Len(Tail(es)) = Len(es) - 1
        /\ \A i \in 1 .. Len(Tail(es)) : Tail(es)[i] = es[i + 1]
    BY <1>1, <1>6, HeadTailProperties
  <2>2. Len(ds) = Len(Tail(es))
    BY <2>1, <1>3, <1>4, <1>5
  <2>3. ASSUME NEW i \in 1 .. Len(ds) PROVE ds[i] = Tail(es)[i]
    <3>1. i \in 1 .. Len(gs) /\ i \in 1 .. Len(Tail(es)) /\ i + 1 \in 1 .. Len(fs)
      BY <2>1, <1>3, <1>4, <1>5
    <3>2. ds[i] = e[gs[i]] /\ gs[i] = fs[i + 1]
      BY <3>1, <1>4, <1>5
    <3>3. Tail(es)[i] = es[i + 1] /\ es[i + 1] = e[fs[i + 1]]
      BY <3>1, <2>1, <1>3
    <3> QED
      BY <3>2, <3>3
  <2> QED
    BY <2>1, <2>2, <2>3, <1>2, SeqEqual
<1>8. FlattenSeq(es) = es[1] \o FlattenSeq(Tail(es))
  BY <1>1, <1>6, FlattenHead
<1> QED
  BY <1>6, <1>7, <1>8 DEF Through, es, gs, ds

(* The first element alone. *)
LEMMA ThroughOne ==
    ASSUME NEW F, NEW S, NEW e \in [F -> Seq(S)], NEW fs \in Seq(F), fs # << >>
    PROVE  Through(e, SubSeq(fs, 1, 1)) = e[fs[1]]
<1>1. SubSeq(fs, 1, 1) = Append(<< >>, fs[1])
  <2>1. Len(fs) \in Nat \ {0} /\ fs[1] \in F
    OBVIOUS
  <2>2. /\ SubSeq(fs, 1, 1) \in Seq(F) /\ Len(SubSeq(fs, 1, 1)) = 1
        /\ SubSeq(fs, 1, 1)[1] = fs[1]
    <3>1. \A i \in 1 .. 1 : fs[i] \in F
      BY <2>1
    <3>2. /\ SubSeq(fs, 1, 1) \in Seq(F) /\ Len(SubSeq(fs, 1, 1)) = 1
          /\ \A i \in 1 .. 1 : SubSeq(fs, 1, 1)[i] = fs[i]
      BY <3>1
    <3> QED
      BY <3>2
  <2> DEFINE a == SubSeq(fs, 1, 1)
             b == Append(<< >>, fs[1])
  <2>3. b \in Seq(F) /\ Len(b) = 1 /\ b[1] = fs[1]
    BY <2>1
  <2>4. a \in Seq(F) /\ Len(a) = 1 /\ a[1] = fs[1]
    BY <2>2
  <2> HIDE DEF a, b
  <2>5. a = b
    BY <2>3, <2>4, SeqEqual
  <2> QED
    BY <2>5 DEF a, b
<1>2. << >> \in Seq(F) /\ fs[1] \in F /\ e[fs[1]] \in Seq(S)
  OBVIOUS
<1>3. Through(e, Append(<< >>, fs[1])) = << >> \o e[fs[1]]
  BY <1>2, ThroughAppend, ThroughEmpty
<1>4. << >> \o e[fs[1]] = e[fs[1]]
  BY <1>2
<1> QED
  BY <1>1, <1>3, <1>4

-----------------------------------------------------------------------------
(* A function applied to every element of a sequence. *)

Maps(h, S, T) == h \in [S -> T]

Mapped(h, s) == [i \in DOMAIN s |-> h[s[i]]]

LEMMA MappedType ==
    ASSUME NEW S, NEW T, NEW h, Maps(h, S, T), NEW s \in Seq(S)
    PROVE  /\ Mapped(h, s) \in Seq(T) /\ Len(Mapped(h, s)) = Len(s)
           /\ \A i \in 1 .. Len(s) : Mapped(h, s)[i] = h[s[i]]
<1>1. Len(s) \in Nat /\ DOMAIN s = 1 .. Len(s) /\ \A i \in 1 .. Len(s) : s[i] \in S
  OBVIOUS
<1>2. [i \in 1 .. Len(s) |-> h[s[i]]] \in [1 .. Len(s) -> T]
  BY <1>1 DEF Maps
<1>3. Mapped(h, s) = [i \in 1 .. Len(s) |-> h[s[i]]]
  BY <1>1 DEF Mapped
<1> QED
  BY <1>1, <1>2, <1>3

LEMMA MappedConcat ==
    ASSUME NEW S, NEW T, NEW h, Maps(h, S, T), NEW a \in Seq(S), NEW b \in Seq(S)
    PROVE  Mapped(h, a \o b) = Mapped(h, a) \o Mapped(h, b)
<1> DEFINE c == a \o b
           x == Mapped(h, c)
           y == Mapped(h, a)
           z == Mapped(h, b)
           w == y \o z
<1>1. /\ c \in Seq(S) /\ Len(a) \in Nat /\ Len(b) \in Nat /\ Len(c) = Len(a) + Len(b)
      /\ \A i \in 1 .. Len(a) : c[i] = a[i]
      /\ \A i \in 1 .. Len(b) : c[Len(a) + i] = b[i]
  OBVIOUS
<1>m. ASSUME NEW s \in Seq(S)
      PROVE  /\ Mapped(h, s) \in Seq(T) /\ Len(Mapped(h, s)) = Len(s)
             /\ \A i \in 1 .. Len(s) : Mapped(h, s)[i] = h[s[i]]
  <2>1. Mapped(h, s) \in Seq(T)
    BY MappedType
  <2>2. Len(Mapped(h, s)) = Len(s)
    BY MappedType
  <2>3. \A i \in 1 .. Len(s) : Mapped(h, s)[i] = h[s[i]]
    BY MappedType
  <2> QED
    BY <2>1, <2>2, <2>3, Zenon
<1>2. /\ y \in Seq(T) /\ Len(y) = Len(a) /\ \A i \in 1 .. Len(a) : y[i] = h[a[i]]
      /\ z \in Seq(T) /\ Len(z) = Len(b) /\ \A i \in 1 .. Len(b) : z[i] = h[b[i]]
  BY <1>m
<1> HIDE DEF c
<1>3. x \in Seq(T) /\ Len(x) = Len(c) /\ \A i \in 1 .. Len(c) : x[i] = h[c[i]]
  BY <1>1, <1>m
<1> HIDE DEF x, y, z
<1>w. ASSUME NEW u \in Seq(T), NEW v \in Seq(T)
      PROVE  /\ u \o v \in Seq(T) /\ Len(u \o v) = Len(u) + Len(v)
             /\ \A i \in 1 .. Len(u) : (u \o v)[i] = u[i]
             /\ \A i \in 1 .. Len(v) : (u \o v)[Len(u) + i] = v[i]
  OBVIOUS
<1>4. /\ w \in Seq(T) /\ Len(w) = Len(y) + Len(z)
      /\ \A i \in 1 .. Len(y) : w[i] = y[i]
      /\ \A i \in 1 .. Len(z) : w[Len(y) + i] = z[i]
  BY <1>2, <1>w
<1> HIDE DEF w
<1>5. Len(x) = Len(w)
  BY <1>1, <1>2, <1>3, <1>4
<1>6. ASSUME NEW i \in 1 .. Len(x) PROVE x[i] = w[i]
  <2>1. CASE i \in 1 .. Len(a)
    <3>1. i \in 1 .. Len(c) /\ i \in 1 .. Len(y)
      BY <1>2, <1>3, <2>1
    <3>2. x[i] = h[c[i]] /\ c[i] = a[i]
      BY <1>1, <1>3, <2>1, <3>1, Zenon
    <3>3. w[i] = y[i] /\ y[i] = h[a[i]]
      BY <1>2, <1>4, <2>1, <3>1, Zenon
    <3> QED
      BY <3>2, <3>3
  <2>2. CASE i \notin 1 .. Len(a)
    <3>1. i - Len(a) \in 1 .. Len(b) /\ Len(a) + (i - Len(a)) = i /\ i \in 1 .. Len(c)
      BY <1>1, <1>3, <2>2
    <3>2. c[i] = b[i - Len(a)] /\ w[i] = z[i - Len(a)]
      <4>1. c[Len(a) + (i - Len(a))] = b[i - Len(a)]
        BY <1>1, <3>1
      <4>2. w[Len(y) + (i - Len(a))] = z[i - Len(a)]
        BY <1>2, <1>4, <3>1
      <4> QED
        BY <1>2, <3>1, <4>1, <4>2
    <3> QED
      BY <1>2, <1>3, <3>1, <3>2
  <2> QED
    BY <2>1, <2>2
<1>7. x = w
  BY <1>3, <1>4, <1>5, <1>6, SeqEqual
<1> QED
  BY <1>7 DEF w, x, y, z, c

(* What the sequences become when h is applied to their elements.          *)
LEMMA FlattenMapped ==
    ASSUME NEW S, NEW T, NEW h, Maps(h, S, T), NEW ss \in Seq(Seq(S)), NEW tt \in Seq(Seq(T)),
           Len(tt) = Len(ss), \A i \in 1 .. Len(ss) : tt[i] = Mapped(h, ss[i])
    PROVE  FlattenSeq(tt) = Mapped(h, FlattenSeq(ss))
<1>c. \A a, b \in Seq(S) : Mapped(h, a \o b) = Mapped(h, a) \o Mapped(h, b)
  <2>1. Maps(h, S, T)
    OBVIOUS
  <2> QED
    BY ONLY <2>1, MappedConcat
<1>1. Len(ss) \in Nat /\ \A i \in 1 .. Len(ss) : ss[i] \in Seq(S)
  OBVIOUS
<1>2. CASE Len(ss) = 0
  <2>1. ss = << >> /\ tt = << >>
    BY <1>2
  <2>2. Mapped(h, << >>) = << >>
    BY DEF Mapped
  <2> QED
    BY <2>1, <2>2, FlattenEmpty
<1>3. CASE Len(ss) # 0
  <2>1. PICK f : Flat(ss, f) /\ FlattenSeq(ss) = f[Len(ss)]
    BY <1>1, <1>3, FlattenIs
  <2>2. PICK g : Flat(tt, g) /\ FlattenSeq(tt) = g[Len(tt)]
    BY <1>1, <1>3, FlattenIs
  <2>f. /\ Len(ss) >= 1 => f[1] = ss[1]
        /\ \A i \in 1 .. Len(ss) : i + 1 \in 1 .. Len(ss) => f[i + 1] = f[i] \o ss[i + 1]
    BY <1>1, <2>1, FlatStep
  <2>g. /\ Len(tt) >= 1 => g[1] = tt[1]
        /\ \A i \in 1 .. Len(tt) : i + 1 \in 1 .. Len(tt) => g[i + 1] = g[i] \o tt[i + 1]
    BY <1>1, <2>2, FlatStep
  <2>3. \A i \in 1 .. Len(ss) : f[i] \in Seq(S)
    BY <2>1, FlatType
  <2> DEFINE Good == {i \in 1 .. Len(ss) : g[i] = Mapped(h, f[i])}
  <2>4. 1 \in Good
    <3>1. 1 \in 1 .. Len(ss) /\ Len(ss) >= 1 /\ Len(tt) >= 1
      BY <1>1, <1>3
    <3> QED
      BY <2>f, <2>g, <3>1
  <2>5. ASSUME NEW i \in 1 .. Len(ss), i + 1 \in 1 .. Len(ss), i \in Good
        PROVE  i + 1 \in Good
    <3>1. f[i + 1] = f[i] \o ss[i + 1] /\ g[i + 1] = g[i] \o tt[i + 1]
      BY <2>f, <2>g, <2>5
    <3>2. g[i] = Mapped(h, f[i]) /\ tt[i + 1] = Mapped(h, ss[i + 1])
      BY <2>5
    <3>3. f[i] \in Seq(S) /\ ss[i + 1] \in Seq(S)
      BY <1>1, <2>3, <2>5
    <3>4. Mapped(h, f[i] \o ss[i + 1]) = Mapped(h, f[i]) \o Mapped(h, ss[i + 1])
      BY <3>3, <1>c, Zenon
    <3>5. g[i + 1] = Mapped(h, f[i + 1])
      BY <3>1, <3>2, <3>4
    <3> QED
      BY <2>5, <3>5
  <2> HIDE DEF Good
  <2>6. \A i \in 1 .. Len(ss) : i + 1 \in 1 .. Len(ss) /\ i \in Good => i + 1 \in Good
    BY <2>5
  <2>7. \A i \in 1 .. Len(ss) : i \in Good
    BY <1>1, <2>4, <2>6, UpTo
  <2>8. Len(ss) \in Good
    BY <1>1, <1>3, <2>7
  <2>9. g[Len(ss)] = Mapped(h, f[Len(ss)])
    BY <2>8 DEF Good
  <2> QED
    BY <2>1, <2>2, <2>9
<1> QED
  BY <1>2, <1>3

(* Sequences of one element each make the sequence of these elements.      *)
LEMMA FlattenSingles ==
    ASSUME NEW S, NEW s \in Seq(S), NEW ss \in Seq(Seq(S)),
           Len(ss) = Len(s), \A i \in 1 .. Len(s) : ss[i] = << s[i] >>
    PROVE  FlattenSeq(ss) = s
<1>1. Len(s) \in Nat /\ \A i \in 1 .. Len(s) : s[i] \in S
  OBVIOUS
<1>2. CASE Len(s) = 0
  <2>1. s = << >> /\ ss = << >>
    BY <1>2
  <2> QED
    BY <2>1, FlattenEmpty
<1>3. CASE Len(s) # 0
  <2>1. PICK f : Flat(ss, f) /\ FlattenSeq(ss) = f[Len(ss)]
    BY <1>1, <1>3, FlattenIs
  <2>f. /\ Len(ss) >= 1 => f[1] = ss[1]
        /\ \A i \in 1 .. Len(ss) : i + 1 \in 1 .. Len(ss) => f[i + 1] = f[i] \o ss[i + 1]
    BY <1>1, <2>1, FlatStep
  <2>2. \A i \in 1 .. Len(ss) : f[i] \in Seq(S)
    BY <2>1, FlatType
  <2> DEFINE Good == {i \in 1 .. Len(s) : Len(f[i]) = i /\ \A j \in 1 .. i : f[i][j] = s[j]}
  <2>3. 1 \in Good
    <3>1. 1 \in 1 .. Len(s) /\ Len(ss) >= 1 /\ s[1] \in S
      BY <1>1, <1>3
    <3>2. f[1] = << s[1] >>
      BY <2>f, <3>1
    <3>3. Len(f[1]) = 1 /\ f[1][1] = s[1]
      BY <3>1, <3>2
    <3>4. \A j \in 1 .. 1 : j = 1
      OBVIOUS
    <3>5. \A j \in 1 .. 1 : f[1][j] = s[j]
      BY <3>3, <3>4
    <3> QED
      BY <3>1, <3>3, <3>5
  <2>4. ASSUME NEW i \in 1 .. Len(s), i + 1 \in 1 .. Len(s), i \in Good
        PROVE  i + 1 \in Good
    <3>1. f[i + 1] = f[i] \o << s[i + 1] >>
      BY <2>f, <2>4
    <3>2. f[i] \in Seq(S) /\ s[i + 1] \in S
      BY <1>1, <2>2, <2>4
    <3>3. Len(f[i]) = i /\ \A j \in 1 .. i : f[i][j] = s[j]
      BY <2>4
    <3>4. ASSUME NEW a \in Seq(S), NEW x \in S
          PROVE  /\ Len(a \o << x >>) = Len(a) + 1 /\ (a \o << x >>)[Len(a) + 1] = x
                 /\ \A j \in 1 .. Len(a) : (a \o << x >>)[j] = a[j]
      <4> HIDE DEF Good
      <4> QED
        OBVIOUS
    <3>5. /\ Len(f[i + 1]) = i + 1 /\ f[i + 1][i + 1] = s[i + 1]
          /\ \A j \in 1 .. i : f[i + 1][j] = f[i][j]
      <4> HIDE DEF Good
      <4>1. /\ Len(f[i] \o << s[i + 1] >>) = Len(f[i]) + 1
            /\ (f[i] \o << s[i + 1] >>)[Len(f[i]) + 1] = s[i + 1]
            /\ \A j \in 1 .. Len(f[i]) : (f[i] \o << s[i + 1] >>)[j] = f[i][j]
        BY <3>2, <3>4, Zenon
      <4> QED
        BY <3>1, <3>3, <4>1, Zenon
    <3>6. \A j \in 1 .. i + 1 : j \in 1 .. i \/ j = i + 1
      BY <2>4
    <3>7. \A j \in 1 .. i + 1 : f[i + 1][j] = s[j]
      <4> HIDE DEF Good
      <4> QED
        BY <3>3, <3>5, <3>6
    <3> QED
      BY <2>4, <3>5, <3>7
  <2> HIDE DEF Good
  <2>5. \A i \in 1 .. Len(s) : i + 1 \in 1 .. Len(s) /\ i \in Good => i + 1 \in Good
    BY <2>4
  <2>6. \A i \in 1 .. Len(s) : i \in Good
    BY <1>1, <2>3, <2>5, UpTo
  <2>7. Len(s) \in Good /\ Len(s) \in 1 .. Len(ss)
    BY <1>1, <1>3, <2>6
  <2>8. Len(f[Len(s)]) = Len(s) /\ \A j \in 1 .. Len(s) : f[Len(s)][j] = s[j]
    BY <2>7 DEF Good
  <2>9. f[Len(s)] \in Seq(S)
    BY <2>2, <2>7
  <2>10. f[Len(s)] = s
    BY <2>8, <2>9, SeqEqual
  <2> QED
    BY <2>1, <2>10
<1> QED
  BY <1>2, <1>3

-----------------------------------------------------------------------------
(* Beginnings of sequences. *)

LEMMA PrefixElements ==
    ASSUME NEW S, NEW a \in Seq(S), NEW c \in Seq(S)
    PROVE  IsPrefix(a, c) <=> Len(a) <= Len(c) /\ \A i \in 1 .. Len(a) : a[i] = c[i]
<1>1. SubSeq(a, 1, Len(a)) = a
  BY SubSeqFull
<1>2. ASSUME Len(a) <= Len(c)
      PROVE  /\ SubSeq(c, 1, Len(a)) \in Seq(S) /\ Len(SubSeq(c, 1, Len(a))) = Len(a)
             /\ \A i \in 1 .. Len(a) : SubSeq(c, 1, Len(a))[i] = c[i]
  BY <1>2
<1>3. ASSUME Len(a) <= Len(c), \A i \in 1 .. Len(a) : a[i] = c[i]
      PROVE  a = SubSeq(c, 1, Len(a))
  <2> DEFINE b == SubSeq(c, 1, Len(a))
  <2>1. b \in Seq(S) /\ Len(b) = Len(a) /\ \A i \in 1 .. Len(a) : b[i] = c[i]
    BY <1>2, <1>3
  <2> HIDE DEF b
  <2>2. a = b
    BY <1>3, <2>1, SeqEqual
  <2> QED
    BY <2>2 DEF b
<1>4. ASSUME Len(a) <= Len(c), a = SubSeq(c, 1, Len(a))
      PROVE  \A i \in 1 .. Len(a) : a[i] = c[i]
  BY <1>2, <1>4
<1> QED
  BY <1>1, <1>3, <1>4 DEF IsPrefix

(* Of two ways to split a sequence the shorter first part begins the other. *)
LEMMA ShorterFirst ==
    ASSUME NEW S, NEW a \in Seq(S), NEW b \in Seq(S), NEW c \in Seq(S), NEW d \in Seq(S),
           a \o b = c \o d, Len(a) <= Len(c)
    PROVE  IsPrefix(a, c) /\ (Len(a) = Len(c) => a = c /\ b = d)
<1>1. ASSUME NEW i \in 1 .. Len(a) PROVE a[i] = c[i]
  <2>1. (a \o b)[i] = a[i] /\ (c \o d)[i] = c[i]
    OBVIOUS
  <2> QED
    BY <2>1
<1>2. IsPrefix(a, c)
  BY <1>1, PrefixElements
<1>3. ASSUME Len(a) = Len(c) PROVE a = c /\ b = d
  <2>1. a = c
    BY <1>1, <1>3, SeqEqual
  <2>2. Len(b) = Len(d)
    <3>1. Len(a \o b) = Len(a) + Len(b) /\ Len(c \o d) = Len(c) + Len(d)
      OBVIOUS
    <3> QED
      BY <1>3, <3>1
  <2>3. ASSUME NEW i \in 1 .. Len(b) PROVE b[i] = d[i]
    <3>1. (a \o b)[Len(a) + i] = b[i] /\ (c \o d)[Len(c) + i] = d[i]
      BY <2>2
    <3> QED
      BY <1>3, <3>1
  <2> QED
    BY <2>1, <2>2, <2>3, SeqEqual
<1> QED
  BY <1>2, <1>3
=============================================================================
