---------------------------- MODULE WireCodeProofs ----------------------------
(***************************************************************************)
(* Facts about sequences that the proofs of the transmit and the receive   *)
(* path share, and about the wire code of HSWire, for bit sequences of any *)
(* length.  What holds for every sequence is proved by induction over its  *)
(* length; the induction principle is stated with a set in place of a      *)
(* predicate, and follows from the well-foundedness of strict inclusion    *)
(* among finite sets.                                                      *)
(***************************************************************************)
EXTENDS HSWire, SequencesExt, SequenceTheorems, FiniteSetTheorems, TLAPS

(* A set that holds 0 and, with each number, the next one, holds them all:
   in a number missing from it there would be a least one. *)
LEMMA SetInduction ==
  ASSUME NEW S, 0 \in S, \A n \in Nat : n \in S => n + 1 \in S
  PROVE  Nat \subseteq S
<1> DEFINE R == StrictSubsetOrdering(Nat)
           T == {0..n : n \in Nat \ S}
<1> SUFFICES ASSUME NEW m \in Nat, m \notin S PROVE FALSE
  OBVIOUS
<1>1. IsWellFoundedOn(R, FiniteSubsetsOf(Nat))
  BY FS_StrictSubsetOrderingWellFounded
<1>2. T \subseteq FiniteSubsetsOf(Nat) /\ 0..m \in T
  <2>1. \A n \in Nat : IsFiniteSet(0..n) /\ 0..n \subseteq Nat
    BY FS_Interval
  <2> QED
    BY <2>1 DEF FiniteSubsetsOf
<1> HIDE DEF R
<1>3. PICK x \in T : \A y \in T : ~ (<<y, x>> \in R)
  <2> HIDE DEF T
  <2> QED
    BY <1>1, <1>2, WFMin, Zenon
<1>4. PICK n \in Nat \ S : x = 0..n
  OBVIOUS
<1>5. n # 0 /\ n - 1 \in Nat
  BY <1>4
<1>6. n - 1 \notin S
  <2>1. n - 1 \in S => n - 1 + 1 \in S
    BY <1>5
  <2>2. n - 1 + 1 = n
    BY <1>4
  <2> QED
    BY <1>4, <2>1, <2>2
<1>7. 0..(n - 1) \in T
  BY <1>5, <1>6
<1>8. <<0..(n - 1), x>> \in R
  BY <1>4, <1>5 DEF R, StrictSubsetOrdering
<1> QED
  BY <1>3, <1>7, <1>8

(* The same for sequences that grow at their end. *)
LEMMA SeqInduction ==
  ASSUME NEW S, NEW P, <<>> \in P, \A s \in Seq(S), e \in S : s \in P => Append(s, e) \in P
  PROVE  Seq(S) \subseteq P
<1> DEFINE N == {n \in Nat : \A s \in Seq(S) : Len(s) = n => s \in P}
<1>1. 0 \in N
  BY EmptySeq
<1>2. ASSUME NEW n \in Nat, n \in N PROVE n + 1 \in N
  <2> SUFFICES ASSUME NEW s \in Seq(S), Len(s) = n + 1 PROVE s \in P
    OBVIOUS
  <2>1. s # <<>>
    BY EmptySeq
  <2>2. PICK t \in Seq(S), e \in S : s = Append(t, e)
    BY <2>1, SequenceEmptyOrAppend
  <2>3. Len(t) = n
    <3>1. Len(s) = Len(t) + 1 /\ Len(t) \in Nat
      BY <2>2, AppendProperties, LenProperties
    <3> QED
      BY <3>1
  <2> QED
    BY <1>2, <2>2, <2>3
<1>3. Nat \subseteq N
  <2> HIDE DEF N
  <2> QED
    BY <1>1, <1>2, SetInduction
<1> QED
  BY <1>3, LenProperties

-----------------------------------------------------------------------------
(* Sequences that grow and shrink. *)

\* A sequence that is not empty is a shorter one with its last element behind.
LEMMA SplitLast ==
  ASSUME NEW S, NEW s \in Seq(S), s # <<>>
  PROVE  \E t \in Seq(S), e \in S :
           /\ s = Append(t, e) /\ Len(s) = Len(t) + 1 /\ Len(t) \in Nat
           /\ s[Len(s)] = e /\ \A i \in 1..Len(t) : s[i] = t[i]
<1>1. PICK t \in Seq(S), e \in S : s = Append(t, e)
  BY SequenceEmptyOrAppend
<1>2. /\ Len(s) = Len(t) + 1 /\ Len(t) \in Nat
      /\ s[Len(t) + 1] = e /\ \A i \in 1..Len(t) : s[i] = t[i]
  BY <1>1, AppendProperties, LenProperties
<1> QED
  BY <1>1, <1>2

\* f computes the concatenation of the first n elements of s.
Flattens(f, s, n) == f = [i \in 1..n |-> IF i = 1 THEN s[i] ELSE f[i - 1] \o s[i]]

\* Each number of packets has its concatenation.
LEMMA FlattenExists ==
  ASSUME NEW s
  PROVE  \A n \in Nat : \E f : Flattens(f, s, n)
<1> DEFINE N == {n \in Nat : \E f : Flattens(f, s, n)}
<1>1. 0 \in N
  <2>1. Flattens([i \in 1..0 |-> <<>>], s, 0)
    BY DEF Flattens
  <2> QED
    BY <2>1
<1>2. ASSUME NEW n \in Nat, n \in N PROVE n + 1 \in N
  <2>1. PICK f : Flattens(f, s, n)
    BY <1>2
  <2> DEFINE g == [i \in 1..(n + 1) |->
                     IF i \in 1..n THEN f[i] ELSE IF i = 1 THEN s[i] ELSE f[n] \o s[i]]
  <2>2. ASSUME NEW i \in 1..(n + 1)
        PROVE  g[i] = IF i = 1 THEN s[i] ELSE g[i - 1] \o s[i]
    <3>1. CASE i \in 1..n
      <4>1. f[i] = IF i = 1 THEN s[i] ELSE f[i - 1] \o s[i]
        BY <2>1, <3>1 DEF Flattens
      <4>2. i # 1 => i - 1 \in 1..n /\ i - 1 \in 1..(n + 1)
        BY <3>1
      <4> QED
        BY <3>1, <4>1, <4>2
    <3>2. CASE i \notin 1..n
      <4>1. i = n + 1
        BY <3>2
      <4>2. i # 1 => i - 1 = n /\ i - 1 \in 1..n /\ i - 1 \in 1..(n + 1)
        BY <4>1
      <4> QED
        BY <3>2, <4>1, <4>2
    <3> QED
      BY <3>1, <3>2
  <2>3. Flattens(g, s, n + 1)
    <3> DEFINE h == [i \in 1..(n + 1) |-> IF i = 1 THEN s[i] ELSE g[i - 1] \o s[i]]
    <3>1. g = h
      BY <2>2
    <3> QED
      BY <3>1 DEF Flattens
  <2> QED
    BY <2>3
<1> HIDE DEF N
<1>3. Nat \subseteq N
  BY <1>1, <1>2, SetInduction
<1> QED
  BY <1>3 DEF N

\* Two such functions agree as far as their sequences do.
LEMMA FlattenAgree ==
  ASSUME NEW s, NEW t, NEW k \in Nat, NEW f, NEW g,
         Flattens(f, s, k), Flattens(g, t, k + 1), \A i \in 1..k : s[i] = t[i]
  PROVE  \A i \in 1..k : f[i] = g[i]
<1> DEFINE N == {i \in Nat : i \in 1..k => f[i] = g[i]}
<1>1. 0 \in N
  OBVIOUS
<1>2. ASSUME NEW i \in Nat, i \in N PROVE i + 1 \in N
  <2> SUFFICES ASSUME i + 1 \in 1..k PROVE f[i + 1] = g[i + 1]
    OBVIOUS
  <2>1. /\ f[i + 1] = IF i + 1 = 1 THEN s[i + 1] ELSE f[i + 1 - 1] \o s[i + 1]
        /\ g[i + 1] = IF i + 1 = 1 THEN t[i + 1] ELSE g[i + 1 - 1] \o t[i + 1]
    <3> DEFINE j == i + 1
           m == k + 1
    <3>1. j \in 1..k /\ j \in 1..m /\ Flattens(g, t, m)
      OBVIOUS
    <3> HIDE DEF j, m
    <3>2. f[j] = IF j = 1 THEN s[j] ELSE f[j - 1] \o s[j]
      BY <3>1 DEF Flattens
    <3>3. g[j] = IF j = 1 THEN t[j] ELSE g[j - 1] \o t[j]
      BY <3>1 DEF Flattens
    <3> QED
      BY <3>2, <3>3 DEF j
  <2>2. i + 1 - 1 = i /\ (i + 1 # 1 => i \in 1..k) /\ s[i + 1] = t[i + 1]
    OBVIOUS
  <2> QED
    BY <1>2, <2>1, <2>2
<1> HIDE DEF N
<1>3. Nat \subseteq N
  BY <1>1, <1>2, SetInduction
<1> QED
  BY <1>3 DEF N

\* What FlattenSeq of the community modules returns.
LEMMA FlattenValue ==
  ASSUME NEW s
  PROVE  Len(s) \in Nat \ {0} =>
           \E f : Flattens(f, s, Len(s)) /\ FlattenSeq(s) = f[Len(s)]
<1> SUFFICES ASSUME Len(s) \in Nat, Len(s) # 0
             PROVE  \E f : Flattens(f, s, Len(s)) /\ FlattenSeq(s) = f[Len(s)]
  OBVIOUS
<1> DEFINE F == CHOOSE f : Flattens(f, s, Len(s))
<1>1. \E f : Flattens(f, s, Len(s))
  BY FlattenExists
<1>2. Flattens(F, s, Len(s))
  BY <1>1
<1>3. FlattenSeq(s) = F[Len(s)]
  BY Zenon DEF FlattenSeq, Flattens
<1> QED
  BY <1>2, <1>3

\* No packets, nothing in them.
LEMMA FlattenEmpty == FlattenSeq(<<>>) = <<>>
<1>1. Len(<<>>) = 0
  BY EmptySeq
<1> QED
  BY <1>1 DEF FlattenSeq

\* One sequence more, whatever the sequences are.
LEMMA FlattenNext ==
  ASSUME NEW s, NEW t, NEW n \in Nat, Len(s) = n, Len(t) = n + 1,
         \A i \in 1..n : s[i] = t[i]
  PROVE  FlattenSeq(t) = IF n = 0 THEN t[n + 1] ELSE FlattenSeq(s) \o t[n + 1]
<1>1. PICK g : Flattens(g, t, n + 1) /\ FlattenSeq(t) = g[n + 1]
  <2>1. Len(t) \in Nat \ {0}
    OBVIOUS
  <2>2. \E f : Flattens(f, t, Len(t)) /\ FlattenSeq(t) = f[Len(t)]
    BY <2>1, FlattenValue
  <2> QED
    BY <2>2
<1>2. g[n + 1] = IF n = 0 THEN t[n + 1] ELSE g[n] \o t[n + 1]
  <2> DEFINE m == n + 1
  <2>1. m \in 1..m /\ Flattens(g, t, m)
    BY <1>1
  <2>2. m - 1 = n /\ (m = 1 <=> n = 0)
    OBVIOUS
  <2> HIDE DEF m
  <2>3. g[m] = IF m = 1 THEN t[m] ELSE g[m - 1] \o t[m]
    BY <2>1 DEF Flattens
  <2>4. g[m] = IF n = 0 THEN t[m] ELSE g[n] \o t[m]
    BY <2>2, <2>3
  <2> QED
    BY <2>4 DEF m
<1>3. CASE n # 0
  <2>1. PICK f : Flattens(f, s, n) /\ FlattenSeq(s) = f[n]
    <3>1. Len(s) \in Nat \ {0}
      BY <1>3
    <3>2. \E f : Flattens(f, s, Len(s)) /\ FlattenSeq(s) = f[Len(s)]
      BY <3>1, FlattenValue
    <3> QED
      BY <3>2
  <2>2. f[n] = g[n]
    <3>1. Flattens(f, s, n) /\ Flattens(g, t, n + 1)
      BY <1>1, <2>1
    <3>2. \A i \in 1..n : f[i] = g[i]
      BY <3>1, FlattenAgree
    <3> QED
      BY <1>3, <3>2
  <2> QED
    BY <1>1, <1>2, <1>3, <2>1, <2>2
<1> QED
  BY <1>1, <1>2, <1>3

(* One sequence more is appended to the concatenation of the others. *)
LEMMA FlattenAppend ==
  ASSUME NEW S, NEW s \in Seq(Seq(S)), NEW e \in Seq(S), FlattenSeq(s) \in Seq(S)
  PROVE  FlattenSeq(Append(s, e)) = FlattenSeq(s) \o e
<1>1. /\ Len(s) \in Nat /\ Len(Append(s, e)) = Len(s) + 1 /\ Append(s, e)[Len(s) + 1] = e
      /\ \A i \in 1..Len(s) : s[i] = Append(s, e)[i]
  BY AppendProperties, LenProperties
<1>2. FlattenSeq(Append(s, e)) = IF Len(s) = 0 THEN e ELSE FlattenSeq(s) \o e
  <2> DEFINE t == Append(s, e)
             n == Len(s)
  <2>1. n \in Nat /\ Len(s) = n /\ Len(t) = n + 1 /\ \A i \in 1..n : s[i] = t[i]
    BY <1>1
  <2> HIDE DEF t, n
  <2>2. FlattenSeq(t) = IF n = 0 THEN t[n + 1] ELSE FlattenSeq(s) \o t[n + 1]
    BY <2>1, FlattenNext
  <2> QED
    BY <1>1, <2>2 DEF t, n
<1>3. CASE Len(s) = 0
  <2>1. FlattenSeq(s) = <<>>
    BY <1>3, FlattenEmpty, EmptySeq
  <2> QED
    BY <1>2, <1>3, <2>1, ConcatEmptySeq
<1> QED
  BY <1>2, <1>3

\* A concatenation has the elements of its parts.
LEMMA FlattenType ==
  ASSUME NEW S
  PROVE  \A s \in Seq(Seq(S)) : FlattenSeq(s) \in Seq(S)
<1> DEFINE P == {s \in Seq(Seq(S)) : FlattenSeq(s) \in Seq(S)}
<1>1. <<>> \in P
  <2>1. <<>> \in Seq(Seq(S)) /\ <<>> \in Seq(S)
    BY EmptySeq
  <2> QED
    BY <2>1, FlattenEmpty
<1>2. ASSUME NEW s \in Seq(Seq(S)), NEW e \in Seq(S), s \in P
      PROVE  Append(s, e) \in P
  <2>1. Append(s, e) \in Seq(Seq(S)) /\ FlattenSeq(Append(s, e)) = FlattenSeq(s) \o e
    BY <1>2, FlattenAppend, AppendProperties
  <2>2. FlattenSeq(s) \o e \in Seq(S)
    BY <1>2, ConcatProperties
  <2> QED
    BY <2>1, <2>2
<1> HIDE DEF P
<1>3. Seq(Seq(S)) \subseteq P
  BY <1>1, <1>2, SeqInduction
<1> QED
  BY <1>3 DEF P

(* Concatenating goes on from one sequence of sequences to the next. *)
LEMMA FlattenConcat ==
  ASSUME NEW S, NEW s \in Seq(Seq(S))
  PROVE  \A t \in Seq(Seq(S)) : FlattenSeq(s \o t) = FlattenSeq(s) \o FlattenSeq(t)
<1> DEFINE P == {t \in Seq(Seq(S)) : FlattenSeq(s \o t) = FlattenSeq(s) \o FlattenSeq(t)}
<1>0. FlattenSeq(s) \in Seq(S)
  BY FlattenType
<1>1. <<>> \in P
  <2>1. s \o <<>> = s /\ FlattenSeq(s) \o <<>> = FlattenSeq(s)
    BY <1>0, ConcatEmptySeq
  <2>2. <<>> \in Seq(Seq(S))
    BY EmptySeq
  <2> QED
    BY <2>1, <2>2, FlattenEmpty, Zenon
<1>2. ASSUME NEW t \in Seq(Seq(S)), NEW e \in Seq(S), t \in P
      PROVE  Append(t, e) \in P
  <2>1. s \o Append(t, e) = Append(s \o t, e) /\ s \o t \in Seq(Seq(S))
    <3>1. /\ Append(t, e) = t \o <<e>> /\ s \o t \in Seq(Seq(S)) /\ <<e>> \in Seq(Seq(S))
          /\ Append(s \o t, e) = (s \o t) \o <<e>>
      BY AppendIsConcat, ConcatProperties
    <3>2. s \o (t \o <<e>>) = (s \o t) \o <<e>>
      BY <3>1, ConcatAssociative
    <3> QED
      BY <3>1, <3>2
  <2>2. FlattenSeq(t) \in Seq(S) /\ FlattenSeq(s \o t) \in Seq(S)
    BY <2>1, FlattenType
  <2>3. /\ FlattenSeq(Append(s \o t, e)) = FlattenSeq(s \o t) \o e
        /\ FlattenSeq(Append(t, e)) = FlattenSeq(t) \o e
    BY <2>1, <2>2, FlattenAppend
  <2>4. (FlattenSeq(s) \o FlattenSeq(t)) \o e = FlattenSeq(s) \o (FlattenSeq(t) \o e)
    BY <1>0, <2>2, ConcatAssociative
  <2>5. Append(t, e) \in Seq(Seq(S))
    BY AppendProperties
  <2> QED
    BY <1>2, <2>1, <2>3, <2>4, <2>5
<1> HIDE DEF P
<1>3. Seq(Seq(S)) \subseteq P
  BY <1>1, <1>2, SeqInduction
<1> QED
  BY <1>3 DEF P

\* The first sequence is at the front of the concatenation.
LEMMA FlattenHead ==
  ASSUME NEW S, NEW s \in Seq(Seq(S)), s # <<>>
  PROVE  FlattenSeq(s) = Head(s) \o FlattenSeq(Tail(s))
<1>1. /\ Head(s) \in Seq(S) /\ Tail(s) \in Seq(Seq(S)) /\ s = <<Head(s)>> \o Tail(s)
      /\ <<Head(s)>> \in Seq(Seq(S)) /\ <<Head(s)>> = Append(<<>>, Head(s))
  BY HeadTailProperties
<1>2. FlattenSeq(s) = FlattenSeq(<<Head(s)>>) \o FlattenSeq(Tail(s))
  BY <1>1, FlattenConcat
<1>3. FlattenSeq(Append(<<>>, Head(s))) = FlattenSeq(<<>>) \o Head(s)
  <2>1. <<>> \in Seq(Seq(S)) /\ FlattenSeq(<<>>) \in Seq(S)
    BY FlattenEmpty, EmptySeq
  <2> QED
    BY <1>1, <2>1, FlattenAppend
<1>4. FlattenSeq(<<Head(s)>>) = Head(s)
  BY <1>1, <1>3, FlattenEmpty, ConcatEmptySeq
<1> QED
  BY <1>2, <1>4

\* One element more at the end of the last sequence.
LEMMA FlattenGrow ==
  ASSUME NEW S, NEW s \in Seq(Seq(S)), s # <<>>, NEW e \in S
  PROVE  /\ [s EXCEPT ![Len(s)] = Append(@, e)] \in Seq(Seq(S))
         /\ FlattenSeq([s EXCEPT ![Len(s)] = Append(@, e)]) = FlattenSeq(s) \o <<e>>
<1>1. PICK t \in Seq(Seq(S)), x \in Seq(S) :
        /\ s = Append(t, x) /\ Len(s) = Len(t) + 1 /\ Len(t) \in Nat
        /\ s[Len(s)] = x /\ \A i \in 1..Len(t) : s[i] = t[i]
  BY SplitLast
<1> DEFINE u == [s EXCEPT ![Len(s)] = Append(@, e)]
<1>2. Append(x, e) \in Seq(S) /\ Append(x, e) = x \o <<e>> /\ <<e>> \in Seq(S)
  BY AppendProperties, AppendIsConcat
<1>3. u \in Seq(Seq(S)) /\ Len(u) = Len(s)
  BY <1>1, <1>2
<1>4. u = Append(t, Append(x, e))
  <2>1. Append(t, Append(x, e)) \in Seq(Seq(S)) /\ Len(Append(t, Append(x, e))) = Len(s)
    BY <1>1, <1>2
  <2>2. ASSUME NEW i \in 1..Len(s) PROVE u[i] = Append(t, Append(x, e))[i]
    <3>1. CASE i = Len(s)
      BY <1>1, <1>2, <3>1
    <3>2. CASE i \in 1..Len(t)
      <4>0. i \in 1..Len(s) /\ i # Len(s)
        BY <1>1, <3>2
      <4>1. u[i] = s[i]
        BY <4>0
      <4>2. Append(t, Append(x, e))[i] = t[i]
        BY <1>2, <3>2, AppendProperties
      <4> QED
        BY <1>1, <3>2, <4>1, <4>2
    <3> QED
      BY <1>1, <3>1, <3>2
  <2> HIDE DEF u
  <2> QED
    BY <1>3, <2>1, <2>2, SeqEqual
<1>5. /\ FlattenSeq(t) \in Seq(S) /\ FlattenSeq(s) = FlattenSeq(t) \o x
      /\ FlattenSeq(Append(t, Append(x, e))) = FlattenSeq(t) \o Append(x, e)
  BY <1>1, <1>2, FlattenType, FlattenAppend
<1>6. FlattenSeq(t) \o (x \o <<e>>) = (FlattenSeq(t) \o x) \o <<e>>
  BY <1>2, <1>5, ConcatAssociative
<1> QED
  BY <1>2, <1>3, <1>4, <1>5, <1>6

(* F[e] is the part of an element e of T, a sequence over S. *)
Parts(F, T, S) == F \in [T -> Seq(S)]

\* What F makes of each element, end to end.
Gather(F, s) == FlattenSeq([k \in DOMAIN s |-> F[s[k]]])

\* Before they are put end to end.
Gathered(F, s) == [k \in DOMAIN s |-> F[s[k]]]

\* Each element has its part.
LEMMA GatheredType ==
  ASSUME NEW S, NEW T, NEW F, Parts(F, T, S), NEW s \in Seq(T)
  PROVE  Gathered(F, s) \in Seq(Seq(S)) /\ Len(Gathered(F, s)) = Len(s)
<1>1. PICK n \in Nat : n = Len(s)
  OBVIOUS
<1>2. DOMAIN s = 1..n /\ \A k \in 1..n : s[k] \in T
  BY <1>1
<1>3. Gathered(F, s) \in [1..n -> Seq(S)]
  BY <1>2 DEF Gathered, Parts
<1> DEFINE g == Gathered(F, s)
           U == Seq(S)
<1> HIDE DEF g, U
<1>4. g \in [1..n -> U]
  BY <1>3 DEF g, U
<1>5. g \in Seq(U) /\ Len(g) = n
  BY <1>4
<1> QED
  BY <1>1, <1>5 DEF g, U

\* The whole has the elements of the parts.
LEMMA GatherType ==
  ASSUME NEW S, NEW T, NEW F, Parts(F, T, S), NEW s \in Seq(T)
  PROVE  Gather(F, s) \in Seq(S)
<1>1. Gather(F, s) = FlattenSeq(Gathered(F, s))
  BY Zenon DEF Gather, Gathered
<1> QED
  BY <1>1, GatheredType, FlattenType

\* No elements, no parts.
LEMMA GatherEmpty ==
  ASSUME NEW S, NEW T, NEW F, Parts(F, T, S)
  PROVE  Gather(F, <<>>) = <<>>
<1>1. Gathered(F, <<>>) = <<>>
  <2>1. \A s \in Seq(T) : Gathered(F, s) \in Seq(Seq(S)) /\ Len(Gathered(F, s)) = Len(s)
    BY GatheredType
  <2>2. <<>> \in Seq(T) /\ Len(<<>>) = 0
    BY EmptySeq
  <2>3. Gathered(F, <<>>) \in Seq(Seq(S)) /\ Len(Gathered(F, <<>>)) = 0
    BY <2>1, <2>2, Zenon
  <2> QED
    BY <2>3, EmptySeq
<1>2. Gather(F, <<>>) = FlattenSeq(Gathered(F, <<>>))
  BY Zenon DEF Gather, Gathered
<1> QED
  BY <1>1, <1>2, FlattenEmpty

\* An element more adds its part at the end.
LEMMA GatherAppend ==
  ASSUME NEW S, NEW T, NEW F, Parts(F, T, S), NEW s \in Seq(T), NEW e \in T
  PROVE  Gather(F, Append(s, e)) = Gather(F, s) \o F[e]
<1> DEFINE t == Append(s, e)
           g == Gathered(F, s)
           h == Gathered(F, t)
<1>1. /\ t \in Seq(T) /\ Len(t) = Len(s) + 1 /\ Len(s) \in Nat
      /\ \A i \in 1..Len(s) : t[i] = s[i]
      /\ t[Len(s) + 1] = e /\ DOMAIN t = 1..(Len(s) + 1) /\ DOMAIN s = 1..Len(s)
  BY AppendProperties, LenProperties
<1>2. F[e] \in Seq(S)
  BY DEF Parts
<1> HIDE DEF t
<1>3. /\ g \in Seq(Seq(S)) /\ Len(g) = Len(s)
      /\ h \in Seq(Seq(S)) /\ Len(h) = Len(s) + 1
  BY <1>1, GatheredType
<1>4. h = Append(g, F[e])
  <2>1. /\ Append(g, F[e]) \in Seq(Seq(S)) /\ Len(Append(g, F[e])) = Len(s) + 1
        /\ \A i \in 1..Len(s) : Append(g, F[e])[i] = g[i]
        /\ Append(g, F[e])[Len(s) + 1] = F[e]
    <3> HIDE DEF g
    <3> QED
      BY <1>2, <1>3, AppendProperties
  <2>2. \A i \in 1..(Len(s) + 1) : i \in 1..Len(s) \/ i = Len(s) + 1
    BY <1>1
  <2>3. \A i \in 1..Len(s) : h[i] = g[i]
    BY <1>1 DEF Gathered
  <2>4. h[Len(s) + 1] = F[e]
    BY <1>1 DEF Gathered
  <2> HIDE DEF g, h
  <2>5. \A i \in 1..(Len(s) + 1) : h[i] = Append(g, F[e])[i]
    BY <2>1, <2>2, <2>3, <2>4
  <2> QED
    BY <1>3, <2>1, <2>5, SeqEqual
<1>5. FlattenSeq(g) \in Seq(S)
  BY <1>3, FlattenType
<1>6. FlattenSeq(h) = FlattenSeq(g) \o F[e]
  <2> HIDE DEF g, h
  <2> QED
    BY <1>2, <1>3, <1>4, <1>5, FlattenAppend
<1>7. Gather(F, s) = FlattenSeq(g) /\ Gather(F, t) = FlattenSeq(h)
  BY Zenon DEF Gather, Gathered
<1> QED
  BY <1>6, <1>7 DEF t

\* The parts of two sequences one behind the other.
LEMMA GatherConcat ==
  ASSUME NEW S, NEW T, NEW F, Parts(F, T, S), NEW s \in Seq(T)
  PROVE  \A t \in Seq(T) : Gather(F, s \o t) = Gather(F, s) \o Gather(F, t)
<1> DEFINE G(q) == Gather(F, q)
           P == {t \in Seq(T) : G(s \o t) = G(s) \o G(t)}
<1>0. \A t \in Seq(T) : G(t) \in Seq(S)
  BY GatherType
<1>1. G(<<>>) = <<>>
  BY GatherEmpty
<1>2. \A t \in Seq(T), e \in T : G(Append(t, e)) = G(t) \o F[e]
  BY GatherAppend
<1> HIDE DEF G
<1>3. <<>> \in P
  <2>1. s \o <<>> = s /\ G(s) \o <<>> = G(s) /\ <<>> \in Seq(T)
    BY <1>0, ConcatEmptySeq, EmptySeq
  <2> QED
    BY <1>1, <2>1
<1>4. ASSUME NEW t \in Seq(T), NEW e \in T, t \in P PROVE Append(t, e) \in P
  <2>1. /\ s \o Append(t, e) = Append(s \o t, e) /\ s \o t \in Seq(T)
        /\ Append(t, e) \in Seq(T)
    <3>1. /\ Append(t, e) = t \o <<e>> /\ s \o t \in Seq(T) /\ <<e>> \in Seq(T)
          /\ Append(s \o t, e) = (s \o t) \o <<e>> /\ Append(t, e) \in Seq(T)
      BY AppendIsConcat, ConcatProperties, AppendProperties
    <3>2. s \o (t \o <<e>>) = (s \o t) \o <<e>>
      BY <3>1, ConcatAssociative
    <3> QED
      BY <3>1, <3>2
  <2>2. G(Append(s \o t, e)) = G(s \o t) \o F[e] /\ G(Append(t, e)) = G(t) \o F[e]
    BY <1>2, <2>1
  <2> DEFINE a == G(s)
             b == G(t)
             c == F[e]
  <2>3. a \in Seq(S) /\ b \in Seq(S) /\ c \in Seq(S)
    BY <1>0 DEF Parts
  <2> HIDE DEF a, b, c
  <2>4. (a \o b) \o c = a \o (b \o c)
    BY <2>3, ConcatAssociative
  <2> USE DEF a, b, c
  <2> QED
    BY <1>4, <2>1, <2>2, <2>4
<1> HIDE DEF P
<1>5. Seq(T) \subseteq P
  BY <1>3, <1>4, SeqInduction
<1> QED
  BY <1>5 DEF P, G

\* The part of the first element comes first.
LEMMA GatherHead ==
  ASSUME NEW S, NEW T, NEW F, Parts(F, T, S), NEW s \in Seq(T), s # <<>>
  PROVE  Gather(F, s) = F[Head(s)] \o Gather(F, Tail(s))
<1> DEFINE h == Head(s)
           u == Tail(s)
<1>1. h \in T /\ u \in Seq(T) /\ s = <<h>> \o u
  BY HeadTailProperties
<1> HIDE DEF h, u
<1>2. PICK q \in Seq(T), r \in Seq(T) : q = <<h>> /\ r = <<>> /\ q = Append(r, h)
  <2>1. <<h>> \in Seq(T) /\ <<>> \in Seq(T) /\ <<h>> = Append(<<>>, h)
    BY <1>1
  <2> QED
    BY <2>1, Zenon
<1>3. Gather(F, q \o u) = Gather(F, q) \o Gather(F, u)
  <2>1. u \in Seq(T)
    BY <1>1
  <2> QED
    BY <2>1, GatherConcat
<1>4. Gather(F, Append(r, h)) = Gather(F, r) \o F[h]
  <2>1. h \in T
    BY <1>1
  <2> QED
    BY <2>1, GatherAppend
<1>5. <<>> \o F[h] = F[h]
  <2>1. F[h] \in Seq(S)
    BY <1>1 DEF Parts
  <2> QED
    BY <2>1, ConcatEmptySeq
<1>6. Gather(F, r) = <<>>
  BY <1>2, GatherEmpty
<1> QED
  BY <1>1, <1>2, <1>3, <1>4, <1>5, <1>6 DEF h, u

(* A sequence taken in element by element: F[<<a, e>>] is what becomes of a. *)
Folds(f, F, a, s, n) == f = [i \in 0..n |-> IF i = 0 THEN a ELSE F[<<f[i - 1], s[i]>>]]
\* What has become of it after all of them.
Folded(F, a, s) == (CHOOSE f : Folds(f, F, a, s, Len(s)))[Len(s)]

\* It can be computed element by element, as far as one likes.
LEMMA FoldsExists ==
  ASSUME NEW F, NEW a, NEW s
  PROVE  \A n \in Nat : \E f : Folds(f, F, a, s, n)
<1> DEFINE N == {n \in Nat : \E f : Folds(f, F, a, s, n)}
<1>1. 0 \in N
  <2>1. Folds([i \in 0..0 |-> a], F, a, s, 0)
    BY DEF Folds
  <2> QED
    BY <2>1
<1>2. ASSUME NEW n \in Nat, n \in N PROVE n + 1 \in N
  <2>1. PICK f : Folds(f, F, a, s, n)
    BY <1>2
  <2> DEFINE g == [i \in 0..(n + 1) |-> IF i \in 0..n THEN f[i] ELSE F[<<f[n], s[i]>>]]
             h == [i \in 0..(n + 1) |-> IF i = 0 THEN a ELSE F[<<g[i - 1], s[i]>>]]
  <2>2. ASSUME NEW i \in 0..(n + 1) PROVE g[i] = h[i]
    <3>1. CASE i = 0
      BY <2>1, <3>1 DEF Folds
    <3>2. CASE i # 0 /\ i \in 0..n
      <4>1. f[i] = IF i = 0 THEN a ELSE F[<<f[i - 1], s[i]>>]
        BY <2>1, <3>2 DEF Folds
      <4>2. i - 1 \in 0..n /\ i - 1 \in 0..(n + 1)
        BY <3>2
      <4> QED
        BY <3>2, <4>1, <4>2
    <3>3. CASE i = n + 1
      <4>1. i - 1 = n /\ n \in 0..n /\ n \in 0..(n + 1) /\ i \notin 0..n /\ i # 0
        BY <3>3
      <4> QED
        BY <4>1
    <3> QED
      BY <3>1, <3>2, <3>3
  <2>3. g = h
    BY <2>2
  <2>4. Folds(g, F, a, s, n + 1)
    BY <2>3 DEF Folds
  <2> QED
    BY <2>4
<1> HIDE DEF N
<1>3. Nat \subseteq N
  BY <1>1, <1>2, SetInduction
<1> QED
  BY <1>3 DEF N

\* The result is the last of the values so computed.
LEMMA FoldedIs ==
  ASSUME NEW F, NEW a, NEW s, NEW n \in Nat, Len(s) = n
  PROVE  \E f : Folds(f, F, a, s, n) /\ Folded(F, a, s) = f[n]
<1> DEFINE G == CHOOSE f : Folds(f, F, a, s, n)
<1>1. Folds(G, F, a, s, n)
  BY FoldsExists
<1>2. Folded(F, a, s) = G[n]
  BY DEF Folded
<1> QED
  BY <1>1, <1>2

\* With nothing taken in nothing changes.
LEMMA FoldedEmpty ==
  ASSUME NEW F, NEW a
  PROVE  Folded(F, a, <<>>) = a
<1>1. PICK f : Folds(f, F, a, <<>>, 0) /\ Folded(F, a, <<>>) = f[0]
  BY FoldedIs, EmptySeq
<1>2. f[0] = a
  BY <1>1 DEF Folds
<1> QED
  BY <1>1, <1>2

\* One element more is taken into the result of those before it.
LEMMA FoldedNext ==
  ASSUME NEW F, NEW a, NEW s, NEW t, NEW n \in Nat,
         Len(s) = n, Len(t) = n + 1, \A i \in 1..n : s[i] = t[i]
  PROVE  Folded(F, a, t) = F[<<Folded(F, a, s), t[n + 1]>>]
<1> SUFFICES ASSUME NEW m, m = n + 1 PROVE Folded(F, a, t) = F[<<Folded(F, a, s), t[m]>>]
  OBVIOUS
<1>1. m \in Nat /\ Len(t) = m /\ n <= m /\ m \in 0..m /\ m # 0 /\ m - 1 = n
  OBVIOUS
<1>2. PICK f : Folds(f, F, a, s, n) /\ Folded(F, a, s) = f[n]
  BY FoldedIs
<1>3. PICK g : Folds(g, F, a, t, m) /\ Folded(F, a, t) = g[m]
  BY <1>1, FoldedIs
<1>4. g[m] = F[<<g[m - 1], t[m]>>]
  BY <1>1, <1>3 DEF Folds
<1>5. \A i \in 0..n : f[i] = g[i]
  <2> DEFINE N == {i \in Nat : i \in 0..n => f[i] = g[i]}
  <2>1. 0 \in N
    BY <1>1, <1>2, <1>3 DEF Folds
  <2>2. ASSUME NEW i \in Nat, i \in N PROVE i + 1 \in N
    <3> SUFFICES ASSUME NEW j, j = i + 1, j \in 0..n PROVE f[j] = g[j]
      OBVIOUS
    <3>1. j # 0 /\ j - 1 = i /\ i \in 0..n /\ j \in 1..n /\ j \in 0..m
      BY <1>1
    <3>2. f[j] = F[<<f[j - 1], s[j]>>] /\ g[j] = F[<<g[j - 1], t[j]>>]
      BY <1>2, <1>3, <3>1 DEF Folds
    <3> QED
      BY <2>2, <3>1, <3>2
  <2> HIDE DEF N
  <2>3. Nat \subseteq N
    BY <2>1, <2>2, SetInduction
  <2> QED
    BY <2>3 DEF N
<1>6. f[n] = g[n]
  BY <1>5
<1> QED
  BY <1>1, <1>2, <1>3, <1>4, <1>6

\* One element more at the end.
LEMMA FoldedAppend ==
  ASSUME NEW S, NEW F, NEW a, NEW s \in Seq(S), NEW e \in S
  PROVE  Folded(F, a, Append(s, e)) = F[<<Folded(F, a, s), e>>]
<1>1. /\ Len(s) \in Nat /\ Len(Append(s, e)) = Len(s) + 1
      /\ Append(s, e)[Len(s) + 1] = e /\ \A i \in 1..Len(s) : s[i] = Append(s, e)[i]
  BY AppendProperties, LenProperties
<1> DEFINE n == Len(s)
           t == Append(s, e)
<1>2. n \in Nat /\ Len(s) = n /\ Len(t) = n + 1 /\ \A i \in 1..n : s[i] = t[i]
  BY <1>1
<1> HIDE DEF n, t
<1>3. Folded(F, a, t) = F[<<Folded(F, a, s), t[n + 1]>>]
  BY <1>2, FoldedNext
<1> QED
  BY <1>1, <1>3 DEF n, t

\* One element taken in at the front.
LEMMA FoldedHead ==
  ASSUME NEW S, NEW F, NEW a
  PROVE  \A s \in Seq(S) : s # <<>> => Folded(F, a, s) = Folded(F, F[<<a, Head(s)>>], Tail(s))
<1> DEFINE Same(s) == Folded(F, a, s) = Folded(F, F[<<a, Head(s)>>], Tail(s))
           P == {s \in Seq(S) : s # <<>> => Same(s)}
<1>1. <<>> \in P
  BY EmptySeq
<1>2. ASSUME NEW s \in Seq(S), NEW e \in S, s \in P PROVE Append(s, e) \in P
  <2>0. Append(s, e) \in Seq(S) /\ Folded(F, a, Append(s, e)) = F[<<Folded(F, a, s), e>>]
    BY FoldedAppend, AppendProperties
  <2>1. CASE s = <<>>
    <3>1. Head(Append(s, e)) = e /\ Tail(Append(s, e)) = <<>>
      BY <2>1
    <3> QED
      BY <2>0, <2>1, <3>1, FoldedEmpty
  <2>2. CASE s # <<>>
    <3>1. /\ Head(Append(s, e)) = Head(s) /\ Tail(Append(s, e)) = Append(Tail(s), e)
          /\ Tail(s) \in Seq(S)
      BY <2>2
    <3>2. ASSUME NEW b PROVE Folded(F, b, Append(Tail(s), e)) = F[<<Folded(F, b, Tail(s)), e>>]
      <4> DEFINE t == Tail(s)
      <4>1. t \in Seq(S)
        BY <3>1
      <4> HIDE DEF t
      <4>2. Folded(F, b, Append(t, e)) = F[<<Folded(F, b, t), e>>]
        BY <4>1, FoldedAppend
      <4> QED
        BY <4>2 DEF t
    <3>3. Same(s)
      BY <1>2, <2>2
    <3>4. Same(Append(s, e))
      BY <2>0, <3>1, <3>2, <3>3
    <3> QED
      BY <2>0, <3>4
  <2> QED
    BY <2>1, <2>2
<1> HIDE DEF P
<1>3. Seq(S) \subseteq P
  BY <1>1, <1>2, SeqInduction
<1> QED
  BY <1>3 DEF P

-----------------------------------------------------------------------------
(* NRZI. *)

\* The level a line is left at.
LevelAfter(bits, initial) == IF bits = <<>> THEN initial ELSE bits[Len(bits)]

\* As many data bits as line bits.
LEMMA NrziDecodeType ==
  ASSUME NEW bits \in Seq(Bit), NEW l \in Bit
  PROVE  NrziDecode(bits, l) \in Seq(Bit) /\ Len(NrziDecode(bits, l)) = Len(bits)
<1>1. Len(bits) \in Nat
  OBVIOUS
<1>2. NrziDecode(bits, l) \in [1..Len(bits) -> Bit]
  BY DEF NrziDecode, Bit
<1> QED
  BY <1>1, <1>2

\* The number of zeros among the first i bits is a natural, so NRZI gives levels.
LEMMA NrziEncodeType ==
  ASSUME NEW bits \in Seq(Bit), NEW l \in Bit
  PROVE  NrziEncode(bits, l) \in Seq(Bit) /\ Len(NrziEncode(bits, l)) = Len(bits)
<1>1. ASSUME NEW i \in 1..Len(bits)
      PROVE  (l + Cardinality({j \in 1..i : bits[j] = 0})) % 2 \in Bit
  <2> DEFINE Z == {j \in 1..i : bits[j] = 0}
  <2>1. IsFiniteSet(1..i)
    BY FS_Interval
  <2>2. Cardinality(Z) \in Nat
    BY <2>1, FS_Subset, FS_CardinalityType
  <2> HIDE DEF Z
  <2>3. (l + Cardinality(Z)) % 2 \in Bit
    BY <2>2 DEF Bit
  <2> QED
    BY <2>3 DEF Z
<1>2. Len(bits) \in Nat
  OBVIOUS
<1>3. NrziEncode(bits, l) \in [1..Len(bits) -> Bit]
  BY <1>1 DEF NrziEncode
<1> QED
  BY <1>2, <1>3

(* The parity of the zeros up to a bit is that up to the one before it,
   toggled if the bit is a zero. *)
LEMMA NrziStep ==
  ASSUME NEW bits \in Seq(Bit), NEW l \in Bit, NEW i \in 1..Len(bits),
         NEW e, e = NrziEncode(bits, l),
         NEW before, before = IF i = 1 THEN l ELSE e[i - 1]
  PROVE  e[i] = IF bits[i] = 1 THEN before ELSE Flip(before)
<1> DEFINE Z(n) == {j \in 1..n : bits[j] = 0}
           N(n) == Cardinality(Z(n))

<1>1. \A n \in Nat : IsFiniteSet(Z(n)) /\ N(n) \in Nat
  <2> TAKE n \in Nat
  <2>1. IsFiniteSet(1..n)
    BY FS_Interval
  <2> QED
    BY <2>1, FS_Subset, FS_CardinalityType
<1>2. i \in Nat /\ i - 1 \in Nat /\ bits[i] \in {0, 1} /\ l \in {0, 1}
  BY DEF Bit
<1>3. \A n \in 1..Len(bits) : e[n] = (l + N(n)) % 2
  BY DEF NrziEncode
<1>4. PICK c \in Nat : c = N(i - 1)
  BY <1>1, <1>2
<1>5. before = (l + c) % 2
  <2>1. CASE i = 1
    <3>1. Z(0) = {} /\ i - 1 = 0
      BY <2>1
    <3>2. c = 0
      BY <1>4, <3>1, FS_EmptySet
    <3>3. \A m \in {0, 1} : (m + 0) % 2 = m
      OBVIOUS
    <3> QED
      BY <1>2, <2>1, <3>2, <3>3
  <2>2. CASE i # 1
    <3>1. i - 1 \in 1..Len(bits)
      BY <2>2
    <3>2. e[i - 1] = (l + N(i - 1)) % 2
      BY <1>3, <3>1
    <3> QED
      BY <1>4, <2>2, <3>2, Zenon
  <2> QED
    BY <2>1, <2>2
<1>6. CASE bits[i] = 1
  <2>1. Z(i) = Z(i - 1)
    BY <1>2, <1>6
  <2>2. e[i] = (l + c) % 2
    BY <1>3, <1>4, <2>1
  <2> QED
    BY <1>5, <1>6, <2>2
<1>7. CASE bits[i] = 0
  <2>1. Z(i) = Z(i - 1) \cup {i} /\ i \notin Z(i - 1)
    BY <1>2, <1>7
  <2>2. N(i) = c + 1
    BY <1>1, <1>2, <1>4, <2>1, FS_AddElement
  <2>3. e[i] = (l + (c + 1)) % 2
    BY <1>3, <2>2
  <2>4. (l + (c + 1)) % 2 = 1 - ((l + c) % 2)
    BY <1>2
  <2> QED
    BY <1>5, <1>7, <2>3, <2>4 DEF Flip
<1> QED
  BY <1>2, <1>6, <1>7

(* Decoding inverts encoding, whatever the level before. *)
LEMMA NrziInverts ==
  ASSUME NEW bits \in Seq(Bit), NEW l \in Bit
  PROVE  NrziDecode(NrziEncode(bits, l), l) = bits
<1> DEFINE e == NrziEncode(bits, l)
<1>1. /\ e \in Seq(Bit) /\ Len(e) = Len(bits)
      /\ NrziDecode(e, l) \in Seq(Bit) /\ Len(NrziDecode(e, l)) = Len(bits)
  BY NrziEncodeType, NrziDecodeType
<1>2. ASSUME NEW i \in 1..Len(bits) PROVE NrziDecode(e, l)[i] = bits[i]
  <2> DEFINE before == IF i = 1 THEN l ELSE e[i - 1]
  <2>1. before \in {0, 1} /\ bits[i] \in {0, 1}
    BY <1>1 DEF Bit
  <2>2. e[i] = IF bits[i] = 1 THEN before ELSE 1 - before
    BY NrziStep DEF Flip
  <2>3. NrziDecode(e, l)[i] = IF e[i] = before THEN 1 ELSE 0
    BY <1>1 DEF NrziDecode
  <2> HIDE DEF e, before
  <2> QED
    BY <2>1, <2>2, <2>3
<1> QED
  BY <1>1, <1>2, SeqEqual

(* Two lines that carry the same data bits from the same level are the same. *)
LEMMA NrziUnique ==
  ASSUME NEW s \in Seq(Bit), NEW t \in Seq(Bit), NEW l \in Bit,
         NrziDecode(s, l) = NrziDecode(t, l)
  PROVE  s = t
<1>1. Len(s) = Len(t) /\ Len(s) \in Nat
  BY NrziDecodeType
<1> DEFINE P == {i \in Nat : i \in 1..Len(s) => s[i] = t[i]}
<1>2. 0 \in P
  OBVIOUS
<1>3. ASSUME NEW n \in Nat, n \in P PROVE n + 1 \in P
  <2> SUFFICES ASSUME NEW i \in 1..Len(s), i = n + 1 PROVE s[i] = t[i]
    OBVIOUS
  <2>1. /\ s[i] \in {0, 1} /\ t[i] \in {0, 1}
        /\ i # 1 => s[i - 1] = t[i - 1] /\ s[i - 1] \in {0, 1}
    BY <1>1, <1>3 DEF Bit
  <2>2. /\ NrziDecode(s, l)[i] = IF s[i] = (IF i = 1 THEN l ELSE s[i - 1]) THEN 1 ELSE 0
        /\ NrziDecode(t, l)[i] = IF t[i] = (IF i = 1 THEN l ELSE t[i - 1]) THEN 1 ELSE 0
    BY <1>1 DEF NrziDecode
  <2>3. l \in {0, 1}
    BY DEF Bit
  <2> QED
    BY <2>1, <2>2, <2>3
<1> HIDE DEF P
<1>4. Nat \subseteq P
  BY <1>2, <1>3, SetInduction
<1>5. \A i \in 1..Len(s) : s[i] = t[i]
  BY <1>1, <1>4 DEF P
<1> QED
  BY <1>1, <1>5, SeqEqual

(* A line is decoded in pieces, each from the level the last one left. *)
LEMMA NrziDecodeConcat ==
  ASSUME NEW s \in Seq(Bit), NEW t \in Seq(Bit), NEW l \in Bit
  PROVE  NrziDecode(s \o t, l) = NrziDecode(s, l) \o NrziDecode(t, LevelAfter(s, l))
<1> DEFINE k == LevelAfter(s, l)
           u == NrziDecode(s \o t, l)
           v == NrziDecode(s, l) \o NrziDecode(t, k)
<1>1. /\ Len(s) \in Nat /\ Len(t) \in Nat
      /\ s \o t \in Seq(Bit) /\ Len(s \o t) = Len(s) + Len(t)
      /\ \A i \in 1..(Len(s) + Len(t)) :
           (s \o t)[i] = IF i <= Len(s) THEN s[i] ELSE t[i - Len(s)]
  OBVIOUS
<1>2. k \in Bit /\ (s = <<>> <=> Len(s) = 0)
  BY <1>1, EmptySeq DEF LevelAfter
<1>3. /\ u \in Seq(Bit) /\ Len(u) = Len(s) + Len(t)
      /\ NrziDecode(s, l) \in Seq(Bit) /\ Len(NrziDecode(s, l)) = Len(s)
      /\ NrziDecode(t, k) \in Seq(Bit) /\ Len(NrziDecode(t, k)) = Len(t)
  BY <1>1, <1>2, NrziDecodeType
<1>4. /\ v \in Seq(Bit) /\ Len(v) = Len(s) + Len(t)
      /\ \A i \in 1..(Len(s) + Len(t)) :
           v[i] = IF i <= Len(s) THEN NrziDecode(s, l)[i] ELSE NrziDecode(t, k)[i - Len(s)]
  BY <1>1, <1>3
<1>5. ASSUME NEW i \in 1..(Len(s) + Len(t)) PROVE u[i] = v[i]
  <2>1. u[i] = IF (s \o t)[i] = (IF i = 1 THEN l ELSE (s \o t)[i - 1]) THEN 1 ELSE 0
    BY <1>1 DEF NrziDecode
  <2>2. CASE i <= Len(s)
    <3>1. NrziDecode(s, l)[i] = IF s[i] = (IF i = 1 THEN l ELSE s[i - 1]) THEN 1 ELSE 0
      BY <1>1, <2>2 DEF NrziDecode
    <3> QED
      BY <1>1, <1>4, <2>1, <2>2, <3>1
  <2>3. CASE i > Len(s)
    <3> DEFINE j == i - Len(s)
    <3>1. j \in 1..Len(t) /\ (i = 1 <=> j = 1 /\ Len(s) = 0)
      BY <1>1, <2>3
    <3>2. NrziDecode(t, k)[j] = IF t[j] = (IF j = 1 THEN k ELSE t[j - 1]) THEN 1 ELSE 0
      BY <1>1, <3>1 DEF NrziDecode
    <3>3. (s \o t)[i] = t[j]
      BY <1>1, <2>3
    <3>4. (IF i = 1 THEN l ELSE (s \o t)[i - 1]) = IF j = 1 THEN k ELSE t[j - 1]
      <4>1. CASE j # 1
        BY <1>1, <2>3, <3>1, <4>1
      <4>2. CASE j = 1 /\ Len(s) # 0
        BY <1>1, <1>2, <3>1, <4>2 DEF LevelAfter
      <4>3. CASE j = 1 /\ Len(s) = 0
        BY <1>1, <1>2, <3>1, <4>3 DEF LevelAfter
      <4> QED
        BY <4>1, <4>2, <4>3
    <3>5. v[i] = NrziDecode(t, k)[j]
      BY <1>4, <2>3
    <3> HIDE DEF u, v, j
    <3> QED
      BY <2>1, <3>2, <3>3, <3>4, <3>5
  <2> HIDE DEF u, v
  <2> QED
    BY <1>1, <2>2, <2>3
<1> HIDE DEF u, v
<1>6. u = v
  BY <1>3, <1>4, <1>5, SeqEqual
<1> QED
  BY <1>6 DEF u, v

-----------------------------------------------------------------------------
(* Bit stuffing. *)

\* The stuffer before its first bit.
StuffStart == [bits |-> <<>>, run |-> 0]
\* Between two bits its run is shorter than one that asks for a stuffed bit.
StuffStates == [bits : Seq(Bit), run : 0..(STUFF_RUN - 1)]

\* f computes the stuffer's state after each of the first n bits.
Stuffs(f, bits, n) ==
  f = [i \in 0..n |-> IF i = 0 THEN StuffStart ELSE StuffBit(f[i - 1], bits[i])]

\* The stuffer's state after all of them.
Stuffer(bits) == (CHOOSE f : Stuffs(f, bits, Len(bits)))[Len(bits)]

\* BitStuff is what the stuffer has put out at the end.
LEMMA StufferStuffs ==
  ASSUME NEW bits
  PROVE  BitStuff(bits) = Stuffer(bits).bits
BY Zenon DEF BitStuff, Stuffer, Stuffs, StuffStart

\* Its states can be computed bit by bit.
LEMMA StuffsExists ==
  ASSUME NEW bits
  PROVE  \A n \in Nat : \E f : Stuffs(f, bits, n)
<1> DEFINE N == {n \in Nat : \E f : Stuffs(f, bits, n)}
<1>1. 0 \in N
  <2>1. Stuffs([i \in 0..0 |-> StuffStart], bits, 0)
    BY DEF Stuffs
  <2> QED
    BY <2>1
<1>2. ASSUME NEW n \in Nat, n \in N PROVE n + 1 \in N
  <2>1. PICK f : Stuffs(f, bits, n)
    BY <1>2
  <2> DEFINE g == [i \in 0..(n + 1) |-> IF i \in 0..n THEN f[i] ELSE StuffBit(f[n], bits[i])]
             h == [i \in 0..(n + 1) |-> IF i = 0 THEN StuffStart ELSE StuffBit(g[i - 1], bits[i])]
  <2>2. ASSUME NEW i \in 0..(n + 1) PROVE g[i] = h[i]
    <3>1. CASE i = 0
      BY <2>1, <3>1 DEF Stuffs
    <3>2. CASE i # 0 /\ i \in 0..n
      <4>1. f[i] = IF i = 0 THEN StuffStart ELSE StuffBit(f[i - 1], bits[i])
        BY <2>1, <3>2 DEF Stuffs
      <4>2. i - 1 \in 0..n /\ i - 1 \in 0..(n + 1)
        BY <3>2
      <4> QED
        BY <3>2, <4>1, <4>2
    <3>3. CASE i = n + 1
      <4>1. i - 1 = n /\ n \in 0..n /\ n \in 0..(n + 1) /\ i \notin 0..n /\ i # 0
        BY <3>3
      <4> QED
        BY <4>1
    <3> QED
      BY <3>1, <3>2, <3>3
  <2>3. g = h
    BY <2>2
  <2>4. Stuffs(g, bits, n + 1)
    BY <2>3 DEF Stuffs
  <2> QED
    BY <2>4
<1> HIDE DEF N
<1>3. Nat \subseteq N
  BY <1>1, <1>2, SetInduction
<1> QED
  BY <1>3 DEF N

\* They depend on the bits so far only.
LEMMA StuffsAgree ==
  ASSUME NEW a, NEW b, NEW k \in Nat, NEW m \in Nat, k <= m, NEW f, NEW g,
         Stuffs(f, a, k), Stuffs(g, b, m), \A i \in 1..k : a[i] = b[i]
  PROVE  \A i \in 0..k : f[i] = g[i]
<1> DEFINE N == {i \in Nat : i \in 0..k => f[i] = g[i]}
<1>1. 0 \in N
  BY DEF Stuffs
<1>2. ASSUME NEW i \in Nat, i \in N PROVE i + 1 \in N
  <2> SUFFICES ASSUME NEW j, j = i + 1, j \in 0..k PROVE f[j] = g[j]
    OBVIOUS
  <2>1. j # 0 /\ j - 1 = i /\ i \in 0..k /\ j \in 1..k /\ j \in 0..m
    OBVIOUS
  <2>2. f[j] = StuffBit(f[j - 1], a[j]) /\ g[j] = StuffBit(g[j - 1], b[j])
    BY <2>1 DEF Stuffs
  <2> QED
    BY <1>2, <2>1, <2>2
<1> HIDE DEF N
<1>3. Nat \subseteq N
  BY <1>1, <1>2, SetInduction
<1> QED
  BY <1>3 DEF N

\* The state after all of the bits is the last of those.
LEMMA StufferIs ==
  ASSUME NEW bits, NEW n \in Nat, Len(bits) = n
  PROVE  \E f : Stuffs(f, bits, n) /\ Stuffer(bits) = f[n]
<1> DEFINE F == CHOOSE f : Stuffs(f, bits, n)
<1>1. Stuffs(F, bits, n)
  BY StuffsExists
<1>2. Stuffer(bits) = F[n]
  BY DEF Stuffer
<1> QED
  BY <1>1, <1>2

\* Without a bit it stays at its start.
LEMMA StufferEmpty == Stuffer(<<>>) = StuffStart
<1>1. PICK f : Stuffs(f, <<>>, 0) /\ Stuffer(<<>>) = f[0]
  BY StufferIs, EmptySeq
<1>2. f[0] = StuffStart
  BY <1>1 DEF Stuffs
<1> QED
  BY <1>1, <1>2

(* One bit more is one step more. *)
LEMMA StufferNext ==
  ASSUME NEW a, NEW b, NEW n \in Nat, Len(a) = n, Len(b) = n + 1, \A i \in 1..n : a[i] = b[i]
  PROVE  Stuffer(b) = StuffBit(Stuffer(a), b[n + 1])
<1> SUFFICES ASSUME NEW m, m = n + 1 PROVE Stuffer(b) = StuffBit(Stuffer(a), b[m])
  OBVIOUS
<1>1. m \in Nat /\ Len(b) = m /\ n <= m /\ m \in 0..m /\ m # 0 /\ m - 1 = n
  OBVIOUS
<1>2. PICK f : Stuffs(f, a, n) /\ Stuffer(a) = f[n]
  BY StufferIs
<1>3. PICK g : Stuffs(g, b, m) /\ Stuffer(b) = g[m]
  BY <1>1, StufferIs
<1>4. g[m] = StuffBit(g[m - 1], b[m])
  BY <1>1, <1>3 DEF Stuffs
<1>5. \A i \in 0..n : f[i] = g[i]
  BY <1>1, <1>2, <1>3, StuffsAgree
<1>6. f[n] = g[n]
  BY <1>5
<1> QED
  BY <1>1, <1>2, <1>3, <1>4, <1>6

\* One bit more is one step more.
LEMMA StufferAppend ==
  ASSUME NEW bits \in Seq(Bit), NEW d \in Bit
  PROVE  Stuffer(Append(bits, d)) = StuffBit(Stuffer(bits), d)
<1>1. /\ Len(bits) \in Nat /\ Len(Append(bits, d)) = Len(bits) + 1
      /\ Append(bits, d)[Len(bits) + 1] = d /\ \A i \in 1..Len(bits) : bits[i] = Append(bits, d)[i]
  OBVIOUS
<1> DEFINE n == Len(bits)
           b == Append(bits, d)
<1>2. n \in Nat /\ Len(bits) = n /\ Len(b) = n + 1 /\ \A i \in 1..n : bits[i] = b[i]
  BY <1>1
<1> HIDE DEF n, b
<1>3. Stuffer(b) = StuffBit(Stuffer(bits), b[n + 1])
  BY <1>2, StufferNext
<1> QED
  BY <1>1, <1>3 DEF n, b

\* A step goes from state to state.
LEMMA StuffBitType ==
  ASSUME NEW s \in StuffStates, NEW d \in Bit
  PROVE  StuffBit(s, d) \in StuffStates
<1> DEFINE run == IF d = 1 THEN s.run + 1 ELSE 0
<1>1. s.bits \in Seq(Bit) /\ s.run \in 0..5
  BY DEF StuffStates, STUFF_RUN
<1>2. Append(s.bits, d) \in Seq(Bit) /\ s.bits \o <<d, 0>> \in Seq(Bit)
  BY <1>1 DEF Bit
<1>3. CASE run = STUFF_RUN
  <2>1. StuffBit(s, d) = [bits |-> s.bits \o <<d, 0>>, run |-> 0]
    BY <1>3 DEF StuffBit
  <2> QED
    BY <1>2, <2>1 DEF StuffStates, STUFF_RUN
<1>4. CASE run # STUFF_RUN
  <2>1. StuffBit(s, d) = [bits |-> Append(s.bits, d), run |-> run]
    BY <1>4 DEF StuffBit
  <2>2. run \in 0..5
    BY <1>1, <1>4 DEF STUFF_RUN
  <2> HIDE DEF run
  <2> QED
    BY <1>2, <2>1, <2>2 DEF StuffStates, STUFF_RUN
<1> QED
  BY <1>3, <1>4

\* So the bits it puts out are bits, and its run stays short.
LEMMA StufferType ==
  \A bits \in Seq(Bit) : Stuffer(bits) \in StuffStates
<1> DEFINE P == {bits \in Seq(Bit) : Stuffer(bits) \in StuffStates}
<1>1. <<>> \in P
  <2>1. StuffStart \in StuffStates
    BY DEF StuffStart, StuffStates, STUFF_RUN
  <2> QED
    BY <2>1, StufferEmpty, EmptySeq
<1>2. ASSUME NEW bits \in Seq(Bit), NEW d \in Bit, bits \in P PROVE Append(bits, d) \in P
  <2>1. Append(bits, d) \in Seq(Bit)
    OBVIOUS
  <2> QED
    BY <1>2, <2>1, StufferAppend, StuffBitType
<1> HIDE DEF P
<1>3. Seq(Bit) \subseteq P
  BY <1>1, <1>2, SeqInduction
<1> QED
  BY <1>3 DEF P

(* Zeros pass the stuffer as they are. *)
LEMMA StufferZeros ==
  \A n \in Nat : Stuffer([i \in 1..n |-> 0]) = [bits |-> [i \in 1..n |-> 0], run |-> 0]
<1> DEFINE z(n) == [i \in 1..n |-> 0]
           N == {n \in Nat : Stuffer(z(n)) = [bits |-> z(n), run |-> 0]}
<1>1. 0 \in N
  <2>1. z(0) = <<>>
    OBVIOUS
  <2> QED
    BY <2>1, StufferEmpty DEF StuffStart
<1>2. ASSUME NEW n \in Nat, n \in N PROVE n + 1 \in N
  <2>1. z(n) \in Seq(Bit) /\ 0 \in Bit
    BY DEF Bit
  <2>2. Append(z(n), 0) = z(n + 1)
    <3>1. z(n + 1) \in Seq({0}) /\ Len(z(n + 1)) = n + 1
      OBVIOUS
    <3>2. Append(z(n), 0) \in Seq({0}) /\ Len(Append(z(n), 0)) = n + 1
      OBVIOUS
    <3>3. \A i \in 1..(n + 1) : Append(z(n), 0)[i] = z(n + 1)[i]
      OBVIOUS
    <3> QED
      BY <3>1, <3>2, <3>3, SeqEqual
  <2>3. Stuffer(Append(z(n), 0)) = StuffBit(Stuffer(z(n)), 0)
    BY <2>1, StufferAppend
  <2>4. Stuffer(z(n)) = [bits |-> z(n), run |-> 0]
    BY <1>2
  <2>5. StuffBit([bits |-> z(n), run |-> 0], 0) = [bits |-> Append(z(n), 0), run |-> 0]
    <3> HIDE DEF z
    <3> QED
      BY DEF StuffBit, STUFF_RUN
  <2>6. Stuffer(z(n + 1)) = [bits |-> z(n + 1), run |-> 0]
    BY <2>2, <2>3, <2>4, <2>5, Zenon
  <2> QED
    BY <2>6
<1> HIDE DEF N
<1>3. Nat \subseteq N
  BY <1>1, <1>2, SetInduction
<1> QED
  BY <1>3 DEF N

(* The SYNC passes as it is, and its last bit starts the run of ones. *)
LEMMA StufferSync ==
  ASSUME NEW n \in Nat \ {0}
  PROVE  /\ SyncDataBits(n) \in Seq(Bit) /\ Len(SyncDataBits(n)) = n
         /\ Stuffer(SyncDataBits(n)) = [bits |-> SyncDataBits(n), run |-> 1]
<1> DEFINE z == [i \in 1..(n - 1) |-> 0]
<1>1. SyncDataBits(n) \in Seq(Bit) /\ Len(SyncDataBits(n)) = n
  BY DEF SyncDataBits, Bit
<1>2. z \in Seq(Bit) /\ 1 \in Bit /\ n - 1 \in Nat /\ Len(z) = n - 1
  BY DEF Bit
<1>3. Append(z, 1) = SyncDataBits(n)
  <2>1. Append(z, 1) \in Seq(Bit) /\ Len(Append(z, 1)) = n
    BY <1>2
  <2>2. \A i \in 1..n : Append(z, 1)[i] = SyncDataBits(n)[i]
    BY <1>2 DEF SyncDataBits
  <2> QED
    BY <1>1, <2>1, <2>2, SeqEqual
<1>4. Stuffer(z) = [bits |-> z, run |-> 0]
  BY <1>2, StufferZeros
<1>5. Stuffer(Append(z, 1)) = StuffBit(Stuffer(z), 1)
  BY <1>2, StufferAppend
<1>6. StuffBit([bits |-> z, run |-> 0], 1) = [bits |-> Append(z, 1), run |-> 1]
  <2> HIDE DEF z
  <2> QED
    BY DEF StuffBit, STUFF_RUN
<1> HIDE DEF z
<1> QED
  BY <1>1, <1>3, <1>4, <1>5, <1>6

-----------------------------------------------------------------------------
(* Whole packets as data bits, byte by byte.                                   *)

\* A sequence with the elements of s and, behind them, those of t.
LEMMA IsConcat ==
  ASSUME NEW S, NEW s \in Seq(S), NEW t \in Seq(S), NEW u \in Seq(S),
         Len(u) = Len(s) + Len(t),
         \A i \in 1..Len(s) : u[i] = s[i], \A i \in 1..Len(t) : u[Len(s) + i] = t[i]
  PROVE  u = s \o t
<1> DEFINE v == s \o t
           m == Len(s)
           k == Len(t)
           n == m + k
<1>0. m \in Nat /\ k \in Nat /\ n = m + k /\ Len(u) = n
  OBVIOUS
<1>1. /\ v \in Seq(S) /\ Len(v) = n /\ n \in Nat
      /\ \A i \in 1..n : v[i] = IF i <= m THEN s[i] ELSE t[i - m]
  <2>1. /\ v \in Seq(S) /\ Len(v) = n
        /\ \A i \in 1..n : v[i] = IF i <= Len(s) THEN s[i] ELSE t[i - Len(s)]
    BY ConcatProperties
  <2> QED
    BY <1>0, <2>1
<1>3. (\A i \in 1..m : u[i] = s[i]) /\ (\A i \in 1..k : u[m + i] = t[i])
  OBVIOUS
<1> HIDE DEF v, m, k, n
<1>2. \A i \in 1..n : u[i] = v[i]
  <2> TAKE i \in 1..n
  <2>1. CASE i <= m
    <3>1. i \in 1..m
      BY <1>0, <2>1
    <3> QED
      BY <1>1, <1>3, <2>1, <3>1
  <2>2. CASE i > m
    <3>1. PICK j \in 1..k : i = m + j /\ i - m = j
      <4>1. i - m \in 1..k /\ i = m + (i - m)
        BY <1>0, <2>2
      <4> QED
        BY <4>1
    <3>2. u[m + j] = t[j]
      BY <1>3
    <3>3. v[i] = t[i - m]
      BY <1>0, <1>1, <2>2
    <3> QED
      BY <3>1, <3>2, <3>3
  <2>3. i <= m \/ i > m
    BY <1>0
  <2> QED
    BY <2>1, <2>2, <2>3
<1>4. u = v
  BY <1>0, <1>1, <1>2, SeqEqual
<1> QED
  BY <1>4 DEF v

\* How three concatenated sequences are bracketed makes no difference.
Associates(S) == \A x, y, z \in Seq(S) : (x \o y) \o z = x \o (y \o z)

\* ConcatAssociative, for three sequences named at once.
LEMMA SeqsAssociate ==
  ASSUME NEW S
  PROVE  Associates(S)
<1> SUFFICES ASSUME NEW x \in Seq(S), NEW y \in Seq(S), NEW z \in Seq(S)
             PROVE  (x \o y) \o z = x \o (y \o z)
  BY DEF Associates
<1> QED
  BY ConcatAssociative

\* Brackets around concatenations may be moved.
Regrouped(c, a, b, e) == (c \o a) \o (b \o e) = (c \o (a \o b)) \o e

\* Moving them changes nothing.
LEMMA Regroup ==
  ASSUME NEW S, NEW c \in Seq(S), NEW a \in Seq(S), NEW b \in Seq(S), NEW e \in Seq(S)
  PROVE  Regrouped(c, a, b, e)
<1> DEFINE d == b \o e
           f == a \o b
<1>1. d \in Seq(S) /\ f \in Seq(S)
  BY ConcatProperties
<1>2. Associates(S)
  BY SeqsAssociate
<1>3. a \o d = f \o e
  BY <1>2, Zenon DEF Associates
<1> HIDE DEF d, f
<1>4. (c \o a) \o d = c \o (a \o d)
  BY <1>1, <1>2, Zenon DEF Associates
<1>5. (c \o f) \o e = c \o (f \o e)
  BY <1>1, <1>2, Zenon DEF Associates
<1> QED
  BY <1>3, <1>4, <1>5 DEF d, f, Regrouped

\* A byte is a sequence of eight bits.
LEMMA ByteBits ==
  ASSUME NEW b \in Byte
  PROVE  b \in Seq(Bit) /\ Len(b) = 8 /\ \A j \in 1..8 : b[j] \in Bit
<1>1. b \in [1..8 -> Bit] /\ 8 \in Nat
  BY DEF Byte
<1> HIDE DEF Bit
<1>2. b \in Seq(Bit)
  BY <1>1, SeqDef
<1>3. Len(b) = 8
  BY <1>1, <1>2, LenProperties
<1> QED
  BY <1>1, <1>2, <1>3

\* A byte more of payload is eight data bits more.
LEMMA PayloadBits ==
  ASSUME NEW p \in Seq(Byte)
  PROVE  /\ PayloadDataBits(p) \in Seq(Bit)
         /\ PayloadDataBits(<<>>) = <<>>
         /\ \A b \in Byte : PayloadDataBits(Append(p, b)) = PayloadDataBits(p) \o b
<1> DEFINE n == Len(p)
<1>1. n \in Nat /\ \A i \in 1..n : p[i] \in Byte
  OBVIOUS
<1>2. \A k \in 1..(8 * n) : ((k - 1) \div 8) + 1 \in 1..n /\ ((k - 1) % 8) + 1 \in 1..8
  BY <1>1
<1>3. PayloadDataBits(p) \in [1..(8 * n) -> Bit]
  BY <1>1, <1>2 DEF PayloadDataBits, Byte
<1>4. PayloadDataBits(p) \in Seq(Bit) /\ Len(PayloadDataBits(p)) = 8 * n
  BY <1>1, <1>3
<1>5. PayloadDataBits(<<>>) = <<>>
  <2>1. PayloadDataBits(<<>>) \in [1..0 -> Bit]
    BY DEF PayloadDataBits
  <2> QED
    BY <2>1
<1>6. ASSUME NEW b \in Byte PROVE PayloadDataBits(Append(p, b)) = PayloadDataBits(p) \o b
  <2> DEFINE q == Append(p, b)
             s == PayloadDataBits(p)
             t == PayloadDataBits(q)
             m == 8 * n
             l == 8 * (n + 1)
  <2>1. Len(q) = n + 1 /\ q[n + 1] = b /\ \A i \in 1..n : q[i] = p[i]
    BY AppendProperties
  <2> HIDE DEF q
  <2>2. \A k \in 1..m : s[k] = p[((k - 1) \div 8) + 1][((k - 1) % 8) + 1]
    BY DEF PayloadDataBits
  <2>3. /\ t = [k \in 1..l |-> t[k]]
        /\ \A k \in 1..l : t[k] = q[((k - 1) \div 8) + 1][((k - 1) % 8) + 1]
    BY <2>1 DEF PayloadDataBits
  <2>4. \A k \in 1..m : t[k] = s[k]
    <3> HIDE DEF s, t, n
    <3> TAKE k \in 1..m
    <3>1. k \in 1..l /\ ((k - 1) \div 8) + 1 \in 1..n
      BY <1>1, <1>2
    <3>2. q[((k - 1) \div 8) + 1] = p[((k - 1) \div 8) + 1]
      BY <2>1, <3>1
    <3> QED
      BY <2>2, <2>3, <3>1, <3>2
  <2>5. \A j \in 1..8 : t[m + j] = b[j]
    <3> HIDE DEF s, t, n
    <3> TAKE j \in 1..8
    <3>1. /\ m + j \in 1..l
          /\ ((m + j) - 1) \div 8 = n /\ ((m + j) - 1) % 8 = j - 1
      BY <1>1
    <3>2. (((m + j) - 1) \div 8) + 1 = n + 1 /\ (((m + j) - 1) % 8) + 1 = j
      BY <1>1, <3>1
    <3> HIDE DEF m, l
    <3> QED
      BY <2>1, <2>3, <3>1, <3>2
  <2>6. s \in Seq(Bit) /\ Len(s) = m /\ m \in Nat /\ l = m + 8
    BY <1>1, <1>4
  <2>7. b \in Seq(Bit) /\ Len(b) = 8
    BY ByteBits
  <2> HIDE DEF s, t, m, l, n
  <2>8. t = s \o b
    <3>1. \A k \in 1..l : t[k] \in Bit
      <4> TAKE k \in 1..l
      <4>1. CASE k \in 1..m
        BY <2>4, <2>6, <4>1
      <4>2. CASE k \notin 1..m
        <5>1. k - m \in 1..8 /\ k = m + (k - m)
          BY <2>6, <4>2
        <5>2. PICK j \in 1..8 : k = m + j
          BY <5>1
        <5>3. t[k] = b[j] /\ b[j] \in Bit
          BY <2>5, <5>2, ByteBits
        <5> QED
          BY <5>3
      <4> QED
        BY <4>1, <4>2
    <3>2. t \in Seq(Bit) /\ Len(t) = m + 8
      <4>1. l \in Nat /\ t \in [1..l -> Bit]
        BY <2>3, <2>6, <3>1
      <4> QED
        BY <2>6, <4>1
    <3>3. /\ Len(t) = Len(s) + Len(b) /\ \A k \in 1..Len(s) : t[k] = s[k]
          /\ \A j \in 1..Len(b) : t[Len(s) + j] = b[j]
      BY <2>4, <2>5, <2>6, <2>7, <3>2
    <3> QED
      BY <2>6, <2>7, <3>2, <3>3, IsConcat
  <2> QED
    BY <2>8 DEF s, t, q
<1> QED
  BY <1>4, <1>5, <1>6

\* The data bits of a packet up to its EOP, before stuffing.
DataBits(payload) == SyncDataBits(HS_SYNC_BITS) \o PayloadDataBits(payload)

\* SYNC comes first, and each byte adds its eight bits.
LEMMA DataBitsGrow ==
  ASSUME NEW p \in Seq(Byte)
  PROVE  /\ DataBits(p) \in Seq(Bit) /\ Len(DataBits(p)) > 0
         /\ DataBits(<<>>) = SyncDataBits(HS_SYNC_BITS)
         /\ \A b \in Byte : DataBits(Append(p, b)) = DataBits(p) \o b
<1> DEFINE s == SyncDataBits(HS_SYNC_BITS)
           q == PayloadDataBits(p)
<1>1. s \in Seq(Bit) /\ Len(s) = 32
  <2>1. PICK n \in Nat \ {0} : n = HS_SYNC_BITS
    BY DEF HS_SYNC_BITS
  <2>2. SyncDataBits(n) \in Seq(Bit) /\ Len(SyncDataBits(n)) = n
    BY StufferSync
  <2> QED
    BY <2>1, <2>2 DEF HS_SYNC_BITS
<1>2. /\ q \in Seq(Bit) /\ Len(q) \in Nat /\ PayloadDataBits(<<>>) = <<>>
      /\ \A b \in Byte : PayloadDataBits(Append(p, b)) = q \o b
  BY PayloadBits
<1> HIDE DEF s, q
<1>3. s \o q \in Seq(Bit) /\ Len(s \o q) > 0
  <2>1. s \o q \in Seq(Bit) /\ Len(s \o q) = Len(s) + Len(q)
    BY <1>1, <1>2, ConcatProperties
  <2> QED
    BY <1>1, <1>2, <2>1
<1>4. s \o <<>> = s
  BY <1>1, ConcatEmptySeq
<1>5. ASSUME NEW b \in Byte PROVE s \o (q \o b) = (s \o q) \o b
  <2>1. b \in Seq(Bit)
    BY ByteBits
  <2>2. (s \o q) \o b = s \o (q \o b)
    BY <1>1, <1>2, <2>1, ConcatAssociative
  <2> QED
    BY <2>2
<1> QED
  BY <1>2, <1>3, <1>4, <1>5 DEF DataBits, s, q

\* A stuffer that has bits out already goes on as from the start, behind them.
Behind(bits, s) == [bits |-> bits \o s.bits, run |-> s.run]

\* One bit more keeps what is out ahead.
LEMMA StuffBehind ==
  ASSUME NEW p \in Seq(Bit), NEW s \in StuffStates, NEW d \in Bit
  PROVE  StuffBit(Behind(p, s), d) = Behind(p, StuffBit(s, d))
<1> DEFINE q == s.bits
           e == <<d, 0>>
           f == <<d>>
           run == IF d = 1 THEN s.run + 1 ELSE 0
<1>1. q \in Seq(Bit) /\ e \in Seq(Bit) /\ f \in Seq(Bit)
  BY DEF StuffStates, Bit
<1>2. Append(q, d) = q \o f /\ Append(p \o q, d) = (p \o q) \o f
  BY <1>1, AppendIsConcat, ConcatProperties
<1>3. /\ StuffBit(s, d) = IF run = STUFF_RUN THEN [bits |-> q \o e, run |-> 0]
                          ELSE [bits |-> Append(q, d), run |-> run]
      /\ StuffBit(Behind(p, s), d) = IF run = STUFF_RUN THEN [bits |-> (p \o q) \o e, run |-> 0]
                                     ELSE [bits |-> Append(p \o q, d), run |-> run]
  BY Zenon DEF StuffBit, Behind
<1> HIDE DEF q, e, f, run
<1>4. (p \o q) \o e = p \o (q \o e) /\ (p \o q) \o f = p \o (q \o f)
  <2>1. (p \o q) \o e = p \o (q \o e)
    BY <1>1, ConcatAssociative
  <2>2. (p \o q) \o f = p \o (q \o f)
    BY <1>1, ConcatAssociative
  <2> QED
    BY <2>1, <2>2
<1>5. /\ Behind(p, [bits |-> q \o e, run |-> 0]) = [bits |-> p \o (q \o e), run |-> 0]
      /\ Behind(p, [bits |-> q \o f, run |-> run]) = [bits |-> p \o (q \o f), run |-> run]
  BY DEF Behind
<1> QED
  BY <1>2, <1>3, <1>4, <1>5

\* Nothing gets lost in the stuffer.
LEMMA StufferLength == \A bits \in Seq(Bit) : Len(Stuffer(bits).bits) >= Len(bits)
<1> DEFINE P == {s \in Seq(Bit) : Len(Stuffer(s).bits) >= Len(s)}
<1>1. <<>> \in P
  BY StufferEmpty DEF StuffStart
<1>2. ASSUME NEW s \in Seq(Bit), NEW e \in Bit, s \in P PROVE Append(s, e) \in P
  <2> DEFINE z == Stuffer(s)
             n == Len(s)
  <2>1. /\ z \in StuffStates /\ Stuffer(Append(s, e)) = StuffBit(z, e)
        /\ Append(s, e) \in Seq(Bit) /\ Len(Append(s, e)) = n + 1 /\ n \in Nat
    BY StufferType, StufferAppend, AppendProperties
  <2>2. Len(z.bits) >= n
    BY <1>2
  <2> HIDE DEF z, n
  <2>3. z.bits \in Seq(Bit) /\ <<e, 0>> \in Seq(Bit) /\ Len(z.bits) \in Nat
    BY <2>1 DEF StuffStates, Bit
  <2>4. Len(z.bits \o <<e, 0>>) = Len(z.bits) + 2 /\ Len(Append(z.bits, e)) = Len(z.bits) + 1
    BY <2>3
  <2>5. Len(StuffBit(z, e).bits) >= n + 1
    BY <2>1, <2>2, <2>3, <2>4 DEF StuffBit
  <2> QED
    BY <2>1, <2>5
<1> HIDE DEF P
<1>3. Seq(Bit) \subseteq P
  BY <1>1, <1>2, SeqInduction
<1> QED
  BY <1>3 DEF P

-----------------------------------------------------------------------------
(* The stuffed bits of a packet that are still to come.                        *)

\* The stuffer as a function, for folds, and a stuffer with nothing out yet.
StuffFn == [x \in StuffStates \X Bit |-> StuffBit(x[1], x[2])]
From(run) == [bits |-> <<>>, run |-> run]

\* What the stuffer makes of more bits after so many ones.
Rest(run, bits) == Folded(StuffFn, From(run), bits).bits

\* One step of the fold is one step of the stuffer.
LEMMA StuffFnIs ==
  ASSUME NEW s \in StuffStates, NEW d \in Bit
  PROVE  StuffFn[<<s, d>>] = StuffBit(s, d) /\ StuffFn[<<s, d>>] \in StuffStates
<1>1. <<s, d>> \in StuffStates \X Bit
  OBVIOUS
<1>2. StuffBit(s, d) \in StuffStates
  BY StuffBitType
<1> QED
  BY <1>1, <1>2 DEF StuffFn

\* The fold stays in the stuffer's states.
LEMMA RestStates ==
  ASSUME NEW s \in StuffStates
  PROVE  \A bits \in Seq(Bit) : Folded(StuffFn, s, bits) \in StuffStates
<1> DEFINE P == {bits \in Seq(Bit) : Folded(StuffFn, s, bits) \in StuffStates}
<1>1. <<>> \in P
  BY FoldedEmpty, EmptySeq
<1>2. ASSUME NEW b \in Seq(Bit), NEW d \in Bit, b \in P PROVE Append(b, d) \in P
  <2>1. Folded(StuffFn, s, Append(b, d)) = StuffFn[<<Folded(StuffFn, s, b), d>>]
    BY FoldedAppend
  <2>2. Append(b, d) \in Seq(Bit)
    BY AppendProperties
  <2> QED
    BY <1>2, <2>1, <2>2, StuffFnIs
<1> HIDE DEF P
<1>3. Seq(Bit) \subseteq P
  BY <1>1, <1>2, SeqInduction
<1> QED
  BY <1>3 DEF P

\* What is out already stays in front.
LEMMA RestBehind ==
  ASSUME NEW q \in Seq(Bit), NEW s \in StuffStates
  PROVE  \A bits \in Seq(Bit) :
           Folded(StuffFn, Behind(q, s), bits) = Behind(q, Folded(StuffFn, s, bits))
<1> DEFINE a == Behind(q, s)
           P == {bits \in Seq(Bit) : Folded(StuffFn, a, bits) = Behind(q, Folded(StuffFn, s, bits))}
<1>0. a \in StuffStates
  BY ConcatProperties DEF Behind, StuffStates
<1> HIDE DEF a
<1>1. <<>> \in P
  BY FoldedEmpty, EmptySeq DEF a
<1>2. ASSUME NEW b \in Seq(Bit), NEW d \in Bit, b \in P PROVE Append(b, d) \in P
  <2>1. /\ Folded(StuffFn, s, Append(b, d)) = StuffFn[<<Folded(StuffFn, s, b), d>>]
        /\ Folded(StuffFn, a, Append(b, d)) = StuffFn[<<Folded(StuffFn, a, b), d>>]
    BY FoldedAppend
  <2>2. Append(b, d) \in Seq(Bit)
    BY AppendProperties
  <2>3. Folded(StuffFn, s, b) \in StuffStates /\ Folded(StuffFn, a, b) \in StuffStates
    BY <1>0, RestStates
  <2>4. StuffFn[<<Folded(StuffFn, a, b), d>>] = StuffBit(Behind(q, Folded(StuffFn, s, b)), d)
    BY <1>2, <2>3, StuffFnIs
  <2>5. StuffFn[<<Folded(StuffFn, s, b), d>>] = StuffBit(Folded(StuffFn, s, b), d)
    BY <2>3, StuffFnIs
  <2>6. StuffBit(Behind(q, Folded(StuffFn, s, b)), d) = Behind(q, StuffBit(Folded(StuffFn, s, b), d))
    BY <2>3, StuffBehind
  <2> QED
    BY <2>1, <2>2, <2>4, <2>5, <2>6
<1> HIDE DEF P
<1>3. Seq(Bit) \subseteq P
  BY <1>1, <1>2, SeqInduction
<1> QED
  BY <1>3 DEF P, a

\* Nothing more gives nothing more.
LEMMA RestType ==
  ASSUME NEW run \in 0..(STUFF_RUN - 1), NEW bits \in Seq(Bit)
  PROVE  Rest(run, bits) \in Seq(Bit) /\ Rest(run, <<>>) = <<>>
<1>1. From(run) \in StuffStates
  BY DEF From, StuffStates
<1>2. Folded(StuffFn, From(run), bits) \in StuffStates
  BY <1>1, RestStates
<1>3. Folded(StuffFn, From(run), <<>>) = From(run)
  BY FoldedEmpty
<1> QED
  BY <1>2, <1>3 DEF Rest, StuffStates, From

\* The next bit goes out first, and a zero with it if it is the sixth one.
LEMMA RestHead ==
  ASSUME NEW run \in 0..(STUFF_RUN - 1), NEW bits \in Seq(Bit), bits # <<>>
  PROVE  Rest(run, bits) =
           IF Head(bits) = 1 /\ run + 1 = STUFF_RUN THEN <<1, 0>> \o Rest(0, Tail(bits))
           ELSE <<Head(bits)>> \o Rest(IF Head(bits) = 1 THEN run + 1 ELSE 0, Tail(bits))
<1>0. PICK d \in Bit, t \in Seq(Bit) : d = Head(bits) /\ t = Tail(bits)
  BY HeadTailProperties
<1>1. From(run) \in StuffStates /\ run \in 0..5
  BY DEF From, StuffStates, STUFF_RUN
<1>2. PICK a \in StuffStates : a = From(run)
  BY <1>1
<1>3. Folded(StuffFn, a, bits) = Folded(StuffFn, StuffBit(a, d), t)
  <2>1. Folded(StuffFn, a, bits) = Folded(StuffFn, StuffFn[<<a, Head(bits)>>], Tail(bits))
    BY FoldedHead
  <2> QED
    BY <1>0, <2>1, StuffFnIs
<1>4. ASSUME NEW q \in Seq(Bit), NEW k \in 0..(STUFF_RUN - 1), StuffBit(a, d) = Behind(q, From(k))
      PROVE  Rest(run, bits) = q \o Rest(k, t)
  <2>1. From(k) \in StuffStates
    BY DEF From, StuffStates
  <2>2. Folded(StuffFn, Behind(q, From(k)), t) = Behind(q, Folded(StuffFn, From(k), t))
    BY <2>1, RestBehind
  <2>3. Folded(StuffFn, From(run), bits) = Behind(q, Folded(StuffFn, From(k), t))
    BY <1>2, <1>3, <1>4, <2>2
  <2> QED
    BY <2>3 DEF Rest, Behind
<1>5. CASE d = 1 /\ run + 1 = STUFF_RUN
  <2>1. <<1, 0>> \in Seq(Bit) /\ 0 \in 0..(STUFF_RUN - 1)
    BY DEF Bit, STUFF_RUN
  <2>2. StuffBit(a, d) = Behind(<<1, 0>>, From(0))
    BY <1>2, <1>5, <2>1 DEF StuffBit, Behind, From
  <2>3. PICK q \in Seq(Bit), k \in 0..(STUFF_RUN - 1) : q = <<1, 0>> /\ k = 0
    BY <2>1
  <2>4. Rest(run, bits) = q \o Rest(k, t)
    BY <1>4, <2>2, <2>3
  <2> QED
    BY <1>0, <1>5, <2>3, <2>4
<1>6. CASE ~(d = 1 /\ run + 1 = STUFF_RUN)
  <2>1. PICK k \in 0..(STUFF_RUN - 1) : k = IF d = 1 THEN run + 1 ELSE 0
    BY <1>1, <1>6 DEF STUFF_RUN
  <2>2. PICK q \in Seq(Bit) : q = <<d>>
    <3>1. <<d>> \in Seq(Bit)
      OBVIOUS
    <3> QED
      BY <3>1
  <2>3. StuffBit(a, d) = Behind(q, From(k))
    <3>1. Append(<<>>, d) = <<d>> /\ <<d>> \o <<>> = <<d>>
      OBVIOUS
    <3>2. k # STUFF_RUN
      BY <2>1 DEF STUFF_RUN
    <3> QED
      BY <1>2, <2>1, <2>2, <3>1, <3>2 DEF StuffBit, Behind, From
  <2>4. Rest(run, bits) = q \o Rest(k, t)
    BY <1>4, <2>3
  <2> QED
    BY <1>0, <1>6, <2>1, <2>2, <2>4
<1> QED
  BY <1>5, <1>6

\* The stuffer on bits that follow others.
LEMMA StufferRest ==
  ASSUME NEW x \in Seq(Bit)
  PROVE  \A y \in Seq(Bit) :
           Stuffer(x \o y).bits = Stuffer(x).bits \o Rest(Stuffer(x).run, y)
<1> DEFINE s == Stuffer(x)
           P == {y \in Seq(Bit) : Stuffer(x \o y) = Folded(StuffFn, s, y)}
<1>0. s \in StuffStates
  BY StufferType
<1>1. <<>> \in P
  BY FoldedEmpty, EmptySeq, ConcatEmptySeq
<1> HIDE DEF s
<1>2. ASSUME NEW b \in Seq(Bit), NEW d \in Bit, b \in P PROVE Append(b, d) \in P
  <2>1. Folded(StuffFn, s, Append(b, d)) = StuffFn[<<Folded(StuffFn, s, b), d>>]
    BY FoldedAppend
  <2>2. Append(b, d) \in Seq(Bit) /\ x \o Append(b, d) = Append(x \o b, d) /\ x \o b \in Seq(Bit)
    BY AppendProperties, ConcatProperties
  <2>3. Stuffer(Append(x \o b, d)) = StuffBit(Stuffer(x \o b), d)
    BY <2>2, StufferAppend
  <2>4. Folded(StuffFn, s, b) \in StuffStates
    BY <1>0, RestStates
  <2>5. StuffFn[<<Folded(StuffFn, s, b), d>>] = StuffBit(Folded(StuffFn, s, b), d)
    BY <2>4, StuffFnIs
  <2> QED
    BY <1>2, <2>1, <2>2, <2>3, <2>5
<1> HIDE DEF P
<1>3. Seq(Bit) \subseteq P
  BY <1>1, <1>2, SeqInduction
<1> SUFFICES ASSUME NEW y \in Seq(Bit) PROVE Stuffer(x \o y).bits = s.bits \o Rest(s.run, y)
  BY DEF s
<1>4. Stuffer(x \o y) = Folded(StuffFn, s, y)
  BY <1>3 DEF P
<1>5. s.bits \in Seq(Bit) /\ From(s.run) \in StuffStates /\ s = Behind(s.bits, From(s.run))
  BY <1>0, ConcatEmptySeq DEF StuffStates, From, Behind
<1>6. Folded(StuffFn, Behind(s.bits, From(s.run)), y) = Behind(s.bits, Folded(StuffFn, From(s.run), y))
  BY <1>5, RestBehind
<1>7. Stuffer(x \o y) = Behind(s.bits, Folded(StuffFn, From(s.run), y))
  BY <1>4, <1>5, <1>6
<1>8. Rest(s.run, y) = Folded(StuffFn, From(s.run), y).bits
  BY DEF Rest
<1>9. \A t : Behind(s.bits, t).bits = s.bits \o t.bits
  BY DEF Behind
<1> QED
  BY <1>7, <1>8, <1>9

-----------------------------------------------------------------------------
(* Line bits read one by one.                                                  *)

\* The EOP as data bits: a zero and seven ones.
EopData == <<0, 1, 1, 1, 1, 1, 1, 1>>

\* Reading line bits from the front: the level read becomes the last one.
LEMMA NrziHead ==
  ASSUME NEW s \in Seq(Bit), s # <<>>, NEW l \in Bit
  PROVE  /\ NrziDecode(s, l) # <<>>
         /\ Head(NrziDecode(s, l)) = IF Head(s) = l THEN 1 ELSE 0
         /\ Tail(NrziDecode(s, l)) = NrziDecode(Tail(s), Head(s))
<1>1. PICK n \in Nat : n = Len(s)
  OBVIOUS
<1>2. n >= 1 /\ Head(s) = s[1] /\ Head(s) \in Bit
  BY <1>1, EmptySeq
<1>3. PICK t \in Seq(Bit) : t = Tail(s)
  BY HeadTailProperties
<1>4. Len(t) = n - 1 /\ \A i \in 1..(n - 1) : t[i] = s[i + 1]
  BY <1>1, <1>2, <1>3
<1>5. PICK u \in Seq(Bit) : u = NrziDecode(s, l) /\ Len(u) = n
  BY <1>1, NrziDecodeType
<1>6. PICK h \in Bit : h = Head(s)
  BY <1>2
<1>7. PICK v \in Seq(Bit) : v = NrziDecode(t, h) /\ Len(v) = n - 1
  BY <1>4, NrziDecodeType
<1>8. \A i \in 1..n : u[i] = IF s[i] = (IF i = 1 THEN l ELSE s[i - 1]) THEN 1 ELSE 0
  BY <1>1, <1>5 DEF NrziDecode
<1>9. \A i \in 1..(n - 1) : v[i] = IF t[i] = (IF i = 1 THEN h ELSE t[i - 1]) THEN 1 ELSE 0
  BY <1>4, <1>7 DEF NrziDecode
<1>10. u # <<>> /\ Head(u) = u[1] /\ Tail(u) \in Seq(Bit) /\ Len(Tail(u)) = n - 1
       /\ \A i \in 1..(n - 1) : Tail(u)[i] = u[i + 1]
  BY <1>2, <1>5
<1>11. ASSUME NEW i \in 1..(n - 1) PROVE Tail(u)[i] = v[i]
  <2>1. PICK j \in 1..n : j = i + 1 /\ j # 1 /\ j - 1 = i
    BY <1>2
  <2>2. Tail(u)[i] = u[j] /\ u[j] = IF s[j] = s[i] THEN 1 ELSE 0
    BY <1>8, <1>10, <2>1
  <2>3. t[i] = s[j]
    BY <1>4, <2>1
  <2>4. (IF i = 1 THEN h ELSE t[i - 1]) = s[i]
    <3>1. CASE i = 1
      BY <1>2, <1>6, <3>1
    <3>2. CASE i # 1
      <4>1. PICK k \in 1..(n - 1) : k = i - 1 /\ k + 1 = i
        BY <3>2
      <4> QED
        BY <1>4, <3>2, <4>1
    <3> QED
      BY <3>1, <3>2
  <2> QED
    BY <1>9, <2>2, <2>3, <2>4
<1>12. Tail(u) = v
  BY <1>7, <1>10, <1>11, SeqEqual
<1>13. u[1] = IF s[1] = l THEN 1 ELSE 0
  BY <1>2, <1>8
<1> QED
  BY <1>2, <1>3, <1>5, <1>6, <1>7, <1>10, <1>12, <1>13

\* A packet's line bits decode to its stuffed data bits and the EOP's.
LEMMA PacketDecodes ==
  ASSUME NEW d \in Seq(Bit), Len(d) > 0, NEW l0 \in Bit,
         NEW p, NEW n, d = SyncDataBits(n) \o PayloadDataBits(p)
  PROVE  /\ PacketLineBits(p, n, l0) \in Seq(Bit)
         /\ NrziDecode(PacketLineBits(p, n, l0), l0) = Stuffer(d).bits \o EopData
<1> DEFINE B == Stuffer(d).bits
           L == NrziEncode(B, l0)
           l == L[Len(L)]
           E == EopLineBits(l)
<1>1. B \in Seq(Bit) /\ Len(B) > 0
  <2>1. Len(Stuffer(d).bits) >= Len(d) /\ Stuffer(d) \in StuffStates
    BY StufferLength, StufferType
  <2>2. Stuffer(d).bits \in Seq(Bit)
    BY <2>1 DEF StuffStates
  <2>3. Len(Stuffer(d).bits) \in Nat /\ Len(d) \in Nat
    BY <2>2
  <2> QED
    BY <2>1, <2>2, <2>3
<1>2. PacketLineBits(p, n, l0) = L \o E
  <2>1. BitStuff(d) = B
    BY StufferStuffs
  <2>2. PacketLineBits(p, n, l0)
          = NrziEncode(BitStuff(d), l0)
              \o EopLineBits(NrziEncode(BitStuff(d), l0)[Len(NrziEncode(BitStuff(d), l0))])
    BY Zenon DEF PacketLineBits
  <2> QED
    BY <2>1, <2>2
<1> HIDE DEF B
<1>3. L \in Seq(Bit) /\ Len(L) = Len(B) /\ NrziDecode(L, l0) = B
  BY <1>1, NrziEncodeType, NrziInverts DEF Bit
<1> HIDE DEF L
<1>4. l \in Bit /\ LevelAfter(L, l0) = l
  <2>1. L # <<>> /\ Len(L) \in 1..Len(L)
    BY <1>1, <1>3, EmptySeq
  <2> QED
    BY <1>3, <2>1 DEF LevelAfter
<1> HIDE DEF l
<1>5. E = [i \in 1..8 |-> 1 - l] /\ E \in Seq(Bit) /\ Len(E) = 8
  BY <1>4 DEF EopLineBits, Flip, Bit
<1>6. NrziDecode(E, l) = EopData
  <2> DEFINE u == NrziDecode(E, l)
  <2>1. u \in Seq(Bit) /\ Len(u) = 8
    BY <1>4, <1>5, NrziDecodeType
  <2>2. \A i \in 1..8 : u[i] = IF E[i] = (IF i = 1 THEN l ELSE E[i - 1]) THEN 1 ELSE 0
    BY <1>5 DEF NrziDecode
  <2>3. \A i \in 1..8 : u[i] = IF i = 1 THEN 0 ELSE 1
    BY <1>4, <1>5, <2>2 DEF Bit
  <2>4. EopData \in Seq(Bit) /\ Len(EopData) = 8
    BY DEF EopData, Bit
  <2>5. \A i \in 1..8 : EopData[i] = IF i = 1 THEN 0 ELSE 1
    BY DEF EopData
  <2> HIDE DEF u
  <2>6. \A i \in 1..8 : u[i] = EopData[i]
    BY <2>3, <2>5
  <2>7. u = EopData
    BY <2>1, <2>4, <2>6, SeqEqual
  <2> QED
    BY <2>7 DEF u
<1> HIDE DEF E
<1>7. NrziDecode(L \o E, l0) = NrziDecode(L, l0) \o NrziDecode(E, l)
  BY <1>3, <1>4, <1>5, NrziDecodeConcat
<1>8. L \o E \in Seq(Bit)
  BY <1>3, <1>5, ConcatProperties
<1> QED
  BY <1>2, <1>3, <1>6, <1>7, <1>8 DEF B

-----------------------------------------------------------------------------
(* The ideal decoder reads a packet.                                           *)

\* The first element of two sequences is the first one's.
LEMMA ConcatHead ==
  ASSUME NEW S, NEW s \in Seq(S), s # <<>>, NEW t \in Seq(S)
  PROVE  s \o t # <<>> /\ Head(s \o t) = Head(s) /\ Tail(s \o t) = Tail(s) \o t
<1>1. PICK h \in S, u \in Seq(S) : h = Head(s) /\ u = Tail(s)
  BY HeadTailProperties
<1>2. PICK n \in Nat : n = Len(s)
  OBVIOUS
<1>3. PICK m \in Nat : m = Len(t)
  OBVIOUS
<1>4. n >= 1 /\ s[1] = h /\ Len(u) = n - 1 /\ \A i \in 1..(n - 1) : u[i] = s[i + 1]
  BY <1>1, <1>2, EmptySeq
<1>5. PICK v \in Seq(S) : v = s \o t
  BY ConcatProperties
<1>6. Len(v) = n + m /\ \A i \in 1..(n + m) : v[i] = IF i <= n THEN s[i] ELSE t[i - n]
  BY <1>2, <1>3, <1>5, ConcatProperties
<1>7. v # <<>> /\ Head(v) = h /\ v[1] = h
  BY <1>4, <1>6
<1>8. PICK x \in Seq(S) : x = Tail(v)
  BY <1>7, HeadTailProperties
<1>9. Len(x) = n + m - 1 /\ \A i \in 1..(n + m - 1) : x[i] = v[i + 1]
  BY <1>6, <1>7, <1>8
<1>10. x = u \o t
  <2>1. Len(x) = Len(u) + Len(t)
    BY <1>3, <1>4, <1>9
  <2>2. ASSUME NEW i \in 1..Len(u) PROVE x[i] = u[i]
    <3>1. PICK j \in 1..n : j = i + 1
      BY <1>4
    <3>2. x[i] = v[j] /\ u[i] = s[j] /\ v[j] = s[j]
      BY <1>3, <1>4, <1>6, <1>9, <3>1
    <3> QED
      BY <3>2
  <2>3. ASSUME NEW i \in 1..Len(t) PROVE x[Len(u) + i] = t[i]
    <3>1. PICK j \in 1..(n + m - 1), k \in 1..(n + m) :
            j = Len(u) + i /\ k = j + 1 /\ k > n /\ k - n = i
      BY <1>3, <1>4
    <3>2. x[j] = v[j + 1] /\ v[k] = IF k <= n THEN s[k] ELSE t[k - n]
      BY <1>6, <1>9, <3>1
    <3>3. j + 1 = k /\ ~(k <= n)
      BY <3>1
    <3> QED
      BY <3>1, <3>2, <3>3
  <2> QED
    BY <2>1, <2>2, <2>3, IsConcat
<1> QED
  BY <1>1, <1>5, <1>7, <1>8, <1>10

\* One element in front of a sequence.
LEMMA OneInFront ==
  ASSUME NEW S, NEW e \in S, NEW t \in Seq(S)
  PROVE  /\ <<e>> \o t \in Seq(S) /\ <<e>> \o t # <<>>
         /\ Head(<<e>> \o t) = e /\ Tail(<<e>> \o t) = t
<1>1. <<e>> \in Seq(S) /\ <<e>> # <<>> /\ Head(<<e>>) = e /\ Tail(<<e>>) = <<>>
  OBVIOUS
<1>2. PICK s \in Seq(S) : s = <<e>>
  BY <1>1
<1>3. s \o t # <<>> /\ Head(s \o t) = Head(s) /\ Tail(s \o t) = Tail(s) \o t
  BY <1>1, <1>2, ConcatHead
<1>4. <<>> \o t = t /\ s \o t \in Seq(S)
  BY ConcatEmptySeq, ConcatProperties
<1> QED
  BY <1>1, <1>2, <1>3, <1>4

\* The bits of a payload: eight a byte.
LEMMA PayloadLength ==
  ASSUME NEW p \in Seq(Byte)
  PROVE  /\ Len(PayloadDataBits(p)) = 8 * Len(p) /\ PayloadDataBits(p) \in Seq(Bit)
         /\ \A k \in 1..Len(p), j \in 1..8 : PayloadDataBits(p)[8 * (k - 1) + j] = p[k][j]
<1>1. PICK n \in Nat : n = Len(p)
  OBVIOUS
<1>2. PayloadDataBits(p) \in Seq(Bit)
  BY PayloadBits
<1>3. PayloadDataBits(p) = [k \in 1..(8 * n) |-> p[((k - 1) \div 8) + 1][((k - 1) % 8) + 1]]
  BY <1>1 DEF PayloadDataBits
<1>4. Len(PayloadDataBits(p)) = 8 * n
  BY <1>2, <1>3
<1>5. ASSUME NEW k \in 1..n, NEW j \in 1..8
      PROVE  PayloadDataBits(p)[8 * (k - 1) + j] = p[k][j]
  <2>1. PICK x \in 1..(8 * n) : x = 8 * (k - 1) + j
    OBVIOUS
  <2>2. (x - 1) \div 8 = k - 1 /\ (x - 1) % 8 = j - 1
    BY <2>1
  <2>3. ((x - 1) \div 8) + 1 = k /\ ((x - 1) % 8) + 1 = j
    BY <2>2
  <2> QED
    BY <1>3, <2>1, <2>3
<1> QED
  BY <1>1, <1>2, <1>4, <1>5

\* What the ideal decoder collects is bytes.
LEMMA CollectedType ==
  ASSUME NEW bits \in Seq(Bit)
  PROVE  CollectedPayload(bits) \in Seq(Byte)
<1>1. PICK m \in Nat : m = Len(bits)
  OBVIOUS
<1>2. PICK n \in Nat : n = (IF m >= 7 THEN (m - 7) \div 8 ELSE 0) /\ 8 * n <= m
  OBVIOUS
<1>3. \A i \in 1..m : bits[i] \in Bit
  BY <1>1
<1>4. ASSUME NEW k \in 1..n PROVE [j \in 1..8 |-> bits[8 * (k - 1) + j]] \in Byte
  <2>1. ASSUME NEW j \in 1..8 PROVE bits[8 * (k - 1) + j] \in Bit
    <3>1. 8 * (k - 1) + j \in 1..m
      BY <1>2
    <3> QED
      BY <1>3, <3>1
  <2> QED
    BY <2>1 DEF Byte
<1>5. CollectedPayload(bits) = [k \in 1..n |-> [j \in 1..8 |-> bits[8 * (k - 1) + j]]]
  BY <1>1, <1>2 DEF CollectedPayload
<1>6. CollectedPayload(bits) \in [1..n -> Byte]
  BY <1>4, <1>5
<1> QED
  BY <1>6, SeqDef

\* Of a payload with seven bits behind it, it is the payload.
LEMMA CollectedIs ==
  ASSUME NEW p \in Seq(Byte), NEW t \in Seq(Bit), Len(t) = 7
  PROVE  CollectedPayload(PayloadDataBits(p) \o t) = p
<1>1. PICK n \in Nat : n = Len(p)
  OBVIOUS
<1>2. PICK b \in Seq(Bit) : b = PayloadDataBits(p)
  BY PayloadLength
<1>3. Len(b) = 8 * n /\ \A k \in 1..n, j \in 1..8 : b[8 * (k - 1) + j] = p[k][j]
  BY <1>1, <1>2, PayloadLength
<1>4. PICK c \in Seq(Bit) : c = b \o t
  BY ConcatProperties
<1>a. PICK m \in Nat : m = Len(b)
  OBVIOUS
<1>b. Len(c) = m + 7 /\ \A i \in 1..(m + 7) : c[i] = IF i <= m THEN b[i] ELSE t[i - m]
  <2>1. /\ Len(b \o t) = Len(b) + Len(t)
        /\ \A i \in 1..(Len(b) + Len(t)) : (b \o t)[i] = IF i <= Len(b) THEN b[i] ELSE t[i - Len(b)]
    BY ConcatProperties
  <2> QED
    BY <1>4, <1>a, <2>1
<1>5. Len(c) = 8 * n + 7 /\ \A i \in 1..(8 * n) : c[i] = b[i]
  BY <1>3, <1>a, <1>b
<1>6. n = IF Len(c) >= 7 THEN (Len(c) - 7) \div 8 ELSE 0
  BY <1>5
<1>7. CollectedPayload(c) = [k \in 1..n |-> [j \in 1..8 |-> c[8 * (k - 1) + j]]]
  BY <1>6 DEF CollectedPayload
<1>8. PICK q \in Seq(Byte) : q = CollectedPayload(c)
  BY CollectedType
<1>10. Len(q) = n
  BY <1>7, <1>8
<1>9. ASSUME NEW k \in 1..n PROVE q[k] = p[k]
  <2>1. p[k] \in Byte /\ q[k] = [j \in 1..8 |-> c[8 * (k - 1) + j]]
    BY <1>1, <1>7, <1>8
  <2>2. ASSUME NEW j \in 1..8 PROVE q[k][j] = p[k][j]
    <3>1. PICK x \in 1..(8 * n) : x = 8 * (k - 1) + j
      OBVIOUS
    <3> QED
      BY <1>3, <1>5, <2>1, <3>1
  <2>3. q[k] \in [1..8 -> Bit] /\ p[k] \in [1..8 -> Bit]
    <3>1. k \in 1..Len(q) /\ k \in 1..Len(p)
      BY <1>1, <1>10
    <3>2. q[k] \in Byte /\ p[k] \in Byte
      BY <3>1, ElementOfSeq
    <3> QED
      BY <3>2, Zenon DEF Byte
  <2>4. PICK f \in [1..8 -> Bit], g \in [1..8 -> Bit] : f = q[k] /\ g = p[k]
    BY <2>3
  <2>5. \A j \in 1..8 : f[j] = g[j]
    BY <2>2, <2>4
  <2>6. f = g
    <3>1. f = [j \in 1..8 |-> f[j]] /\ g = [j \in 1..8 |-> g[j]]
      BY <2>4
    <3>2. [j \in 1..8 |-> f[j]] = [j \in 1..8 |-> g[j]]
      BY <2>5
    <3> QED
      BY <3>1, <3>2
  <2> QED
    BY <2>4, <2>6
<1>11. q = p
  BY <1>1, <1>9, <1>10, SeqEqual
<1> QED
  BY <1>2, <1>4, <1>8, <1>11

RefStates ==
  [inPacket : BOOLEAN, zeros : Nat, run : 0..STUFF_RUN, bits : Seq(Bit),
   packets : Seq(Seq(Byte))]

\* It keeps the types of its registers.
LEMMA RefBitType ==
  ASSUME NEW s \in RefStates, NEW d \in Bit
  PROVE  RefBit(s, d) \in RefStates
<1>1. /\ s.inPacket \in BOOLEAN /\ s.zeros \in Nat /\ s.run \in 0..6
      /\ s.bits \in Seq(Bit) /\ s.packets \in Seq(Seq(Byte))
  BY DEF RefStates, STUFF_RUN
<1>2. PICK q \in Seq(Byte) : q = CollectedPayload(s.bits)
  BY <1>1, CollectedType
<1>3. Append(s.packets, q) \in Seq(Seq(Byte)) /\ Append(s.bits, d) \in Seq(Bit) /\ <<>> \in Seq(Bit)
  BY <1>1, AppendProperties
<1>4. s = [inPacket |-> s.inPacket, zeros |-> s.zeros, run |-> s.run, bits |-> s.bits,
           packets |-> s.packets]
  BY DEF RefStates
<1>5. d = 0 \/ d = 1
  BY DEF Bit
<1>6. CASE ~s.inPacket /\ d = 0
  <2>1. RefBit(s, d) = [s EXCEPT !.zeros = s.zeros + 1]
    BY <1>6 DEF RefBit
  <2> QED
    BY <1>1, <2>1 DEF RefStates
<1>7. CASE ~s.inPacket /\ d = 1
  <2>1. PICK open \in BOOLEAN : open = (s.zeros >= MIN_SYNC_ZEROS)
    <3>1. CASE s.zeros >= MIN_SYNC_ZEROS
      <4>1. TRUE = (s.zeros >= MIN_SYNC_ZEROS)
        BY <3>1
      <4> QED
        BY <4>1, Zenon
    <3>2. CASE ~(s.zeros >= MIN_SYNC_ZEROS)
      <4>1. FALSE = (s.zeros >= MIN_SYNC_ZEROS)
        BY <3>2
      <4> QED
        BY <4>1, Zenon
    <3> QED
      BY <3>1, <3>2
  <2>2. RefBit(s, d) = [s EXCEPT !.zeros = 0, !.inPacket = open, !.bits = <<>>, !.run = 1]
    <3>1. RefBit(s, d) = [s EXCEPT !.zeros = 0, !.inPacket = (s.zeros >= MIN_SYNC_ZEROS),
                                   !.bits = <<>>, !.run = 1]
      BY <1>7 DEF RefBit
    <3> QED
      BY <2>1, <3>1, Zenon
  <2>3. 1 \in 0..STUFF_RUN /\ 0 \in Nat
    BY DEF STUFF_RUN
  <2> HIDE <2>1
  <2> QED
    BY <1>1, <1>3, <2>2, <2>3 DEF RefStates
<1>8. CASE s.inPacket /\ s.run = STUFF_RUN /\ d = 1
  <2>1. RefBit(s, d) = [s EXCEPT !.inPacket = FALSE, !.run = 0, !.packets = Append(s.packets, q)]
    BY <1>2, <1>8 DEF RefBit
  <2>2. 0 \in 0..STUFF_RUN
    BY DEF STUFF_RUN
  <2> QED
    BY <1>1, <1>3, <2>1, <2>2 DEF RefStates
<1>9. CASE s.inPacket /\ s.run = STUFF_RUN /\ d = 0
  <2>1. RefBit(s, d) = [s EXCEPT !.run = 0]
    BY <1>9 DEF RefBit
  <2>2. 0 \in 0..STUFF_RUN
    BY DEF STUFF_RUN
  <2> QED
    BY <1>1, <2>1, <2>2 DEF RefStates
<1>10. CASE s.inPacket /\ s.run # STUFF_RUN
  <2>1. PICK k \in 0..STUFF_RUN : k = IF d = 1 THEN s.run + 1 ELSE 0
    BY <1>1, <1>10 DEF STUFF_RUN
  <2>2. RefBit(s, d) = [s EXCEPT !.bits = Append(s.bits, d), !.run = k]
    BY <1>10, <2>1 DEF RefBit
  <2> QED
    BY <1>1, <1>3, <2>2 DEF RefStates
<1> QED
  BY <1>1, <1>5, <1>6, <1>7, <1>8, <1>9, <1>10

(* What is left to be read, as data bits, of a packet with payload p: of its
   SYNC, of its payload (a stuffed zero may be next), or of its EOP. *)
Onward(run, bits) == Rest(run, bits) \o EopData
EopTaken(j) == [i \in 1..j |-> IF i = 1 THEN 0 ELSE 1]
Ones(k) == [i \in 1..k |-> 1]

Hunting(s, p, r) ==
  /\ ~s.inPacket
  /\ \E m \in Nat \ {0} : /\ s.zeros + m > MIN_SYNC_ZEROS
                          /\ r = SyncDataBits(m) \o Onward(1, PayloadDataBits(p))
Inside(s, p, r) ==
  /\ s.inPacket /\ s.run < STUFF_RUN
  /\ \E rest \in Seq(Bit) : s.bits \o rest = PayloadDataBits(p) /\ r = Onward(s.run, rest)
BeforeStuffed(s, p, r) ==
  /\ s.inPacket /\ s.run = STUFF_RUN
  /\ \E rest \in Seq(Bit) : s.bits \o rest = PayloadDataBits(p) /\ r = <<0>> \o Onward(0, rest)
Ending(s, p, r) ==
  /\ s.inPacket
  /\ \E j \in 1..7 : s.run = j - 1 /\ s.bits = PayloadDataBits(p) \o EopTaken(j) /\ r = Ones(8 - j)
Finished(s, p, r) == ~s.inPacket /\ r = <<>> /\ s.packets = <<p>>

Midway(s, p, r) ==
  s.packets = <<>> /\ (Hunting(s, p, r) \/ Inside(s, p, r) \/ BeforeStuffed(s, p, r) \/ Ending(s, p, r))

\* What comes behind so many ones is bits, the EOP's at the latest.
LEMMA OnwardType ==
  ASSUME NEW run \in 0..(STUFF_RUN - 1), NEW bits \in Seq(Bit)
  PROVE  /\ Onward(run, bits) \in Seq(Bit) /\ Onward(run, bits) # <<>>
         /\ Onward(run, <<>>) = EopData
<1>1. EopData \in Seq(Bit) /\ EopData # <<>>
  BY DEF EopData, Bit
<1>2. Rest(run, bits) \in Seq(Bit) /\ Rest(run, <<>>) = <<>>
  BY RestType
<1>3. <<>> \o EopData = EopData
  BY <1>1, ConcatEmptySeq
<1>4. \A a \in Seq(Bit) : a \o EopData \in Seq(Bit) /\ a \o EopData # <<>>
  BY <1>1, ConcatProperties, ConcatEqualIffEmpty
<1> QED
  BY <1>2, <1>3, <1>4 DEF Onward

\* One more bit of the payload, and a stuffed zero if it is the sixth one.
LEMMA OnwardHead ==
  ASSUME NEW run \in 0..(STUFF_RUN - 1), NEW bits \in Seq(Bit), bits # <<>>
  PROVE  Onward(run, bits) =
           IF Head(bits) = 1 /\ run + 1 = STUFF_RUN
           THEN <<1>> \o (<<0>> \o Onward(0, Tail(bits)))
           ELSE <<Head(bits)>> \o Onward(IF Head(bits) = 1 THEN run + 1 ELSE 0, Tail(bits))
<1>0. PICK d \in Bit, t \in Seq(Bit) : d = Head(bits) /\ t = Tail(bits)
  BY HeadTailProperties
<1>1. run \in 0..5 /\ EopData \in Seq(Bit)
  BY DEF EopData, Bit, STUFF_RUN
<1>2. PICK e \in Seq(Bit) : e = EopData
  BY <1>1
<1>3. CASE d = 1 /\ run + 1 = STUFF_RUN
  <2>1. PICK k \in 0..(STUFF_RUN - 1) : k = 0
    BY DEF STUFF_RUN
  <2>2. PICK u \in Seq(Bit) : u = Rest(k, t)
    BY RestType
  <2>3. PICK a \in Seq(Bit), b \in Seq(Bit), c \in Seq(Bit) :
          a = <<1>> /\ b = <<0>> /\ c = <<1, 0>>
    <3>1. <<1>> \in Seq(Bit) /\ <<0>> \in Seq(Bit) /\ <<1, 0>> \in Seq(Bit)
      BY DEF Bit
    <3> QED
      BY <3>1
  <2>4. c = a \o b
    BY <2>3
  <2>5. Rest(run, bits) = c \o u
    BY <1>0, <1>3, <2>1, <2>2, <2>3, RestHead
  <2>6. ((a \o b) \o u) \o e = a \o (b \o (u \o e))
    <3>1. (a \o b) \o u = a \o (b \o u)
      BY <2>2, <2>3, ConcatAssociative
    <3>2. PICK v \in Seq(Bit) : v = b \o u
      BY <2>2, <2>3, ConcatProperties
    <3>3. (a \o v) \o e = a \o (v \o e)
      BY <1>2, <2>3, <3>2, ConcatAssociative
    <3>4. (b \o u) \o e = b \o (u \o e)
      BY <1>2, <2>2, <2>3, ConcatAssociative
    <3> QED
      BY <3>1, <3>2, <3>3, <3>4
  <2>7. Onward(run, bits) = a \o (b \o (u \o e))
    BY <1>2, <2>4, <2>5, <2>6 DEF Onward
  <2>8. u \o e = Onward(0, t)
    BY <1>2, <2>1, <2>2 DEF Onward
  <2> QED
    BY <1>0, <1>3, <2>3, <2>7, <2>8
<1>4. CASE ~(d = 1 /\ run + 1 = STUFF_RUN)
  <2>1. PICK k \in 0..(STUFF_RUN - 1) : k = IF d = 1 THEN run + 1 ELSE 0
    BY <1>1, <1>4 DEF STUFF_RUN
  <2>2. PICK u \in Seq(Bit) : u = Rest(k, t)
    BY RestType
  <2>3. PICK a \in Seq(Bit) : a = <<d>>
    <3>1. <<d>> \in Seq(Bit)
      OBVIOUS
    <3> QED
      BY <3>1
  <2>4. Rest(run, bits) = a \o u
    BY <1>0, <1>4, <2>1, <2>2, <2>3, RestHead
  <2>5. (a \o u) \o e = a \o (u \o e)
    BY <1>2, <2>2, <2>3, ConcatAssociative
  <2>6. Onward(run, bits) = a \o (u \o e)
    BY <1>2, <2>4, <2>5 DEF Onward
  <2>7. u \o e = Onward(k, t)
    BY <1>2, <2>2 DEF Onward
  <2> QED
    BY <1>0, <1>4, <2>1, <2>3, <2>6, <2>7
<1> QED
  BY <1>3, <1>4

\* What is left to be read is bits, and there is some.
Readable(r) == r \in Seq(Bit) /\ r # <<>>

\* Behind a single element nothing is left.
LEMMA LastOne ==
  ASSUME NEW S, NEW s \in Seq(S), Len(s) = 1
  PROVE  Tail(s) = <<>>
<1>1. s # <<>>
  OBVIOUS
<1>2. Tail(s) \in Seq(S) /\ Len(Tail(s)) = 0
  BY <1>1, HeadTailProperties
<1> QED
  BY <1>2, EmptySeq

\* A SYNC bit: another zero, or the one that opens the packet.
LEMMA HuntingReads ==
  ASSUME NEW s \in RefStates, NEW p \in Seq(Byte), NEW r, s.packets = <<>>, Hunting(s, p, r)
  PROVE  /\ Readable(r)
         /\ Midway(RefBit(s, Head(r)), p, Tail(r))
<1>1. PICK m \in Nat \ {0} : /\ s.zeros + m > MIN_SYNC_ZEROS
                             /\ r = SyncDataBits(m) \o Onward(1, PayloadDataBits(p))
  BY DEF Hunting
<1>2. PICK b \in Seq(Bit) : b = PayloadDataBits(p)
  BY PayloadLength
<1>3. PICK x \in Seq(Bit) : x = Onward(1, b)
  <2>1. PICK k \in 0..(STUFF_RUN - 1) : k = 1
    BY DEF STUFF_RUN
  <2>2. Onward(k, b) \in Seq(Bit)
    BY OnwardType
  <2> QED
    BY <2>1, <2>2
<1>4. PICK y \in Seq(Bit) : y = SyncDataBits(m) /\ Len(y) = m
  BY StufferSync
<1>5. y # <<>> /\ r = y \o x /\ r \in Seq(Bit)
  BY <1>1, <1>2, <1>3, <1>4, ConcatProperties
<1>6. r # <<>> /\ Head(r) = Head(y) /\ Tail(r) = Tail(y) \o x
  BY <1>3, <1>4, <1>5, ConcatHead
<1>7. Head(y) = IF m = 1 THEN 1 ELSE 0
  BY <1>4, <1>5 DEF SyncDataBits
<1>8. s.zeros \in Nat /\ s.inPacket = FALSE
  BY DEF RefStates, Hunting
<1>9. CASE m = 1
  <2>1. Tail(y) = <<>> /\ Tail(r) = x
    <3>1. Tail(y) = <<>>
      BY <1>4, <1>9, LastOne
    <3>2. <<>> \o x = x
      BY <1>3, ConcatEmptySeq
    <3> QED
      BY <1>6, <3>1, <3>2
  <2>2. s.zeros >= MIN_SYNC_ZEROS
    BY <1>1, <1>8, <1>9 DEF MIN_SYNC_ZEROS
  <2>3. RefBit(s, 1) = [s EXCEPT !.zeros = 0, !.inPacket = TRUE, !.bits = <<>>, !.run = 1]
    <3>1. RefBit(s, 1) = [s EXCEPT !.zeros = 0, !.inPacket = (s.zeros >= MIN_SYNC_ZEROS),
                                   !.bits = <<>>, !.run = 1]
      BY <1>8 DEF RefBit
    <3>2. TRUE = (s.zeros >= MIN_SYNC_ZEROS)
      BY <2>2
    <3> QED
      BY <3>1, <3>2, Zenon
  <2>4. PICK n : n = RefBit(s, 1)
    OBVIOUS
  <2>5. n.inPacket = TRUE /\ n.bits = <<>> /\ n.run = 1 /\ n.packets = <<>>
    BY <2>3, <2>4 DEF RefStates
  <2>6. <<>> \o b = b
    BY <1>2, ConcatEmptySeq
  <2>7. Inside(n, p, x)
    BY <1>2, <1>3, <2>5, <2>6 DEF Inside, STUFF_RUN
  <2> QED
    BY <1>5, <1>6, <1>7, <1>9, <2>1, <2>4, <2>5, <2>7 DEF Midway, Readable
<1>10. CASE m # 1
  <2>1. PICK k \in Nat \ {0} : k = m - 1
    BY <1>10
  <2>2. PICK z \in Seq(Bit) : z = SyncDataBits(k) /\ Len(z) = k
    BY StufferSync
  <2>3. Tail(y) = z
    <3>1. Tail(y) \in Seq(Bit) /\ Len(Tail(y)) = k
      BY <1>4, <1>5, <2>1
    <3>2. \A i \in 1..k : Tail(y)[i] = z[i]
      <4>1. \A i \in 1..k : Tail(y)[i] = y[i + 1] /\ i + 1 \in 1..m
        BY <1>4, <1>5, <2>1
      <4>2. \A i \in 1..m : y[i] = IF i = m THEN 1 ELSE 0
        BY <1>4 DEF SyncDataBits
      <4>3. \A i \in 1..k : z[i] = IF i = k THEN 1 ELSE 0
        BY <2>2 DEF SyncDataBits
      <4>4. ASSUME NEW i \in 1..k PROVE Tail(y)[i] = z[i]
        <5>1. PICK e \in 1..m : e = i + 1 /\ (e = m <=> i = k)
          BY <2>1
        <5>2. Tail(y)[i] = y[e]
          BY <4>1, <5>1
        <5> QED
          BY <4>2, <4>3, <5>1, <5>2
      <4> QED
        BY <4>4
    <3> QED
      BY <2>2, <3>1, <3>2, SeqEqual
  <2>4. RefBit(s, 0) = [s EXCEPT !.zeros = s.zeros + 1]
    BY <1>8 DEF RefBit
  <2>5. PICK n : n = RefBit(s, 0)
    OBVIOUS
  <2>6. n.inPacket = FALSE /\ n.zeros = s.zeros + 1 /\ n.packets = <<>>
    BY <1>8, <2>4, <2>5 DEF RefStates
  <2>7. n.zeros + k > MIN_SYNC_ZEROS
    <3>1. s.zeros + m > MIN_SYNC_ZEROS /\ s.zeros \in Nat
      BY <1>1, <1>8
    <3>2. \A i \in Nat : i + m > 8 => (i + 1) + k > 8
      BY <2>1
    <3> QED
      BY <2>6, <3>1, <3>2 DEF MIN_SYNC_ZEROS
  <2>8. Tail(r) = SyncDataBits(k) \o Onward(1, PayloadDataBits(p))
    BY <1>2, <1>3, <1>6, <2>2, <2>3
  <2>9. Hunting(n, p, Tail(r))
    BY <2>6, <2>7, <2>8 DEF Hunting
  <2> QED
    BY <1>5, <1>6, <1>7, <1>10, <2>5, <2>6, <2>9 DEF Midway, Readable
<1> QED
  BY <1>9, <1>10

\* A bit of the payload, or the EOP's first bit behind the last of them.
LEMMA InsideReads ==
  ASSUME NEW s \in RefStates, NEW p \in Seq(Byte), NEW r, s.packets = <<>>, Inside(s, p, r)
  PROVE  /\ Readable(r)
         /\ Midway(RefBit(s, Head(r)), p, Tail(r))
<1>0. PICK k \in 0..(STUFF_RUN - 1), a \in Seq(Bit) : k = s.run /\ a = s.bits
  BY DEF Inside, RefStates, STUFF_RUN
<1>1. PICK rest \in Seq(Bit) : a \o rest = PayloadDataBits(p) /\ r = Onward(k, rest)
  BY <1>0 DEF Inside
<1>2. s.inPacket = TRUE /\ k \in 0..5 /\ s.run # STUFF_RUN
  BY <1>0 DEF Inside, RefStates, STUFF_RUN
<1>3. r \in Seq(Bit) /\ r # <<>>
  BY <1>1, OnwardType
<1>4. ASSUME NEW d \in Bit, NEW j \in 0..STUFF_RUN, j = IF d = 1 THEN k + 1 ELSE 0
      PROVE  /\ RefBit(s, d).inPacket = TRUE /\ RefBit(s, d).bits = Append(a, d)
             /\ RefBit(s, d).run = j /\ RefBit(s, d).packets = <<>>
  <2>1. RefBit(s, d) = [s EXCEPT !.bits = Append(a, d), !.run = j]
    BY <1>0, <1>2, <1>4 DEF RefBit
  <2> QED
    BY <1>2, <2>1 DEF RefStates
<1>5. CASE rest = <<>>
  <2>1. r = EopData /\ a = PayloadDataBits(p)
    BY <1>0, <1>1, <1>5, OnwardType, ConcatEmptySeq
  <2>2. Head(r) = 0 /\ Tail(r) = Ones(7)
    <3>1. EopData \in Seq(Bit) /\ Tail(EopData) = <<1, 1, 1, 1, 1, 1, 1>> /\ Head(EopData) = 0
      BY DEF EopData, Bit
    <3>2. Ones(7) = <<1, 1, 1, 1, 1, 1, 1>>
      BY DEF Ones
    <3> QED
      BY <2>1, <3>1, <3>2
  <2>4. PICK d \in Bit, j \in 0..STUFF_RUN : d = 0 /\ j = 0
    BY DEF Bit, STUFF_RUN
  <2>3. PICK n : n = RefBit(s, d)
    OBVIOUS
  <2>b. j = IF d = 1 THEN k + 1 ELSE 0
    BY <2>4
  <2>5. n.inPacket = TRUE /\ n.bits = Append(a, d) /\ n.run = j /\ n.packets = <<>>
    BY <1>4, <2>3, <2>4, <2>b
  <2>6. Append(a, d) = a \o EopTaken(1)
    <3>1. EopTaken(1) = <<d>>
      BY <2>4 DEF EopTaken
    <3>2. Append(a, d) = a \o <<d>>
      BY <1>0, <2>4, AppendIsConcat
    <3> QED
      BY <3>1, <3>2
  <2>7. Ending(n, p, Ones(7))
    <3>1. 1 \in 1..7 /\ 0 = 1 - 1 /\ 8 - 1 = 7
      OBVIOUS
    <3> QED
      BY <2>1, <2>4, <2>5, <2>6, <3>1 DEF Ending
  <2> QED
    BY <1>3, <2>2, <2>3, <2>4, <2>5, <2>7 DEF Midway, Readable
<1>6. CASE rest # <<>>
  <2>1. PICK d \in Bit, t \in Seq(Bit) : d = Head(rest) /\ t = Tail(rest)
    BY <1>6, HeadTailProperties
  <2>2. PICK j \in 0..STUFF_RUN : j = IF d = 1 THEN k + 1 ELSE 0
    BY <1>2 DEF STUFF_RUN
  <2>3. PICK n : n = RefBit(s, d)
    OBVIOUS
  <2>4. n.inPacket = TRUE /\ n.bits = Append(a, d) /\ n.run = j /\ n.packets = <<>>
    BY <1>4, <2>1, <2>2, <2>3
  <2>5. Append(a, d) \o t = PayloadDataBits(p)
    <3>0. PICK h \in Seq(Bit) : h = <<d>>
      <4>1. <<d>> \in Seq(Bit)
        BY <2>1
      <4> QED
        BY <4>1
    <3>1. Append(a, d) = a \o h
      BY <1>0, <2>1, <3>0, AppendIsConcat
    <3>2. rest = h \o t
      BY <1>6, <2>1, <3>0
    <3>3. (a \o h) \o t = a \o (h \o t)
      BY <1>0, <2>1, <3>0, ConcatAssociative
    <3> QED
      BY <1>1, <3>1, <3>2, <3>3
  <2>6. CASE d = 1 /\ k + 1 = STUFF_RUN
    <3>1. r = <<1>> \o (<<0>> \o Onward(0, t))
      BY <1>0, <1>1, <1>6, <2>1, <2>6, OnwardHead
    <3>2. PICK u \in Seq(Bit) : u = <<0>> \o Onward(0, t)
      <4>1. PICK z \in 0..(STUFF_RUN - 1) : z = 0
        BY DEF STUFF_RUN
      <4>2. Onward(z, t) \in Seq(Bit)
        BY <2>1, OnwardType
      <4>3. <<0>> \in Seq(Bit)
        BY DEF Bit
      <4> QED
        BY <4>1, <4>2, <4>3, ConcatProperties
    <3>a. r = <<d>> \o u
      BY <2>6, <3>1, <3>2
    <3>3. Head(r) = d /\ Tail(r) = u
      BY <2>1, <3>2, <3>a, OneInFront
    <3>4. BeforeStuffed(n, p, u)
      BY <2>1, <2>2, <2>4, <2>5, <2>6, <3>2 DEF BeforeStuffed
    <3> QED
      BY <1>3, <2>3, <2>4, <3>3, <3>4 DEF Midway, Readable
  <2>7. CASE ~(d = 1 /\ k + 1 = STUFF_RUN)
    <3>1. PICK i \in 0..(STUFF_RUN - 1) : i = j
      BY <1>2, <2>2, <2>7 DEF STUFF_RUN
    <3>2. r = <<d>> \o Onward(i, t)
      BY <1>0, <1>1, <1>6, <2>1, <2>2, <2>7, <3>1, OnwardHead
    <3>3. PICK u \in Seq(Bit) : u = Onward(i, t)
      BY <2>1, OnwardType
    <3>4. Head(r) = d /\ Tail(r) = u
      BY <2>1, <3>2, <3>3, OneInFront
    <3>5. Inside(n, p, u)
      <4>1. n.run < STUFF_RUN
        BY <2>4, <3>1 DEF STUFF_RUN
      <4> QED
        BY <2>1, <2>4, <2>5, <3>1, <3>3, <4>1 DEF Inside
    <3> QED
      BY <1>3, <2>3, <2>4, <3>4, <3>5 DEF Midway, Readable
  <2> QED
    BY <2>6, <2>7
<1> QED
  BY <1>5, <1>6

\* A stuffed zero is dropped.
LEMMA StuffedReads ==
  ASSUME NEW s \in RefStates, NEW p \in Seq(Byte), NEW r, s.packets = <<>>, BeforeStuffed(s, p, r)
  PROVE  /\ Readable(r)
         /\ Midway(RefBit(s, Head(r)), p, Tail(r))
<1>1. PICK rest \in Seq(Bit) : s.bits \o rest = PayloadDataBits(p) /\ r = <<0>> \o Onward(0, rest)
  BY DEF BeforeStuffed
<1>2. PICK u \in Seq(Bit) : u = Onward(0, rest)
  <2>1. PICK z \in 0..(STUFF_RUN - 1) : z = 0
    BY DEF STUFF_RUN
  <2>2. Onward(z, rest) \in Seq(Bit)
    BY <1>1, OnwardType
  <2> QED
    BY <2>1, <2>2
<1>3. r \in Seq(Bit) /\ r # <<>> /\ Head(r) = 0 /\ Tail(r) = u
  <2>1. PICK d \in Bit : d = 0
    BY DEF Bit
  <2>2. <<d>> \o u \in Seq(Bit) /\ <<d>> \o u # <<>> /\ Head(<<d>> \o u) = d /\ Tail(<<d>> \o u) = u
    BY <1>2, <2>1, OneInFront
  <2> QED
    BY <1>1, <1>2, <2>1, <2>2
<1>4. RefBit(s, 0) = [s EXCEPT !.run = 0]
  BY DEF RefBit, BeforeStuffed
<1>5. PICK n : n = RefBit(s, 0)
  OBVIOUS
<1>6. n.inPacket = TRUE /\ n.run = 0 /\ n.bits = s.bits /\ n.packets = <<>>
  BY <1>4, <1>5 DEF RefStates, BeforeStuffed
<1>7. Inside(n, p, u)
  <2>1. 0 < STUFF_RUN
    BY DEF STUFF_RUN
  <2> QED
    BY <1>1, <1>2, <1>6, <2>1 DEF Inside
<1> QED
  BY <1>3, <1>5, <1>6, <1>7 DEF Midway, Readable

\* A one of the EOP; the seventh in a row ends the packet.
LEMMA EndingReads ==
  ASSUME NEW s \in RefStates, NEW p \in Seq(Byte), NEW r, s.packets = <<>>, Ending(s, p, r)
  PROVE  /\ Readable(r) /\ Head(r) = 1
         /\ \/ Midway(RefBit(s, 1), p, Tail(r))
            \/ Finished(RefBit(s, 1), p, Tail(r)) /\ s.run = STUFF_RUN /\ s.inPacket
               /\ s.bits = PayloadDataBits(p) \o EopTaken(7)
<1>1. PICK j \in 1..7 : s.run = j - 1 /\ s.bits = PayloadDataBits(p) \o EopTaken(j) /\ r = Ones(8 - j)
  BY DEF Ending
<1>2. PICK b \in Seq(Bit) : b = PayloadDataBits(p)
  BY PayloadLength
<1>3. PICK k \in 1..7 : k = 8 - j
  BY <1>1
<1>4. r \in Seq(Bit) /\ Len(r) = k /\ \A i \in 1..k : r[i] = 1
  BY <1>1, <1>3 DEF Ones, Bit
<1>5. r # <<>> /\ Head(r) = 1
  BY <1>3, <1>4
<1>6. s.inPacket = TRUE /\ STUFF_RUN = 6
  BY DEF Ending, RefStates, STUFF_RUN
<1>7. CASE j < 7
  <2>1. PICK i \in 1..7 : i = j + 1 /\ 8 - i = k - 1
    BY <1>1, <1>3, <1>7
  <2>2. Tail(r) = Ones(8 - i)
    <3>1. Tail(r) \in Seq(Bit) /\ Len(Tail(r)) = k - 1 /\ \A x \in 1..(k - 1) : Tail(r)[x] = 1
      BY <1>3, <1>4, <1>5
    <3>2. Ones(k - 1) \in Seq(Bit) /\ Len(Ones(k - 1)) = k - 1 /\ \A x \in 1..(k - 1) : Ones(k - 1)[x] = 1
      BY <1>3 DEF Ones, Bit
    <3>3. Tail(r) = Ones(k - 1)
      BY <3>1, <3>2, SeqEqual
    <3> QED
      BY <2>1, <3>3
  <2>3. RefBit(s, 1) = [s EXCEPT !.bits = Append(s.bits, 1), !.run = j]
    <3>1. s.run # STUFF_RUN /\ s.run + 1 = j
      BY <1>1, <1>6, <1>7
    <3> QED
      BY <1>6, <3>1 DEF RefBit
  <2>4. PICK n : n = RefBit(s, 1)
    OBVIOUS
  <2>a. n.inPacket = TRUE /\ n.run = j /\ n.bits = Append(s.bits, 1) /\ n.packets = <<>>
    BY <1>6, <2>3, <2>4 DEF RefStates
  <2>5. n.inPacket = TRUE /\ n.run = i - 1 /\ n.bits = Append(s.bits, 1) /\ n.packets = <<>>
    BY <2>1, <2>a
  <2>6. Append(s.bits, 1) = b \o EopTaken(i)
    <3> DEFINE f == EopTaken(j)
               g == EopTaken(i)
               h == <<1>>
    <3>1. f \in Seq(Bit) /\ h \in Seq(Bit) /\ g \in Seq(Bit) /\ g = f \o h
      <4>1. f \in Seq(Bit) /\ Len(f) = j
        BY DEF EopTaken, Bit
      <4>2. g \in Seq(Bit) /\ Len(g) = j + 1
        BY <2>1 DEF EopTaken, Bit
      <4>3. h \in Seq(Bit) /\ Len(h) = 1 /\ h[1] = 1
        BY DEF Bit
      <4>4. \A x \in 1..j : g[x] = f[x]
        BY <2>1 DEF EopTaken
      <4>5. g[j + 1] = 1
        BY <2>1 DEF EopTaken
      <4> HIDE DEF f, g, h
      <4>6. \A x \in 1..Len(h) : g[Len(f) + x] = h[x]
        BY <4>1, <4>3, <4>5
      <4>a. Len(g) = Len(f) + Len(h)
        BY <4>1, <4>2, <4>3
      <4>b. \A x \in 1..Len(f) : g[x] = f[x]
        BY <4>1, <4>4
      <4>7. g = f \o h
        BY <4>1, <4>2, <4>3, <4>6, <4>a, <4>b, IsConcat
      <4> QED
        BY <4>1, <4>2, <4>3, <4>7
    <3>2. s.bits = b \o f
      BY <1>1, <1>2
    <3>3. s.bits \in Seq(Bit) /\ Append(s.bits, 1) = s.bits \o h
      <4>1. s.bits \in Seq(Bit)
        BY DEF RefStates
      <4> QED
        BY <4>1
    <3> HIDE DEF f, g, h
    <3>4. (b \o f) \o h = b \o (f \o h)
      BY <1>2, <3>1, ConcatAssociative
    <3> QED
      BY <3>1, <3>2, <3>3, <3>4 DEF g
  <2>7. Ending(n, p, Tail(r))
    BY <1>2, <2>1, <2>2, <2>5, <2>6 DEF Ending
  <2> QED
    BY <1>4, <1>5, <2>4, <2>5, <2>7 DEF Midway, Readable
<1>8. CASE j = 7
  <2>1. s.run = STUFF_RUN /\ k = 1
    BY <1>1, <1>3, <1>6, <1>8
  <2>2. Tail(r) = <<>>
    BY <1>4, <2>1, LastOne
  <2>3. PICK t \in Seq(Bit) : t = EopTaken(7) /\ Len(t) = 7
    <3>1. EopTaken(7) \in Seq(Bit) /\ Len(EopTaken(7)) = 7
      BY DEF EopTaken, Bit
    <3> QED
      BY <3>1
  <2>4. CollectedPayload(s.bits) = p
    BY <1>1, <1>8, <2>3, CollectedIs
  <2>5. RefBit(s, 1) = [s EXCEPT !.inPacket = FALSE, !.run = 0, !.packets = <<p>>]
    <3>1. RefBit(s, 1) = [s EXCEPT !.inPacket = FALSE, !.run = 0,
                                   !.packets = Append(s.packets, CollectedPayload(s.bits))]
      BY <1>6, <2>1 DEF RefBit
    <3>2. Append(<<>>, p) = <<p>>
      OBVIOUS
    <3> QED
      BY <2>4, <3>1, <3>2
  <2>6. RefBit(s, 1).inPacket = FALSE /\ RefBit(s, 1).packets = <<p>>
    BY <2>5 DEF RefStates
  <2>7. Finished(RefBit(s, 1), p, Tail(r))
    BY <2>2, <2>6 DEF Finished
  <2> QED
    BY <1>1, <1>4, <1>5, <1>6, <1>8, <2>1, <2>7 DEF Readable
<1> QED
  BY <1>1, <1>7, <1>8

\* Until its EOP is read a packet has more to read, and it stays on its way to be recovered.
LEMMA MidwayReads ==
  ASSUME NEW s \in RefStates, NEW p \in Seq(Byte), NEW r, Midway(s, p, r)
  PROVE  /\ Readable(r)
         /\ \/ Midway(RefBit(s, Head(r)), p, Tail(r))
            \/ /\ Finished(RefBit(s, Head(r)), p, Tail(r)) /\ Head(r) = 1
               /\ s.run = STUFF_RUN /\ s.inPacket
               /\ s.bits = PayloadDataBits(p) \o EopTaken(7)
<1>1. s.packets = <<>>
  BY DEF Midway
<1>2. CASE Hunting(s, p, r)
  BY <1>1, <1>2, HuntingReads
<1>3. CASE Inside(s, p, r)
  BY <1>1, <1>3, InsideReads
<1>4. CASE BeforeStuffed(s, p, r)
  BY <1>1, <1>4, StuffedReads
<1>5. CASE Ending(s, p, r)
  BY <1>1, <1>5, EndingReads
<1> QED
  BY <1>2, <1>3, <1>4, <1>5 DEF Midway

\* At its first bit the decoder has a whole packet ahead, if its SYNC is long enough.
LEMMA PacketStarts ==
  ASSUME NEW p \in Seq(Byte), NEW n \in Nat, n > MIN_SYNC_ZEROS, NEW l0 \in Bit
  PROVE  /\ PacketLineBits(p, n, l0) \in Seq(Bit)
         /\ Midway(RefStart, p, NrziDecode(PacketLineBits(p, n, l0), l0))
<1>1. PICK m \in Nat \ {0} : m = n
  BY DEF MIN_SYNC_ZEROS
<1>2. PICK y \in Seq(Bit) : y = SyncDataBits(m) /\ Len(y) = m
                            /\ Stuffer(y) = [bits |-> y, run |-> 1]
  BY StufferSync
<1>3. PICK b \in Seq(Bit) : b = PayloadDataBits(p)
  BY PayloadLength
<1>4. PICK d \in Seq(Bit) : d = y \o b /\ Len(d) > 0
  <2>1. y \o b \in Seq(Bit) /\ Len(y \o b) = m + Len(b)
    BY <1>2, <1>3, ConcatProperties
  <2>2. Len(b) \in Nat
    BY <1>3, LenProperties
  <2>3. Len(y \o b) > 0
    BY <2>1, <2>2
  <2> QED
    BY <2>1, <2>3
<1>5. /\ PacketLineBits(p, n, l0) \in Seq(Bit)
      /\ NrziDecode(PacketLineBits(p, n, l0), l0) = Stuffer(d).bits \o EopData
  BY <1>1, <1>2, <1>3, <1>4, PacketDecodes
<1>6. PICK k \in 0..(STUFF_RUN - 1) : k = 1
  BY DEF STUFF_RUN
<1>7. PICK t \in Seq(Bit) : t = Rest(k, b)
  BY <1>3, RestType
<1>8. Stuffer(d).bits = y \o t
  <2>1. Stuffer(y).bits = y /\ Stuffer(y).run = k
    BY <1>2, <1>6
  <2>2. Stuffer(y \o b).bits = Stuffer(y).bits \o Rest(Stuffer(y).run, b)
    BY <1>2, <1>3, StufferRest
  <2> QED
    BY <1>4, <1>7, <2>1, <2>2
<1>9. PICK e \in Seq(Bit) : e = EopData
  <2>1. EopData \in Seq(Bit)
    BY DEF EopData, Bit
  <2> QED
    BY <2>1
<1>10. (y \o t) \o e = y \o (t \o e)
  <2>1. y \in Seq(Bit) /\ t \in Seq(Bit) /\ e \in Seq(Bit)
    BY <1>2, <1>7, <1>9
  <2> QED
    BY <2>1, ConcatAssociative
<1>11. t \o e = Onward(1, PayloadDataBits(p))
  BY <1>3, <1>6, <1>7, <1>9 DEF Onward
<1>12. NrziDecode(PacketLineBits(p, n, l0), l0) = SyncDataBits(m) \o Onward(1, PayloadDataBits(p))
  BY <1>2, <1>5, <1>8, <1>9, <1>10, <1>11
<1>13. 0 + m > MIN_SYNC_ZEROS
  BY <1>1
<1>14. Hunting(RefStart, p, NrziDecode(PacketLineBits(p, n, l0), l0))
  BY <1>12, <1>13 DEF Hunting, RefStart
<1> QED
  BY <1>5, <1>14 DEF Midway, RefStart

-----------------------------------------------------------------------------
(* Loops over a sequence, and the unstuffer.                                   *)

\* f goes along s from a, and as long as it stays in S it does what F says.
Loops(f, S, F, a, s, n) ==
  f[0] = a /\ \A i \in 1..n : f[i - 1] \in S => f[i] = F[<<f[i - 1], s[i]>>]
\* F takes an element of T to what becomes of a value in S.
Steps(F, S, T) == F \in [S \X T -> S]

\* Then it does stay there, and it ends where Folded does.
LEMMA FoldedLoop ==
  ASSUME NEW S, NEW T, NEW F, Steps(F, S, T), NEW a \in S, NEW s \in Seq(T),
         NEW n, n = Len(s), NEW f, Loops(f, S, F, a, s, n)
  PROVE  f[n] = Folded(F, a, s) /\ \A i \in 0..n : f[i] \in S
<1>a. n \in Nat /\ F \in [S \X T -> S]
  BY LenProperties DEF Steps
<1>0. f[0] = a /\ \A i \in 1..n : f[i - 1] \in S => f[i] = F[<<f[i - 1], s[i]>>]
  BY DEF Loops
<1>1. PICK g : Folds(g, F, a, s, n) /\ Folded(F, a, s) = g[n]
  BY <1>a, FoldedIs
<1> DEFINE N == {i \in Nat : i \in 0..n => f[i] = g[i] /\ g[i] \in S}
<1>2. 0 \in N
  BY <1>0, <1>1 DEF Folds
<1>3. ASSUME NEW i \in Nat, i \in N PROVE i + 1 \in N
  <2> SUFFICES ASSUME NEW j, j = i + 1, j \in 0..n PROVE f[j] = g[j] /\ g[j] \in S
    OBVIOUS
  <2>1. j # 0 /\ j - 1 = i /\ i \in 0..n /\ j \in 1..n
    BY <1>a
  <2>2. f[i] = g[i] /\ g[i] \in S
    BY <1>3, <2>1
  <2>3. g[j] = F[<<g[j - 1], s[j]>>]
    BY <1>1, <2>1 DEF Folds
  <2>4. f[j] = F[<<f[j - 1], s[j]>>]
    BY <1>0, <2>1, <2>2
  <2>5. s[j] \in T
    BY <2>1, ElementOfSeq
  <2> QED
    BY <1>a, <2>1, <2>2, <2>3, <2>4, <2>5
<1> HIDE DEF N
<1>4. Nat \subseteq N
  BY <1>2, <1>3, SetInduction
<1>5. \A i \in 0..n : f[i] = g[i] /\ g[i] \in S
  BY <1>4 DEF N
<1> QED
  BY <1>1, <1>5

UnstuffStates == [bits : Seq(Bit), run : 0..STUFF_RUN, violation : BOOLEAN]
UnstuffStart == [bits |-> <<>>, run |-> 0, violation |-> FALSE]
UnstuffFn == [x \in UnstuffStates \X Bit |-> UnstuffBit(x[1], x[2])]
\* The unstuffer before a violation, behind these bits and so many ones.
Unstuffed(bits, run) == [bits |-> bits, run |-> run, violation |-> FALSE]

\* It starts from no bits and keeps the types of what it holds.
LEMMA UnstuffType ==
  /\ UnstuffStart \in UnstuffStates
  /\ UnstuffFn \in [UnstuffStates \X Bit -> UnstuffStates]
  /\ \A s \in UnstuffStates, d \in Bit : UnstuffFn[<<s, d>>] = UnstuffBit(s, d)
<1>1. ASSUME NEW s \in UnstuffStates, NEW d \in Bit PROVE UnstuffBit(s, d) \in UnstuffStates
  <2>1. s.bits \in Seq(Bit) /\ s.run \in 0..6 /\ s.violation \in BOOLEAN
    BY DEF UnstuffStates, STUFF_RUN
  <2>2. CASE s.violation
    BY <2>2 DEF UnstuffBit
  <2>3. CASE ~s.violation /\ s.run = STUFF_RUN
    <3>1. PICK v \in BOOLEAN : v = (d = 1)
      <4>1. CASE d = 1
        <5>1. TRUE = (d = 1)
          BY <4>1
        <5> QED
          BY <5>1, Zenon
      <4>2. CASE d # 1
        <5>1. FALSE = (d = 1)
          BY <4>2
        <5> QED
          BY <5>1, Zenon
      <4> QED
        BY <4>1, <4>2
    <3>2. UnstuffBit(s, d) = [s EXCEPT !.run = 0, !.violation = v]
      <4>1. UnstuffBit(s, d) = [s EXCEPT !.run = 0, !.violation = (d = 1)]
        BY <2>3 DEF UnstuffBit
      <4> QED
        BY <3>1, <4>1, Zenon
    <3>3. 0 \in 0..STUFF_RUN
      BY DEF STUFF_RUN
    <3>4. v \in BOOLEAN
      BY <3>1
    <3> HIDE <3>1
    <3> QED
      BY <3>2, <3>3, <3>4 DEF UnstuffStates
  <2>4. CASE ~s.violation /\ s.run # STUFF_RUN
    <3>1. PICK k \in 0..STUFF_RUN : k = IF d = 1 THEN s.run + 1 ELSE 0
      BY <2>1, <2>4 DEF STUFF_RUN
    <3>2. UnstuffBit(s, d) = [s EXCEPT !.bits = Append(s.bits, d), !.run = k]
      BY <2>4, <3>1 DEF UnstuffBit
    <3>3. Append(s.bits, d) \in Seq(Bit)
      BY <2>1, AppendProperties
    <3> QED
      BY <2>1, <3>1, <3>2, <3>3 DEF UnstuffStates
  <2> QED
    BY <2>2, <2>3, <2>4
<1>2. UnstuffStart \in UnstuffStates
  BY DEF UnstuffStart, UnstuffStates, STUFF_RUN
<1> QED
  BY <1>1, <1>2 DEF UnstuffFn

\* The loop over the bits.
LEMMA BitUnstuffIs ==
  ASSUME NEW bits \in Seq(Bit)
  PROVE  BitUnstuff(bits) = Folded(UnstuffFn, UnstuffStart, bits)
<1> DEFINE Loop(n, s) == s = [i \in 0..n |-> IF i = 0 THEN UnstuffStart ELSE UnstuffBit(s[i - 1], bits[i])]
<1>1. PICK n \in Nat : n = Len(bits)
  BY LenProperties
<1>c. PICK S : S = UnstuffStates
  OBVIOUS
<1>a. PICK F, a : F = UnstuffFn /\ a = UnstuffStart
  OBVIOUS
<1>d. Steps(F, S, Bit) /\ a \in S
  <2>1. UnstuffFn \in [UnstuffStates \X Bit -> UnstuffStates] /\ UnstuffStart \in UnstuffStates
    BY UnstuffType
  <2> QED
    BY <1>a, <1>c, <2>1, Zenon DEF Steps
<1>b. ASSUME NEW f, Loops(f, S, F, a, bits, n)
      PROVE  f[n] = Folded(F, a, bits) /\ \A i \in 0..n : f[i] \in S
  BY <1>b, <1>d, <1>1, FoldedLoop
<1>2. BitUnstuff(bits) = (CHOOSE s : Loop(Len(bits), s))[Len(bits)]
  BY Zenon DEF BitUnstuff, UnstuffStart
<1>3. \E s : Loop(n, s)
  <2>1. PICK f : Folds(f, UnstuffFn, UnstuffStart, bits, n)
    BY FoldsExists
  <2>2. f[0] = UnstuffStart /\ \A i \in 1..n : f[i] = UnstuffFn[<<f[i - 1], bits[i]>>]
    <3>1. 0 \in 0..n /\ \A i \in 1..n : i \in 0..n /\ i # 0
      OBVIOUS
    <3> QED
      BY <2>1, <3>1 DEF Folds
  <2>3. \A i \in 0..n : f[i] \in UnstuffStates
    <3>1. Loops(f, S, F, a, bits, n)
      BY <1>a, <2>2 DEF Loops
    <3> QED
      BY <1>b, <1>c, <3>1
  <2>4. ASSUME NEW i \in 0..n
        PROVE  f[i] = IF i = 0 THEN UnstuffStart ELSE UnstuffBit(f[i - 1], bits[i])
    <3>1. CASE i = 0
      BY <2>2, <3>1
    <3>2. CASE i # 0
      <4>1. i \in 1..n /\ i - 1 \in 0..n
        BY <3>2
      <4>2. bits[i] \in Bit /\ f[i - 1] \in UnstuffStates
        BY <1>1, <2>3, <4>1, ElementOfSeq
      <4> QED
        BY <2>2, <3>2, <4>1, <4>2, UnstuffType
    <3> QED
      BY <3>1, <3>2
  <2>5. f = [i \in 0..n |-> f[i]]
    BY <2>1 DEF Folds
  <2>6. Loop(n, f)
    BY <2>4, <2>5
  <2> QED
    BY <2>6
<1>4. PICK s : s = CHOOSE x : Loop(n, x)
  OBVIOUS
<1>5. Loop(n, s)
  BY <1>3, <1>4
<1>6. s[0] = UnstuffStart
  BY <1>5
<1>7. \A i \in 1..n : s[i - 1] \in UnstuffStates => s[i] = UnstuffFn[<<s[i - 1], bits[i]>>]
  <2>1. \A i \in 1..n : i \in 0..n /\ i # 0
    OBVIOUS
  <2>2. \A i \in 1..n : s[i] = UnstuffBit(s[i - 1], bits[i]) /\ bits[i] \in Bit
    BY <1>1, <1>5, <2>1, ElementOfSeq
  <2> QED
    BY <2>2, UnstuffType
<1> HIDE DEF Loop
<1>8. s[n] = Folded(UnstuffFn, UnstuffStart, bits)
  <2>1. Loops(s, S, F, a, bits, n)
    BY <1>a, <1>c, <1>6, <1>7 DEF Loops
  <2> QED
    BY <1>a, <1>b, <2>1
<1> QED
  BY <1>1, <1>2, <1>4, <1>8

\* One more bit, below a violation: dropped behind six ones, kept behind fewer.
LEMMA UnstuffNext ==
  ASSUME NEW w \in Seq(Bit), NEW bits \in Seq(Bit), NEW run \in 0..STUFF_RUN,
         Folded(UnstuffFn, UnstuffStart, w) = Unstuffed(bits, run), NEW d \in Bit
  PROVE  /\ run = STUFF_RUN /\ d = 0 =>
              Folded(UnstuffFn, UnstuffStart, Append(w, d)) = Unstuffed(bits, 0)
         /\ run # STUFF_RUN =>
              Folded(UnstuffFn, UnstuffStart, Append(w, d))
                = Unstuffed(Append(bits, d), IF d = 1 THEN run + 1 ELSE 0)
         /\ run = STUFF_RUN /\ d = 1 =>
              Folded(UnstuffFn, UnstuffStart, Append(w, d)).violation
              /\ Folded(UnstuffFn, UnstuffStart, Append(w, d)).bits = bits
<1>1. PICK s \in UnstuffStates : s = Unstuffed(bits, run)
  BY DEF Unstuffed, UnstuffStates
<1>2. Folded(UnstuffFn, UnstuffStart, Append(w, d)) = UnstuffBit(s, d)
  <2>1. Folded(UnstuffFn, UnstuffStart, Append(w, d)) = UnstuffFn[<<Folded(UnstuffFn, UnstuffStart, w), d>>]
    BY FoldedAppend
  <2> QED
    BY <1>1, <2>1, UnstuffType
<1>3. s.bits = bits /\ s.run = run /\ s.violation = FALSE
  BY <1>1 DEF Unstuffed
<1>4. CASE run = STUFF_RUN /\ d = 0
  <2>1. UnstuffBit(s, d) = [s EXCEPT !.run = 0, !.violation = (d = 1)]
    BY <1>3, <1>4 DEF UnstuffBit
  <2>2. FALSE = (d = 1)
    BY <1>4
  <2>3. UnstuffBit(s, d) = [s EXCEPT !.run = 0, !.violation = FALSE]
    BY <2>1, <2>2, Zenon
  <2>4. UnstuffBit(s, d) = Unstuffed(bits, 0)
    BY <1>1, <2>3 DEF Unstuffed
  <2> QED
    BY <1>2, <1>4, <2>4
<1>5. CASE run = STUFF_RUN /\ d = 1
  <2>1. UnstuffBit(s, d) = [s EXCEPT !.run = 0, !.violation = (d = 1)]
    BY <1>3, <1>5 DEF UnstuffBit
  <2>2. TRUE = (d = 1)
    BY <1>5
  <2>3. UnstuffBit(s, d) = [s EXCEPT !.run = 0, !.violation = TRUE]
    BY <2>1, <2>2, Zenon
  <2>4. UnstuffBit(s, d).violation /\ UnstuffBit(s, d).bits = bits
    BY <1>1, <2>3 DEF Unstuffed
  <2> QED
    BY <1>2, <1>5, <2>4
<1>6. CASE run # STUFF_RUN
  <2>1. PICK k : k = IF d = 1 THEN run + 1 ELSE 0
    OBVIOUS
  <2>2. UnstuffBit(s, d) = [s EXCEPT !.bits = Append(bits, d), !.run = k]
    BY <1>3, <1>6, <2>1 DEF UnstuffBit
  <2>3. UnstuffBit(s, d) = Unstuffed(Append(bits, d), k)
    BY <1>1, <2>2 DEF Unstuffed
  <2> QED
    BY <1>2, <1>6, <2>1, <2>3
<1> QED
  BY <1>4, <1>5, <1>6 DEF Bit

\* The zero behind six ones is dropped.
LEMMA UnstuffDrop ==
  ASSUME NEW v \in Seq(Bit), NEW z \in Seq(Bit),
         Folded(UnstuffFn, UnstuffStart, v) = Unstuffed(z, STUFF_RUN)
  PROVE  Folded(UnstuffFn, UnstuffStart, Append(v, 0)) = Unstuffed(z, 0)
<1>1. PICK k \in 0..STUFF_RUN : k = STUFF_RUN
  BY DEF STUFF_RUN
<1>2. PICK e \in Bit : e = 0
  BY DEF Bit
<1> QED
  BY <1>1, <1>2, UnstuffNext

\* Two bits behind a sequence are one behind it and then the other.
LEMMA AppendTwice ==
  ASSUME NEW w \in Seq(Bit), NEW d \in Bit, NEW e \in Bit
  PROVE  w \o <<d, e>> = Append(Append(w, d), e)
<1>1. PICK t \in Seq(Bit) : t = <<d, e>>
  <2>1. <<d, e>> \in Seq(Bit)
    OBVIOUS
  <2> QED
    BY <2>1
<1>2. Len(t) = 2 /\ t[1] = d /\ t[2] = e
  BY <1>1
<1>3. PICK v \in Seq(Bit) : v = Append(w, d)
  BY AppendProperties
<1>4. PICK u \in Seq(Bit) : u = Append(v, e)
  BY AppendProperties
<1>5. /\ Len(w) \in Nat /\ Len(v) = Len(w) + 1 /\ v[Len(w) + 1] = d
      /\ \A i \in 1..Len(w) : v[i] = w[i]
  BY <1>3, AppendProperties
<1>6. /\ Len(u) = Len(v) + 1 /\ u[Len(v) + 1] = e
      /\ \A i \in 1..Len(v) : u[i] = v[i]
  BY <1>4, AppendProperties
<1>7. Len(u) = Len(w) + Len(t)
  BY <1>2, <1>5, <1>6
<1>8. \A i \in 1..Len(w) : u[i] = w[i]
  BY <1>5, <1>6
<1>9. \A i \in 1..Len(t) : u[Len(w) + i] = t[i]
  <2> TAKE i \in 1..Len(t)
  <2>1. i = 1 \/ i = 2
    BY <1>2
  <2>2. CASE i = 1
    BY <1>2, <1>5, <1>6, <2>2
  <2>3. CASE i = 2
    BY <1>2, <1>5, <1>6, <2>3
  <2> QED
    BY <2>1, <2>2, <2>3
<1>10. u = w \o t
  BY <1>7, <1>8, <1>9, IsConcat
<1> QED
  BY <1>1, <1>3, <1>4, <1>10

\* Unstuffing undoes stuffing.
LEMMA UnstuffInverts ==
  ASSUME NEW x \in Seq(Bit)
  PROVE  Folded(UnstuffFn, UnstuffStart, Stuffer(x).bits) = Unstuffed(x, Stuffer(x).run)
<1> DEFINE P == {y \in Seq(Bit) : Folded(UnstuffFn, UnstuffStart, Stuffer(y).bits)
                                    = Unstuffed(y, Stuffer(y).run)}
<1>1. <<>> \in P
  <2>1. Stuffer(<<>>).bits = <<>> /\ Stuffer(<<>>).run = 0
    BY StufferEmpty DEF StuffStart
  <2>2. Folded(UnstuffFn, UnstuffStart, <<>>) = Unstuffed(<<>>, 0)
    BY FoldedEmpty DEF UnstuffStart, Unstuffed
  <2> QED
    BY <2>1, <2>2
<1>2. ASSUME NEW y \in Seq(Bit), NEW d \in Bit, y \in P PROVE Append(y, d) \in P
  <2>1. PICK w \in Seq(Bit), run \in 0..(STUFF_RUN - 1) : w = Stuffer(y).bits /\ run = Stuffer(y).run
    BY StufferType DEF StuffStates
  <2>2. Folded(UnstuffFn, UnstuffStart, w) = Unstuffed(y, run)
    BY <1>2, <2>1
  <2>3. Stuffer(Append(y, d)) = StuffBit(Stuffer(y), d) /\ Append(y, d) \in Seq(Bit)
    BY StufferAppend, AppendProperties
  <2>4. PICK k \in 0..STUFF_RUN : k = IF d = 1 THEN run + 1 ELSE 0
    BY <2>1 DEF STUFF_RUN
  <2>5. run \in 0..STUFF_RUN /\ run # STUFF_RUN
    BY <2>1 DEF STUFF_RUN
  <2>6. PICK v \in Seq(Bit) : v = Append(w, d)
    BY <2>1, AppendProperties
  <2>7. Folded(UnstuffFn, UnstuffStart, v) = Unstuffed(Append(y, d), k)
    BY <2>1, <2>2, <2>4, <2>5, <2>6, UnstuffNext
  <2>8. CASE k = STUFF_RUN
    <3>1. PICK e \in Bit : e = 0
      BY DEF Bit
    <3>2. Stuffer(Append(y, d)).bits = w \o <<d, 0>> /\ Stuffer(Append(y, d)).run = 0
      BY <2>1, <2>3, <2>4, <2>8 DEF StuffBit
    <3>3. w \o <<d, 0>> = Append(v, e)
      <4>1. w \o <<d, e>> = Append(Append(w, d), e)
        BY <2>1, <3>1, AppendTwice
      <4> QED
        BY <2>6, <3>1, <4>1
    <3>a. PICK z \in Seq(Bit) : z = Append(y, d)
      BY <2>3
    <3>b. v \in Seq(Bit) /\ k \in 0..STUFF_RUN /\ Folded(UnstuffFn, UnstuffStart, v) = Unstuffed(z, k)
      BY <2>4, <2>6, <2>7, <3>a
    <3>4. Folded(UnstuffFn, UnstuffStart, Append(v, e)) = Unstuffed(Append(y, d), 0)
      <4>1. Folded(UnstuffFn, UnstuffStart, v) = Unstuffed(z, STUFF_RUN)
        BY <2>8, <3>b
      <4>2. Folded(UnstuffFn, UnstuffStart, Append(v, 0)) = Unstuffed(z, 0)
        BY <3>a, <3>b, <4>1, UnstuffDrop
      <4> QED
        BY <3>1, <3>a, <4>2
    <3> QED
      BY <2>3, <3>2, <3>3, <3>4
  <2>9. CASE k # STUFF_RUN
    <3>1. Stuffer(Append(y, d)).bits = v /\ Stuffer(Append(y, d)).run = k
      BY <2>1, <2>3, <2>4, <2>6, <2>9 DEF StuffBit
    <3> QED
      BY <2>3, <2>7, <3>1
  <2> QED
    BY <2>8, <2>9
<1> HIDE DEF P
<1>3. Seq(Bit) \subseteq P
  BY <1>1, <1>2, SeqInduction
<1> QED
  BY <1>3 DEF P

\* The EOP's bits are kept up to its sixth one, and the seventh is a violation.
LEMMA UnstuffEop ==
  ASSUME NEW x \in Seq(Bit)
  PROVE  LET u == Folded(UnstuffFn, UnstuffStart, Stuffer(x).bits \o EopData)
         IN  u.violation /\ u.bits = x \o EopTaken(7)
<1>1. PICK w \in Seq(Bit), run \in 0..STUFF_RUN :
        w = Stuffer(x).bits /\ run = Stuffer(x).run /\ run # STUFF_RUN
  <2>1. Stuffer(x).bits \in Seq(Bit) /\ Stuffer(x).run \in 0..(STUFF_RUN - 1)
    BY StufferType DEF StuffStates
  <2>2. Stuffer(x).run \in 0..STUFF_RUN /\ Stuffer(x).run # STUFF_RUN
    BY <2>1 DEF STUFF_RUN
  <2> QED
    BY <2>1, <2>2
<1>2. Folded(UnstuffFn, UnstuffStart, w) = Unstuffed(x, run)
  BY <1>1, UnstuffInverts
<1>3. \A j \in Nat \ {0} : EopTaken(j) \in Seq(Bit) /\ EopTaken(j + 1) = Append(EopTaken(j), 1)
  <2>1. ASSUME NEW j \in Nat \ {0}
        PROVE  EopTaken(j) \in Seq(Bit) /\ EopTaken(j + 1) = Append(EopTaken(j), 1)
    <3>1. /\ EopTaken(j) \in Seq(Bit) /\ Len(EopTaken(j)) = j
          /\ EopTaken(j + 1) \in Seq(Bit) /\ Len(EopTaken(j + 1)) = j + 1
      BY DEF EopTaken, Bit
    <3>2. \A i \in 1..j : EopTaken(j + 1)[i] = EopTaken(j)[i]
      BY DEF EopTaken
    <3>3. EopTaken(j + 1)[j + 1] = 1
      BY DEF EopTaken
    <3>4. PICK a \in Seq(Bit), b \in Seq(Bit) : a = EopTaken(j) /\ b = EopTaken(j + 1)
      BY <3>1
    <3>5. 1 \in Bit /\ Len(a) = j
      BY <3>1, <3>4 DEF Bit
    <3>6. Append(a, 1) \in Seq(Bit) /\ Len(Append(a, 1)) = j + 1
          /\ Append(a, 1)[j + 1] = 1 /\ \A i \in 1..j : Append(a, 1)[i] = a[i]
      BY <3>4, <3>5, AppendProperties
    <3>7. \A i \in 1..(j + 1) : b[i] = Append(a, 1)[i]
      BY <3>2, <3>3, <3>4, <3>6
    <3>8. b = Append(a, 1)
      BY <3>1, <3>4, <3>6, <3>7, SeqEqual
    <3> QED
      BY <3>1, <3>4, <3>8
  <2> QED
    BY <2>1
<1> DEFINE At(j) == Folded(UnstuffFn, UnstuffStart, w \o EopTaken(j)) = Unstuffed(x \o EopTaken(j), j - 1)
           N == {j \in Nat : j \in 1..7 => At(j)}
<1>4. \A v \in Seq(Bit), e \in Seq(Bit) : v \o Append(e, 1) = Append(v \o e, 1) /\ v \o e \in Seq(Bit)
  BY ConcatProperties
<1>5. At(1)
  <2>1. EopTaken(1) = <<0>>
    BY DEF EopTaken
  <2>2. PICK d \in Bit : d = 0
    BY DEF Bit
  <2>3. w \o <<0>> = Append(w, d) /\ x \o <<0>> = Append(x, d)
    BY <1>1, <2>2
  <2>4. Folded(UnstuffFn, UnstuffStart, Append(w, d)) = Unstuffed(Append(x, d), IF d = 1 THEN run + 1 ELSE 0)
    BY <1>1, <1>2, <2>2, UnstuffNext
  <2> QED
    <3>1. (IF d = 1 THEN run + 1 ELSE 0) = 1 - 1
      BY <2>2
    <3> QED
      BY <2>1, <2>3, <2>4, <3>1
<1>6. ASSUME NEW j \in Nat \ {0}, j \in 1..6, At(j) PROVE At(j + 1)
  <2>1. PICK v \in Seq(Bit), y \in Seq(Bit), k \in 0..STUFF_RUN, d \in Bit :
          v = w \o EopTaken(j) /\ y = x \o EopTaken(j) /\ k = j - 1 /\ k # STUFF_RUN /\ d = 1
    <3>1. w \o EopTaken(j) \in Seq(Bit) /\ x \o EopTaken(j) \in Seq(Bit)
      BY <1>1, <1>3, ConcatProperties
    <3>2. j - 1 \in 0..STUFF_RUN /\ j - 1 # STUFF_RUN
      BY <1>6 DEF STUFF_RUN
    <3> QED
      BY <3>1, <3>2 DEF Bit
  <2>2. Folded(UnstuffFn, UnstuffStart, v) = Unstuffed(y, k)
    BY <1>6, <2>1
  <2>3. Folded(UnstuffFn, UnstuffStart, Append(v, d)) = Unstuffed(Append(y, d), k + 1)
    <3>1. Folded(UnstuffFn, UnstuffStart, Append(v, d)) = Unstuffed(Append(y, d), IF d = 1 THEN k + 1 ELSE 0)
      <4>1. v \in Seq(Bit) /\ y \in Seq(Bit) /\ k \in 0..STUFF_RUN /\ k # STUFF_RUN /\ d \in Bit
        BY <2>1
      <4> QED
        BY <4>1, <2>2, UnstuffNext
    <3> QED
      BY <2>1, <3>1
  <2>4. w \o EopTaken(j + 1) = Append(v, d) /\ x \o EopTaken(j + 1) = Append(y, d)
    <3>1. PICK e \in Seq(Bit) : e = EopTaken(j) /\ EopTaken(j + 1) = Append(e, 1)
      BY <1>3
    <3>2. w \o Append(e, 1) = Append(w \o e, 1) /\ x \o Append(e, 1) = Append(x \o e, 1)
      BY <1>1, <1>4, <3>1
    <3> QED
      BY <2>1, <3>1, <3>2
  <2>5. k + 1 = (j + 1) - 1
    BY <2>1
  <2> QED
    BY <2>3, <2>4, <2>5
<1>7. At(7)
  <2> HIDE DEF At
  <2>1. \A j \in 1..6 : At(j) => At(j + 1)
    BY <1>6
  <2>2. At(2)
    BY <1>5, <2>1
  <2>3. At(3)
    BY <2>1, <2>2
  <2>4. At(4)
    BY <2>1, <2>3
  <2>5. At(5)
    BY <2>1, <2>4
  <2>6. At(6)
    BY <2>1, <2>5
  <2> QED
    BY <2>1, <2>6
<1>8. PICK v \in Seq(Bit), y \in Seq(Bit), k \in 0..STUFF_RUN, d \in Bit :
        v = w \o EopTaken(7) /\ y = x \o EopTaken(7) /\ k = STUFF_RUN /\ d = 1
  <2>1. 7 \in Nat \ {0} /\ STUFF_RUN \in 0..STUFF_RUN
    BY DEF STUFF_RUN
  <2>2. w \o EopTaken(7) \in Seq(Bit) /\ x \o EopTaken(7) \in Seq(Bit)
    BY <1>1, <1>3, <2>1, ConcatProperties
  <2> QED
    BY <2>1, <2>2 DEF Bit
<1>9. Folded(UnstuffFn, UnstuffStart, v) = Unstuffed(y, k)
  <2>1. 7 - 1 = STUFF_RUN
    BY DEF STUFF_RUN
  <2> QED
    BY <1>7, <1>8, <2>1
<1>10. Folded(UnstuffFn, UnstuffStart, Append(v, d)).violation
       /\ Folded(UnstuffFn, UnstuffStart, Append(v, d)).bits = y
  BY <1>8, <1>9, UnstuffNext
<1>11. w \o EopData = Append(v, d)
  <2>1. PICK e \in Seq(Bit) : e = EopTaken(7)
    <3>1. EopTaken(7) \in Seq(Bit)
      BY DEF EopTaken, Bit
    <3> QED
      BY <3>1
  <2>2. EopData = Append(e, 1)
    <3>1. Len(e) = 7 /\ \A i \in 1..7 : e[i] = IF i = 1 THEN 0 ELSE 1
      BY <2>1 DEF EopTaken
    <3>2. Append(e, 1) \in Seq(Bit) /\ Len(Append(e, 1)) = 8 /\ Append(e, 1)[8] = 1
          /\ \A i \in 1..7 : Append(e, 1)[i] = e[i]
      <4>1. 1 \in Bit
        BY DEF Bit
      <4>2. Len(Append(e, 1)) = Len(e) + 1 /\ Append(e, 1)[Len(e) + 1] = 1
            /\ Append(e, 1) \in Seq(Bit) /\ \A i \in 1..Len(e) : Append(e, 1)[i] = e[i]
        BY <2>1, <4>1, AppendProperties
      <4> QED
        BY <3>1, <4>2
    <3>3. EopData \in Seq(Bit) /\ Len(EopData) = 8
      BY DEF EopData, Bit
    <3>4. \A i \in 1..8 : EopData[i] = IF i = 1 THEN 0 ELSE 1
      BY DEF EopData
    <3>5. \A i \in 1..8 : EopData[i] = Append(e, 1)[i]
      BY <3>1, <3>2, <3>4
    <3> QED
      BY <3>2, <3>3, <3>5, SeqEqual
  <2>3. w \o Append(e, 1) = Append(w \o e, 1)
    BY <1>1, <1>4, <2>1
  <2> QED
    BY <1>8, <2>1, <2>2, <2>3
<1> QED
  BY <1>1, <1>8, <1>10, <1>11

(* Unstuffing undoes stuffing, and the EOP behind it is the first violation, with
   all but its last one among the bits. *)
LEMMA StuffingInverts ==
  ASSUME NEW x \in Seq(Bit)
  PROVE  /\ BitUnstuff(BitStuff(x)).bits = x
         /\ BitUnstuff(BitStuff(x) \o EopData).violation
         /\ BitUnstuff(BitStuff(x) \o EopData).bits = x \o EopTaken(7)
<1>1. PICK w \in Seq(Bit) : w = Stuffer(x).bits
  BY StufferType DEF StuffStates
<1>2. BitStuff(x) = w
  BY <1>1, StufferStuffs
<1>3. PICK v \in Seq(Bit) : v = w \o EopData
  <2>1. EopData \in Seq(Bit)
    BY DEF EopData, Bit
  <2> QED
    BY <1>1, <2>1, ConcatProperties
<1>4. BitUnstuff(w) = Unstuffed(x, Stuffer(x).run)
  BY <1>1, BitUnstuffIs, UnstuffInverts
<1>5. BitUnstuff(v).violation /\ BitUnstuff(v).bits = x \o EopTaken(7)
  BY <1>1, <1>3, BitUnstuffIs, UnstuffEop
<1> QED
  BY <1>2, <1>3, <1>4, <1>5 DEF Unstuffed

-----------------------------------------------------------------------------
(* The ideal decoder on a run of bits. *)

RefFn == [x \in RefStates \X Bit |-> RefBit(x[1], x[2])]

\* g goes through its states, one for each of the first n bits.
RefRuns(g, s, bits, n) ==
  /\ g[0] = s /\ RefRead(s, bits) = g[n]
  /\ \A i \in 0..n : g[i] \in RefStates
  /\ \A i \in 1..n : g[i] = RefBit(g[i - 1], bits[i])

\* It reads them one by one.
LEMMA RefReadRuns ==
  ASSUME NEW s \in RefStates, NEW bits \in Seq(Bit), NEW n, n = Len(bits)
  PROVE  \E g : RefRuns(g, s, bits, n)
<1> DEFINE Loop(x) == x = [i \in 0..n |-> IF i = 0 THEN s ELSE RefBit(x[i - 1], bits[i])]
<1>1. n \in Nat
  BY LenProperties
<1>2. RefRead(s, bits) = (CHOOSE x : Loop(x))[n]
  BY Zenon DEF RefRead
<1>3. PICK S, F : S = RefStates /\ F = RefFn
  OBVIOUS
<1>4. \A t \in RefStates, d \in Bit : RefBit(t, d) \in RefStates /\ RefFn[<<t, d>>] = RefBit(t, d)
  BY RefBitType DEF RefFn
<1>5. Steps(F, S, Bit) /\ s \in S
  <2>1. RefFn \in [RefStates \X Bit -> RefStates]
    BY <1>4 DEF RefFn
  <2> QED
    BY <1>3, <2>1, Zenon DEF Steps
<1>6. ASSUME NEW f, Loops(f, S, F, s, bits, n)
      PROVE  \A i \in 0..n : f[i] \in S
  BY <1>5, <1>6, FoldedLoop
<1>7. \E x : Loop(x)
  <2>1. PICK f : Folds(f, F, s, bits, n)
    BY <1>1, FoldsExists
  <2>2. f[0] = s /\ \A i \in 1..n : f[i] = F[<<f[i - 1], bits[i]>>]
    <3>1. 0 \in 0..n /\ \A i \in 1..n : i \in 0..n /\ i # 0
      BY <1>1
    <3> QED
      BY <2>1, <3>1 DEF Folds
  <2>3. \A i \in 0..n : f[i] \in RefStates
    <3>1. Loops(f, S, F, s, bits, n)
      BY <2>2 DEF Loops
    <3> QED
      BY <1>3, <1>6, <3>1
  <2>4. ASSUME NEW i \in 0..n
        PROVE  f[i] = IF i = 0 THEN s ELSE RefBit(f[i - 1], bits[i])
    <3>1. CASE i = 0
      BY <2>2, <3>1
    <3>2. CASE i # 0
      <4>1. i \in 1..n /\ i - 1 \in 0..n
        BY <1>1, <3>2
      <4>2. bits[i] \in Bit /\ f[i - 1] \in RefStates
        BY <2>3, <4>1, ElementOfSeq
      <4> QED
        BY <1>3, <1>4, <2>2, <3>2, <4>1, <4>2
    <3> QED
      BY <3>1, <3>2
  <2>5. f = [i \in 0..n |-> f[i]]
    BY <2>1 DEF Folds
  <2>6. Loop(f)
    BY <2>4, <2>5
  <2> QED
    BY <2>6
<1>8. PICK g : g = CHOOSE x : Loop(x)
  OBVIOUS
<1>9. Loop(g)
  BY <1>7, <1>8
<1>10. g[0] = s /\ \A i \in 1..n : g[i] = RefBit(g[i - 1], bits[i])
  <2>1. 0 \in 0..n /\ \A i \in 1..n : i \in 0..n /\ i # 0
    BY <1>1
  <2> QED
    BY <1>9, <2>1
<1> HIDE DEF Loop
<1>11. \A i \in 1..n : g[i - 1] \in RefStates => g[i] = RefFn[<<g[i - 1], bits[i]>>]
  <2>1. \A i \in 1..n : bits[i] \in Bit
    BY ElementOfSeq
  <2> QED
    BY <1>4, <1>10, <2>1
<1>12. \A i \in 0..n : g[i] \in RefStates
  <2>1. Loops(g, S, F, s, bits, n)
    BY <1>3, <1>10, <1>11 DEF Loops
  <2> QED
    BY <1>3, <1>6, <2>1
<1>13. RefRuns(g, s, bits, n)
  BY <1>2, <1>8, <1>10, <1>12 DEF RefRuns
<1> QED
  BY <1>13

\* Whole bytes and seven bits: then what is left over is seven bits.
LEMMA EightApart ==
  ASSUME NEW m \in Nat, NEW n \in Nat, NEW k \in Nat, k < 8, 8 * m + k = 8 * n + 7
  PROVE  k = 7
OBVIOUS

\* What is collected before the seventh bit of the EOP determines the payload.
LEMMA PayloadIsTold ==
  ASSUME NEW p \in Seq(Byte), NEW q \in Seq(Byte), NEW a \in Seq(Bit), Len(a) < 8,
         NEW t \in Seq(Bit), Len(t) = 7,
         PayloadDataBits(q) \o a = PayloadDataBits(p) \o t
  PROVE  Len(a) = 7 /\ q = p
<1>1. PICK m \in Nat, n \in Nat, k \in Nat : m = Len(q) /\ n = Len(p) /\ k = Len(a) /\ k < 8
  <2>1. Len(q) \in Nat /\ Len(p) \in Nat /\ Len(a) \in Nat
    BY LenProperties
  <2> QED
    BY <2>1
<1>2. PICK x \in Seq(Bit), y \in Seq(Bit) :
        x = PayloadDataBits(q) /\ Len(x) = 8 * m /\ y = PayloadDataBits(p) /\ Len(y) = 8 * n
  BY <1>1, PayloadLength
<1>3. Len(x \o a) = 8 * m + k /\ Len(y \o t) = 8 * n + 7
  <2>1. Len(x \o a) = Len(x) + Len(a) /\ Len(y \o t) = Len(y) + Len(t)
    BY <1>2, ConcatProperties
  <2> QED
    BY <1>1, <1>2, <2>1
<1>4. 8 * m + k = 8 * n + 7
  BY <1>2, <1>3
<1>5. k = 7
  BY <1>1, <1>4, EightApart
<1>6. CollectedPayload(PayloadDataBits(q) \o a) = q
  BY <1>1, <1>5, CollectedIs
<1>7. CollectedPayload(PayloadDataBits(p) \o t) = p
  BY CollectedIs
<1> QED
  BY <1>1, <1>5, <1>6, <1>7

\* ConcatAssociative, for bits.
LEMMA BitsAssociate ==
  \A x, y, z \in Seq(Bit) : (x \o y) \o z = x \o (y \o z)
BY ConcatAssociative
=============================================================================
