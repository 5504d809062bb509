--------------------------- MODULE SequenceLemmas ---------------------------
(***************************************************************************)
(* What the proofs of this project need to know of the sequences that the  *)
(* models build out of smaller ones: FlattenSeq, which the histories of    *)
(* the registry and of the store of events are told with, and Last; and of *)
(* the least and the greatest element of a set of places.                  *)
(*                                                                         *)
(* FlattenSeq is recursive, so all of it rests on an induction.  The       *)
(* library states induction for an operator P(_); here it is stated for a  *)
(* set, that of the values with the property, and follows from the least   *)
(* element of what is left out.                                            *)
(***************************************************************************)
EXTENDS Integers, Sequences, SequencesExt, FiniteSetsExt, SequenceTheorems,
        WellFoundedInduction, TLAPS

(* A set with 0 that is closed under successor has all numbers.            *)
LEMMA InductionOverNat ==
  ASSUME NEW T, 0 \in T, \A n \in Nat : n \in T => n + 1 \in T
  PROVE  \A n \in Nat : n \in T
<1> DEFINE R == OpToRel(<, Nat)
<1>1. IsWellFoundedOn(R, Nat)
  BY NatLessThanWellFounded
<1>2. \A m, n \in Nat : m < n => <<m, n>> \in R
  BY DEF OpToRel
<1> HIDE DEF R
<1>3. SUFFICES ASSUME Nat \ T # {} PROVE FALSE
  OBVIOUS
<1>4. PICK x \in Nat \ T : \A y \in Nat \ T : ~ (<<y, x>> \in R)
  BY <1>1, <1>3, WFMin
<1>5. x # 0 /\ x - 1 \in Nat
  OBVIOUS
<1>6. x - 1 \in Nat \ T
  <2>1. (x - 1) + 1 = x
    BY <1>5
  <2> QED BY <1>5, <2>1
<1>7. <<x - 1, x>> \in R
  BY <1>2, <1>5
<1> QED BY <1>4, <1>6, <1>7

(* A set with the empty sequence that is closed under Append has all       *)
(* sequences.                                                              *)
LEMMA InductionOverSeq ==
  ASSUME NEW S, NEW T, <<>> \in T,
         \A s \in Seq(S), e \in S : s \in T => Append(s, e) \in T
  PROVE  \A s \in Seq(S) : s \in T
<1> DEFINE N == {n \in Nat : \A s \in Seq(S) : Len(s) = n => s \in T}
<1>1. 0 \in N
  BY EmptySeq
<1>2. ASSUME NEW n \in Nat, n \in N PROVE n + 1 \in N
  <2>1. SUFFICES ASSUME NEW s \in Seq(S), Len(s) = n + 1 PROVE s \in T
    OBVIOUS
  <2>2. s # <<>>
    BY <2>1, EmptySeq
  <2>3. PICK r \in Seq(S), e \in S : s = Append(r, e)
    BY <2>2, SequenceEmptyOrAppend
  <2>4. Len(r) = n
    BY <2>1, <2>3, AppendProperties, LenProperties
  <2> QED BY <1>2, <2>3, <2>4
<1> HIDE DEF N
<1>3. \A n \in Nat : n \in N
  BY <1>1, <1>2, InductionOverNat
<1> QED BY <1>3, LenProperties DEF N

-----------------------------------------------------------------------------
(* f is what the recursion of FlattenSeq(s) computes.                      *)
Flattens(s, f) ==
  f = [i \in 1..Len(s) |-> IF i = 1 THEN s[i] ELSE f[i - 1] \o s[i]]

LEMMA FlattensExtend ==
  ASSUME NEW S, NEW s \in Seq(Seq(S)), NEW e \in Seq(S),
         NEW f \in [1..Len(s) -> Seq(S)], Flattens(s, f)
  PROVE  \E g \in [1..Len(Append(s, e)) -> Seq(S)] :
           /\ Flattens(Append(s, e), g)
           /\ g[Len(s) + 1] = IF s = <<>> THEN e ELSE f[Len(s)] \o e
<1> DEFINE n == Len(s)
           t == Append(s, e)
           last == IF s = <<>> THEN e ELSE f[n] \o e
           g == [i \in 1..n + 1 |-> IF i <= n THEN f[i] ELSE last]
<1>0. /\ last = IF s = <<>> THEN e ELSE f[n] \o e
      /\ g = [i \in 1..n + 1 |-> IF i <= n THEN f[i] ELSE last]
  OBVIOUS
<1> HIDE DEF last, g
<1>1. /\ n \in Nat
      /\ Len(t) = n + 1
      /\ \A i \in 1..n : t[i] = s[i]
      /\ t[n + 1] = e
  BY LenProperties, AppendProperties
<1>2. s = <<>> <=> n = 0
  BY EmptySeq, LenProperties
<1>3. last \in Seq(S)
  <2>1. CASE s = <<>>
    BY <1>0, <2>1
  <2>2. CASE s # <<>>
    <3>1. n \in 1..n
      BY <1>1, <1>2, <2>2
    <3>2. f[n] \in Seq(S)
      BY <3>1
    <3> QED BY <1>0, <2>2, <3>2, ConcatProperties
  <2> QED BY <2>1, <2>2
<1>4. \A i \in 1..n : f[i] = IF i = 1 THEN s[i] ELSE f[i - 1] \o s[i]
  BY DEF Flattens
<1> HIDE DEF n, t
<1>5. g \in [1..n + 1 -> Seq(S)]
  BY <1>0, <1>1, <1>3 DEF n
<1>6. \A i \in 1..n + 1 : g[i] = IF i = 1 THEN t[i] ELSE g[i - 1] \o t[i]
  <2> TAKE i \in 1..n + 1
  <2>1. CASE i <= n
    <3>1. i \in 1..n /\ (i # 1 => i - 1 \in 1..n + 1 /\ i - 1 <= n)
      BY <1>1, <2>1
    <3>2. g[i] = f[i] /\ (i # 1 => g[i - 1] = f[i - 1])
      BY <1>0, <2>1, <3>1 DEF n
    <3> QED BY <1>1, <1>4, <3>1, <3>2
  <2>2. CASE i = n + 1
    <3>1. i # 1 => i - 1 = n /\ n \in 1..n + 1 /\ n <= n /\ n # 0
      BY <1>1, <2>2
    <3>2. ~ i <= n /\ (i = 1 => n = 0)
      BY <1>1, <2>2
    <3>3. g[i] = last /\ t[i] = e
      BY <1>0, <1>1, <2>2, <3>2 DEF n
    <3>4. CASE i = 1
      BY <1>0, <1>2, <3>2, <3>3, <3>4 DEF n
    <3>5. CASE i # 1
      <4>1. g[i - 1] = f[n]
        BY <1>0, <3>1, <3>5 DEF n
      <4>2. last = f[n] \o e
        BY <1>0, <1>2, <3>1, <3>5 DEF n
      <4> QED BY <3>1, <3>3, <3>5, <4>1, <4>2
    <3> QED BY <3>4, <3>5
  <2> QED BY <1>1, <2>1, <2>2
<1>7. Flattens(t, g)
  <2>1. g = [i \in 1..n + 1 |-> g[i]]
    BY <1>0 DEF n
  <2>2. g = [i \in 1..n + 1 |-> IF i = 1 THEN t[i] ELSE g[i - 1] \o t[i]]
    BY <1>6, <2>1
  <2> QED BY <1>1, <2>2 DEF Flattens
<1>8. g[n + 1] = last
  BY <1>0, <1>1 DEF n
<1> QED BY <1>0, <1>1, <1>5, <1>7, <1>8 DEF n, t

LEMMA FlattensSomehow ==
  ASSUME NEW S, NEW s \in Seq(Seq(S))
  PROVE  \E f \in [1..Len(s) -> Seq(S)] : Flattens(s, f)
<1> DEFINE T == {r \in Seq(Seq(S)) : \E f \in [1..Len(r) -> Seq(S)] : Flattens(r, f)}
<1>1. <<>> \in T
  <2>1. <<>> \in Seq(Seq(S)) /\ Len(<<>>) = 0
    BY EmptySeq
  <2> DEFINE f == [i \in 1..0 |-> <<>>]
  <2>2. f \in [1..0 -> Seq(S)] /\ Flattens(<<>>, f)
    BY <2>1 DEF Flattens
  <2> QED BY <2>1, <2>2
<1>2. ASSUME NEW r \in Seq(Seq(S)), NEW e \in Seq(S), r \in T
      PROVE  Append(r, e) \in T
  <2>1. PICK f \in [1..Len(r) -> Seq(S)] : Flattens(r, f)
    BY <1>2
  <2>2. \E g \in [1..Len(Append(r, e)) -> Seq(S)] : Flattens(Append(r, e), g)
    BY <2>1, FlattensExtend
  <2>3. Append(r, e) \in Seq(Seq(S))
    BY AppendProperties
  <2> QED BY <2>2, <2>3
<1> HIDE DEF T
<1>3. s \in T
  BY <1>1, <1>2, InductionOverSeq
<1> QED BY <1>3 DEF T

(* There is one result only.                                               *)
LEMMA FlattensOnce ==
  ASSUME NEW S, NEW s \in Seq(Seq(S)), NEW f, NEW g, Flattens(s, f), Flattens(s, g)
  PROVE  f = g
<1> DEFINE T == {n \in Nat : n \in 1..Len(s) => f[n] = g[n]}
<1>0. Len(s) \in Nat
  BY LenProperties
<1>1. /\ f = [i \in 1..Len(s) |-> f[i]] /\ g = [i \in 1..Len(s) |-> g[i]]
      /\ \A i \in 1..Len(s) : /\ f[i] = IF i = 1 THEN s[i] ELSE f[i - 1] \o s[i]
                              /\ g[i] = IF i = 1 THEN s[i] ELSE g[i - 1] \o s[i]
  BY DEF Flattens
<1>2. 0 \in T
  OBVIOUS
<1>3. ASSUME NEW n \in Nat, n \in T PROVE n + 1 \in T
  <2>1. SUFFICES ASSUME n + 1 \in 1..Len(s) PROVE f[n + 1] = g[n + 1]
    OBVIOUS
  <2>2. n + 1 = 1 \/ (n \in 1..Len(s) /\ (n + 1) - 1 = n)
    BY <1>0, <2>1
  <2>3. CASE n + 1 = 1
    BY <1>1, <2>1, <2>3
  <2>4. CASE n + 1 # 1
    <3>1. f[n] = g[n]
      BY <1>3, <2>2, <2>4
    <3>2. f[n + 1] = f[(n + 1) - 1] \o s[n + 1] /\ g[n + 1] = g[(n + 1) - 1] \o s[n + 1]
      BY <1>1, <2>1, <2>4
    <3> QED BY <2>2, <2>4, <3>1, <3>2
  <2> QED BY <2>3, <2>4
<1> HIDE DEF T
<1>4. \A n \in Nat : n \in T
  BY <1>2, <1>3, InductionOverNat
<1>5. \A n \in 1..Len(s) : f[n] = g[n]
  BY <1>0, <1>4 DEF T
<1> QED BY <1>1, <1>5

LEMMA FlattenIs ==
  ASSUME NEW S, NEW s \in Seq(Seq(S)), s # <<>>, NEW f, Flattens(s, f)
  PROVE  FlattenSeq(s) = f[Len(s)]
<1> DEFINE c == CHOOSE h : h = [i \in 1..Len(s) |->
                                  IF i = 1 THEN s[i] ELSE h[i - 1] \o s[i]]
<1>1. Len(s) # 0
  BY EmptySeq
<1>2. FlattenSeq(s) = c[Len(s)]
  BY <1>1 DEF FlattenSeq
<1>3. \E h : h = [i \in 1..Len(s) |-> IF i = 1 THEN s[i] ELSE h[i - 1] \o s[i]]
  BY DEF Flattens
<1>4. c = [i \in 1..Len(s) |-> IF i = 1 THEN s[i] ELSE c[i - 1] \o s[i]]
  BY <1>3
<1> HIDE DEF c
<1>5. Flattens(s, c)
  BY <1>4 DEF Flattens
<1> QED BY <1>2, <1>5, FlattensOnce

(* Nothing flattened is nothing.                                           *)
LEMMA FlattenNothing == FlattenSeq(<<>>) = <<>>
BY EmptySeq DEF FlattenSeq

(* A sequence flattened is a sequence of the same things.                  *)
LEMMA FlattenType ==
  ASSUME NEW S, NEW s \in Seq(Seq(S))
  PROVE  FlattenSeq(s) \in Seq(S)
<1>1. CASE s = <<>>
  BY <1>1, FlattenNothing, EmptySeq
<1>2. CASE s # <<>>
  <2>1. PICK f \in [1..Len(s) -> Seq(S)] : Flattens(s, f)
    BY FlattensSomehow
  <2>2. Len(s) \in 1..Len(s)
    BY <1>2, EmptySeq
  <2>3. FlattenSeq(s) = f[Len(s)]
    BY <1>2, <2>1, FlattenIs
  <2> QED BY <2>1, <2>2, <2>3
<1> QED BY <1>1, <1>2

(* One more sequence is one more piece at the end.                         *)
LEMMA FlattenAppend ==
  ASSUME NEW S, NEW s \in Seq(Seq(S)), NEW e \in Seq(S)
  PROVE  FlattenSeq(Append(s, e)) = FlattenSeq(s) \o e
<1>1. PICK f \in [1..Len(s) -> Seq(S)] : Flattens(s, f)
  BY FlattensSomehow
<1>2. PICK g \in [1..Len(Append(s, e)) -> Seq(S)] :
        /\ Flattens(Append(s, e), g)
        /\ g[Len(s) + 1] = IF s = <<>> THEN e ELSE f[Len(s)] \o e
  BY <1>1, FlattensExtend
<1>3. /\ Append(s, e) \in Seq(Seq(S)) /\ Append(s, e) # <<>>
      /\ Len(Append(s, e)) = Len(s) + 1
  BY AppendProperties
<1>4. FlattenSeq(Append(s, e)) = g[Len(s) + 1]
  BY <1>2, <1>3, FlattenIs
<1>5. CASE s = <<>>
  BY <1>2, <1>4, <1>5, FlattenNothing, ConcatEmptySeq
<1>6. CASE s # <<>>
  BY <1>1, <1>2, <1>4, <1>6, FlattenIs
<1> QED BY <1>5, <1>6

(* The same for a sequence that is given by what stands where.             *)
LEMMA FlattenLonger ==
  ASSUME NEW S, NEW n \in Nat, NEW s \in [1..n -> Seq(S)],
         NEW t \in [1..n + 1 -> Seq(S)], \A i \in 1..n : t[i] = s[i]
  PROVE  FlattenSeq(t) = FlattenSeq(s) \o t[n + 1]
<1>1. s \in Seq(Seq(S)) /\ Len(s) = n
  BY LenProperties
<1>2. t \in Seq(Seq(S)) /\ Len(t) = n + 1 /\ t[n + 1] \in Seq(S)
  BY LenProperties
<1>3. t = Append(s, t[n + 1])
  <2>1. /\ Append(s, t[n + 1]) \in Seq(Seq(S))
        /\ Len(Append(s, t[n + 1])) = n + 1
        /\ \A i \in 1..n : Append(s, t[n + 1])[i] = s[i]
        /\ Append(s, t[n + 1])[n + 1] = t[n + 1]
    BY <1>1, <1>2, AppendProperties
  <2>2. \A i \in 1..n + 1 : t[i] = Append(s, t[n + 1])[i]
    <3> TAKE i \in 1..n + 1
    <3>1. i \in 1..n \/ i = n + 1
      OBVIOUS
    <3> QED BY <2>1, <3>1
  <2> QED BY <1>2, <2>1, <2>2, SeqEqual
<1> QED BY <1>1, <1>2, <1>3, FlattenAppend

(* A flattened sequence is empty only if all its pieces are.               *)
LEMMA FlattenEmpty ==
  ASSUME NEW S, NEW s \in Seq(Seq(S))
  PROVE  FlattenSeq(s) = <<>> <=> \A i \in 1..Len(s) : s[i] = <<>>
<1> DEFINE T == {r \in Seq(Seq(S)) :
                   FlattenSeq(r) = <<>> <=> \A i \in 1..Len(r) : r[i] = <<>>}
<1>1. <<>> \in T
  BY FlattenNothing, EmptySeq
<1>2. ASSUME NEW r \in Seq(Seq(S)), NEW e \in Seq(S), r \in T
      PROVE  Append(r, e) \in T
  <2>1. /\ Append(r, e) \in Seq(Seq(S)) /\ Len(Append(r, e)) = Len(r) + 1
        /\ Len(r) \in Nat
        /\ \A i \in 1..Len(r) : Append(r, e)[i] = r[i]
        /\ Append(r, e)[Len(r) + 1] = e
    BY AppendProperties, LenProperties
  <2>2. FlattenSeq(Append(r, e)) = FlattenSeq(r) \o e
    BY FlattenAppend
  <2>3. FlattenSeq(r) \o e = <<>> <=> FlattenSeq(r) = <<>> /\ e = <<>>
    BY FlattenType, ConcatEqualIffEmpty
  <2>4. (\A i \in 1..Len(r) + 1 : Append(r, e)[i] = <<>>)
          <=> (\A i \in 1..Len(r) : r[i] = <<>>) /\ e = <<>>
    BY <2>1
  <2> QED BY <1>2, <2>1, <2>2, <2>3, <2>4
<1> HIDE DEF T
<1>3. s \in T
  BY <1>1, <1>2, InductionOverSeq
<1> QED BY <1>3 DEF T

-----------------------------------------------------------------------------
(* The last of two sequences is that of the second, unless it is empty.    *)
LEMMA LastOfConcat ==
  ASSUME NEW S, NEW s \in Seq(S), NEW t \in Seq(S)
  PROVE  Last(s \o t) = IF t = <<>> THEN Last(s) ELSE Last(t)
<1>1. CASE t = <<>>
  BY <1>1, ConcatEmptySeq
<1>2. CASE t # <<>>
  <2>1. Len(t) \in Nat \ {0} /\ Len(s) \in Nat
    BY <1>2, EmptySeq, LenProperties
  <2>2. /\ Len(s \o t) = Len(s) + Len(t)
        /\ \A i \in 1..Len(s) + Len(t) :
             (s \o t)[i] = IF i <= Len(s) THEN s[i] ELSE t[i - Len(s)]
    BY ConcatProperties
  <2>3. /\ Len(s) + Len(t) \in 1..Len(s) + Len(t)
        /\ ~ (Len(s) + Len(t) <= Len(s)) /\ (Len(s) + Len(t)) - Len(s) = Len(t)
    BY <2>1
  <2> QED BY <1>2, <2>2, <2>3 DEF Last
<1> QED BY <1>1, <1>2

LEMMA LastIn ==
  ASSUME NEW S, NEW s \in Seq(S), s # <<>>
  PROVE  Last(s) \in S
<1>1. Len(s) \in 1..Len(s)
  BY EmptySeq
<1> QED BY <1>1, ElementOfSeq DEF Last

-----------------------------------------------------------------------------
(* The first n of a sequence.                                              *)
LEMMA FirstOf ==
  ASSUME NEW S, NEW s \in Seq(S), NEW n \in 0..Len(s)
  PROVE  /\ SubSeq(s, 1, n) \in Seq(S) /\ Len(SubSeq(s, 1, n)) = n
         /\ \A i \in 1..n : SubSeq(s, 1, n)[i] = s[i]
<1>1. Len(s) \in Nat
  BY LenProperties
<1>2. n \in Int /\ \A i \in 1..n : s[i] \in S
  BY <1>1, ElementOfSeq
<1>3. /\ SubSeq(s, 1, n) \in Seq(S)
      /\ Len(SubSeq(s, 1, n)) = IF 1 <= n THEN n - 1 + 1 ELSE 0
      /\ \A i \in 1..n - 1 + 1 : SubSeq(s, 1, n)[i] = s[1 + i - 1]
  BY <1>2, SubSeqProperties
<1> QED BY <1>1, <1>2, <1>3

LEMMA PrefixIs ==
  ASSUME NEW S, NEW s \in Seq(S), NEW t \in Seq(S)
  PROVE  IsPrefix(s, t) <=> Len(s) <= Len(t) /\ \A i \in 1..Len(s) : s[i] = t[i]
<1>1. Len(s) \in Nat /\ Len(t) \in Nat
  BY LenProperties
<1>2. SUFFICES ASSUME Len(s) <= Len(t)
               PROVE  SubSeq(s, 1, Len(s)) = SubSeq(t, 1, Len(s))
                        <=> \A i \in 1..Len(s) : s[i] = t[i]
  BY DEF IsPrefix
<1>3. SubSeq(s, 1, Len(s)) = s
  BY SubSeqFull
<1>4. /\ SubSeq(t, 1, Len(s)) \in Seq(S) /\ Len(SubSeq(t, 1, Len(s))) = Len(s)
      /\ \A i \in 1..Len(s) : SubSeq(t, 1, Len(s))[i] = t[i]
  BY <1>1, <1>2, FirstOf
<1>5. (\A i \in 1..Len(s) : s[i] = SubSeq(t, 1, Len(s))[i])
        => s = SubSeq(t, 1, Len(s))
  BY <1>4, SeqEqual
<1> QED BY <1>3, <1>4, <1>5

LEMMA PrefixOfLonger ==
  ASSUME NEW S, NEW s \in Seq(S), NEW t \in Seq(S), NEW u \in Seq(S)
  PROVE  /\ IsPrefix(t, t \o u)
         /\ IsPrefix(s, t) => IsPrefix(s, t \o u)
<1>1. Len(s) \in Nat /\ Len(t) \in Nat /\ Len(u) \in Nat
  BY LenProperties
<1>2. /\ t \o u \in Seq(S) /\ Len(t \o u) = Len(t) + Len(u)
      /\ \A i \in 1..Len(t) + Len(u) :
           (t \o u)[i] = IF i <= Len(t) THEN t[i] ELSE u[i - Len(t)]
  BY ConcatProperties
<1>3. IsPrefix(t, t \o u)
  <2>1. Len(t) <= Len(t \o u) /\ \A i \in 1..Len(t) : t[i] = (t \o u)[i]
    BY <1>1, <1>2
  <2> QED BY <1>2, <2>1, PrefixIs
<1>4. ASSUME IsPrefix(s, t) PROVE IsPrefix(s, t \o u)
  <2>1. Len(s) <= Len(t) /\ \A i \in 1..Len(s) : s[i] = t[i]
    BY <1>4, PrefixIs
  <2>2. Len(s) <= Len(t \o u) /\ \A i \in 1..Len(s) : s[i] = (t \o u)[i]
    BY <1>1, <1>2, <2>1
  <2> QED BY <1>2, <2>2, PrefixIs
<1> QED BY <1>3, <1>4

(* A prefix and what comes after it is a longer prefix.                    *)
LEMMA PrefixExtendedIs ==
  ASSUME NEW S, NEW s \in Seq(S), NEW t \in Seq(S), IsPrefix(s, t),
         NEW k \in Len(s)..Len(t), NEW r, r = s \o SubSeq(t, Len(s) + 1, k)
  PROVE  r = SubSeq(t, 1, k)
<1>1. /\ Len(s) \in Nat /\ Len(t) \in Nat /\ Len(s) <= Len(t)
      /\ k \in Nat /\ Len(s) <= k /\ k <= Len(t)
  BY LenProperties DEF IsPrefix
<1>2. \A i \in 1..Len(s) : s[i] = t[i]
  BY PrefixIs
<1> DEFINE m == Len(s) + 1
           rest == SubSeq(t, m, k)
<1>3. m \in Int /\ k \in Int /\ \A i \in m..k : t[i] \in S
  BY <1>1, ElementOfSeq
<1>4. /\ rest \in Seq(S) /\ Len(rest) = k - Len(s)
      /\ \A i \in 1..k - Len(s) : rest[i] = t[Len(s) + i]
  <2> HIDE DEF m
  <2>1. /\ rest \in Seq(S) /\ Len(rest) = IF m <= k THEN k - m + 1 ELSE 0
        /\ \A i \in 1..k - m + 1 : rest[i] = t[m + i - 1]
    BY <1>3, SubSeqProperties
  <2>2. k - m + 1 = k - Len(s) /\ (~ m <= k => k - Len(s) = 0)
    BY <1>1 DEF m
  <2>3. \A i \in 1..k - Len(s) : m + i - 1 = Len(s) + i
    BY <1>1 DEF m
  <2> HIDE DEF rest
  <2> QED BY <2>1, <2>2, <2>3
<1> HIDE DEF rest
<1>5. /\ r \in Seq(S) /\ Len(r) = k
      /\ \A i \in 1..k : r[i] = IF i <= Len(s) THEN s[i] ELSE rest[i - Len(s)]
  <2>1. r = s \o rest
    BY DEF rest
  <2>2. /\ s \o rest \in Seq(S) /\ Len(s \o rest) = Len(s) + Len(rest)
        /\ \A i \in 1..Len(s) + Len(rest) :
             (s \o rest)[i] = IF i <= Len(s) THEN s[i] ELSE rest[i - Len(s)]
    BY <1>4, ConcatProperties
  <2>3. Len(s) + Len(rest) = k
    BY <1>1, <1>4
  <2> QED BY <2>1, <2>2, <2>3
<1>6. \A i \in 1..k : r[i] = t[i]
  <2> TAKE i \in 1..k
  <2>1. CASE i <= Len(s)
    BY <1>1, <1>2, <1>5, <2>1
  <2>2. CASE ~ i <= Len(s)
    <3>1. i - Len(s) \in 1..k - Len(s) /\ Len(s) + (i - Len(s)) = i
      BY <1>1, <2>2
    <3> QED BY <1>4, <1>5, <2>2, <3>1
  <2> QED BY <2>1, <2>2
<1>7. \A i \in 1..k : t[i] \in S
  BY <1>1, ElementOfSeq
<1> DEFINE u == SubSeq(t, 1, k)
<1>8. u \in Seq(S) /\ Len(u) = k /\ \A i \in 1..k : u[i] = t[i]
  BY <1>1, <1>7, SubSeqProperties
<1> HIDE DEF u
<1>9. r = u
  <2>1. r \in Seq(S) /\ u \in Seq(S) /\ Len(r) = Len(u)
    BY <1>5, <1>8
  <2>2. \A i \in 1..Len(r) : r[i] = u[i]
    BY <1>5, <1>6, <1>8
  <2> QED BY <2>1, <2>2, SeqEqual
<1> QED BY <1>9 DEF u

LEMMA PrefixExtended ==
  ASSUME NEW S, NEW s \in Seq(S), NEW t \in Seq(S), IsPrefix(s, t),
         NEW k \in Len(s)..Len(t), NEW r, r = s \o SubSeq(t, Len(s) + 1, k)
  PROVE  r \in Seq(S) /\ IsPrefix(r, t)
<1>1. /\ Len(s) \in Nat /\ Len(t) \in Nat /\ k \in Nat /\ k <= Len(t)
      /\ \A i \in 1..k : t[i] \in S
  BY LenProperties, ElementOfSeq
<1>2. r = SubSeq(t, 1, k)
  BY PrefixExtendedIs
<1>3. r \in Seq(S) /\ Len(r) = k /\ \A i \in 1..k : r[i] = t[i]
  BY <1>1, <1>2, SubSeqProperties
<1> QED BY <1>1, <1>3, PrefixIs

LEMMA PrefixCompleted ==
  ASSUME NEW S, NEW s \in Seq(S), NEW t \in Seq(S), IsPrefix(s, t)
  PROVE  s \o SubSeq(t, Len(s) + 1, Len(t)) = t
<1>1. Len(t) \in Len(s)..Len(t)
  BY LenProperties DEF IsPrefix
<1>2. s \o SubSeq(t, Len(s) + 1, Len(t)) = SubSeq(t, 1, Len(t))
  BY <1>1, PrefixExtendedIs
<1> QED BY <1>2, SubSeqFull

(* An element at the end of what is appended.                              *)
LEMMA AppendConcat ==
  ASSUME NEW S, NEW s \in Seq(S), NEW t \in Seq(S), NEW e \in S
  PROVE  s \o Append(t, e) = Append(s \o t, e)
<1>1. <<e>> \in Seq(S) /\ s \o t \in Seq(S)
  BY ConcatProperties
<1>2. Append(t, e) = t \o <<e>>
  BY AppendIsConcat
<1>3. Append(s \o t, e) = (s \o t) \o <<e>>
  BY <1>1, AppendIsConcat
<1>4. s \o (t \o <<e>>) = (s \o t) \o <<e>>
  BY <1>1, ConcatAssociative
<1> QED BY <1>2, <1>3, <1>4

(* A set of numbers has a least one.                                       *)
LEMMA MinIs ==
  ASSUME NEW T, T \subseteq Nat, T # {}
  PROVE  Min(T) \in T /\ \A n \in T : Min(T) <= n
<1> DEFINE R == OpToRel(<, Nat)
<1>1. IsWellFoundedOn(R, Nat)
  BY NatLessThanWellFounded
<1>2. \A m, n \in Nat : m < n => <<m, n>> \in R
  BY DEF OpToRel
<1> HIDE DEF R
<1>3. PICK x \in T : \A y \in T : ~ (<<y, x>> \in R)
  BY <1>1, WFMin
<1>4. ASSUME NEW y \in T PROVE x <= y
  <2>1. ~ y < x
    BY <1>2, <1>3
  <2> QED BY <2>1
<1> QED BY <1>3, <1>4 DEF Min
LEMMA MaxIs ==
  ASSUME NEW n \in Nat, NEW T, T \subseteq 1..n, T # {}
  PROVE  Max(T) \in T /\ \A i \in T : i <= Max(T)
<1> DEFINE R == {n - t : t \in T}
           m == Min(R)
           x == n - m
<1>1. R \subseteq Nat /\ R # {}
  <2>1. \A t \in T : n - t \in Nat
    OBVIOUS
  <2>2. PICK t \in T : TRUE
    OBVIOUS
  <2>3. n - t \in R
    BY <2>2
  <2> QED BY <2>1, <2>3
<1>2. m \in R /\ \A i \in R : m <= i
  <2> HIDE DEF R
  <2> QED BY <1>1, MinIs
<1> HIDE DEF m
<1>3. x \in T
  <2>1. PICK t \in T : m = n - t
    BY <1>2
  <2>2. x = t
    BY <2>1
  <2> QED BY <2>2
<1>4. ASSUME NEW i \in T PROVE i <= x
  <2>1. m <= n - i /\ m \in Nat
    BY <1>1, <1>2
  <2> QED BY <2>1
<1> HIDE DEF x
<1>5. \A i \in T : x >= i
  BY <1>3, <1>4
<1>6. Max(T) \in T /\ \A i \in T : Max(T) >= i
  BY <1>3, <1>5, Zenon DEF Max
<1>7. \A i \in T : i \in Int
  OBVIOUS
<1> QED BY <1>6, <1>7

(* Min and Max are the only elements with their property.                  *)
LEMMA FirstOfAll ==
  ASSUME NEW T, T \subseteq Nat, NEW x \in T, \A y \in T : x <= y
  PROVE  Min(T) = x
<1>1. \A z \in T : (\A y \in T : z <= y) => z = x
  OBVIOUS
<1> QED BY <1>1 DEF Min

LEMMA LastOfAll ==
  ASSUME NEW T, T \subseteq Nat, NEW x \in T, \A y \in T : y <= x
  PROVE  Max(T) = x
<1>1. \A z \in T : (\A y \in T : z >= y) => z = x
  OBVIOUS
<1> QED BY <1>1 DEF Max
=============================================================================
