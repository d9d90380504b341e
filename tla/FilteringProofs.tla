--------------------------- MODULE FilteringProofs ---------------------------
(***************************************************************************)
(* Lemmas about Filtering.  The library states induction for an operator;  *)
(* SetInduction states it for a set of numbers, which follows from the     *)
(* numbers being well ordered.                                             *)
(***************************************************************************)
EXTENDS Filtering, Integers, SequenceTheorems, WellFoundedInduction, TLAPS

LEMMA LeastNumber ==
  ASSUME NEW T, T \subseteq Nat, T # {}
  PROVE  \E x \in T : \A y \in T : x <= y
<1> DEFINE R == OpToRel(<, Nat)
<1>1. IsWellFoundedOn(R, Nat)
  BY NatLessThanWellFounded
<1>2. \A x, y \in Nat : y < x => <<y, x>> \in R
  BY DEF OpToRel
<1> HIDE DEF R
<1>3. PICK x \in T : \A y \in T : ~(<<y, x>> \in R)
  BY <1>1, WFMin
<1>4. ASSUME NEW y \in T PROVE x <= y
  <2>1. ~(y < x)
    BY <1>2, <1>3
  <2> QED
    BY <2>1
<1> QED
  BY <1>4

LEMMA SetInduction ==
  ASSUME NEW T, 0 \in T, \A n \in Nat : n \in T => n + 1 \in T
  PROVE  Nat \subseteq T
<1> SUFFICES ASSUME Nat \ T # {} PROVE FALSE
  OBVIOUS
<1>1. PICK x \in Nat \ T : \A y \in Nat \ T : x <= y
  BY LeastNumber
<1>2. x - 1 \in Nat /\ x - 1 \in T
  BY <1>1
<1> QED
  BY <1>2, <1>1

-----------------------------------------------------------------------------
(* The recursive function in Only exists and computes what it says.        *)

\* g[i] is what a filter by S keeps of the first i elements, for i up to n.
Filters(g, seq, S, n) ==
  g = [i \in 0..n |-> IF i = 0 THEN << >>
                      ELSE IF seq[i] \in S THEN Append(g[i - 1], seq[i]) ELSE g[i - 1]]

LEMMA FiltersStep ==
  ASSUME NEW g, NEW seq, NEW S, NEW n \in Nat, Filters(g, seq, S, n)
  PROVE  /\ g[0] = << >>
         /\ \A i \in Nat : i + 1 <= n =>
              g[i + 1] = IF seq[i + 1] \in S THEN Append(g[i], seq[i + 1]) ELSE g[i]
<1>1. \A i \in 0..n : g[i] = IF i = 0 THEN << >>
                      ELSE IF seq[i] \in S THEN Append(g[i - 1], seq[i]) ELSE g[i - 1]
  BY DEF Filters
<1>2. ASSUME NEW i \in Nat, i + 1 <= n
      PROVE  g[i + 1] = IF seq[i + 1] \in S THEN Append(g[i], seq[i + 1]) ELSE g[i]
  <2>1. i + 1 \in 0..n /\ i + 1 # 0 /\ (i + 1) - 1 = i
    BY <1>2
  <2> QED
    BY <1>1, <2>1
<1> QED
  BY <1>1, <1>2

LEMMA FilterExists ==
  ASSUME NEW seq, NEW S
  PROVE  \A n \in Nat : \E g : Filters(g, seq, S, n)
<1> DEFINE T == {n \in Nat : \E g : Filters(g, seq, S, n)}
<1>1. 0 \in T
  <2>1. Filters([i \in 0..0 |-> << >>], seq, S, 0)
    BY DEF Filters
  <2> QED
    BY <2>1
<1>2. ASSUME NEW n \in Nat, n \in T PROVE n + 1 \in T
  <2>1. PICK g : Filters(g, seq, S, n)
    BY <1>2
  <2> DEFINE h == [i \in 0..(n + 1) |->
                     IF i <= n THEN g[i]
                     ELSE IF seq[i] \in S THEN Append(g[i - 1], seq[i]) ELSE g[i - 1]]
  <2>2. Filters(h, seq, S, n + 1)
    <3>1. \A i \in 0..n : h[i] = g[i]
      OBVIOUS
    <3>2. \A i \in 0..n : g[i] = IF i = 0 THEN << >>
                          ELSE IF seq[i] \in S THEN Append(g[i - 1], seq[i]) ELSE g[i - 1]
      BY <2>1 DEF Filters
    <3>3. ASSUME NEW i \in 0..(n + 1)
          PROVE  h[i] = IF i = 0 THEN << >>
                        ELSE IF seq[i] \in S THEN Append(h[i - 1], seq[i]) ELSE h[i - 1]
      <4>1. CASE i = n + 1
        BY <4>1, <3>1
      <4>2. CASE i \in 0..n
        <5>1. i # 0 => i - 1 \in 0..n
          BY <4>2
        <5> QED
          BY <5>1, <4>2, <3>1, <3>2
      <4> QED
        BY <4>1, <4>2
    <3>4. h = [i \in 0..(n + 1) |-> h[i]]
      OBVIOUS
    <3> HIDE DEF h
    <3> QED
      BY <3>3, <3>4 DEF Filters
  <2> QED
    BY <2>2
<1> HIDE DEF T
<1>3. Nat \subseteq T
  BY <1>1, <1>2, SetInduction
<1> QED
  BY <1>3 DEF T

LEMMA OnlyDef ==
  ASSUME NEW seq, Len(seq) \in Nat, NEW S
  PROVE  \E g : Filters(g, seq, S, Len(seq)) /\ Only(seq, S) = g[Len(seq)]
<1>1. \E g : Filters(g, seq, S, Len(seq))
  BY FilterExists
<1> DEFINE c == CHOOSE g : Filters(g, seq, S, Len(seq))
<1>2. Filters(c, seq, S, Len(seq))
  BY <1>1
<1>3. Only(seq, S) = c[Len(seq)]
  BY DEF Only, Filters
<1> QED
  BY <1>2, <1>3

-----------------------------------------------------------------------------
(* What the other proofs cite.                                             *)

LEMMA OnlyEmpty ==
  ASSUME NEW S
  PROVE  Only(<< >>, S) = << >>
<1>1. PICK g : Filters(g, << >>, S, Len(<< >>)) /\ Only(<< >>, S) = g[Len(<< >>)]
  BY OnlyDef
<1> QED
  BY <1>1, FiltersStep

\* Two filters agree as far as their sequences do.
LEMMA FiltersAgree ==
  ASSUME NEW S, NEW s, NEW t, NEW m \in Nat, NEW n \in Nat, m <= n, NEW g, NEW h,
         \A i \in 1..m : s[i] = t[i],
         Filters(g, s, S, m), Filters(h, t, S, n)
  PROVE  g[m] = h[m]
<1> DEFINE D == {i \in Nat : i <= m => g[i] = h[i]}
<1>1. 0 \in D
  BY FiltersStep
<1>2. ASSUME NEW i \in Nat, i \in D PROVE i + 1 \in D
  <2> SUFFICES ASSUME i + 1 <= m PROVE g[i + 1] = h[i + 1]
    OBVIOUS
  <2>1. t[i + 1] = s[i + 1] /\ g[i] = h[i] /\ i + 1 <= n
    BY <1>2
  <2>2. g[i + 1] = IF s[i + 1] \in S THEN Append(g[i], s[i + 1]) ELSE g[i]
    BY FiltersStep
  <2>3. h[i + 1] = IF t[i + 1] \in S THEN Append(h[i], t[i + 1]) ELSE h[i]
    BY FiltersStep, <2>1
  <2> QED
    BY <2>1, <2>2, <2>3
<1> HIDE DEF D
<1>3. Nat \subseteq D
  BY <1>1, <1>2, SetInduction
<1> QED
  BY <1>3 DEF D

LEMMA OnlyAppend ==
  ASSUME NEW S, NEW T, NEW s \in Seq(T), NEW e \in T
  PROVE  Only(Append(s, e), S) = IF e \in S THEN Append(Only(s, S), e) ELSE Only(s, S)
<1> DEFINE n == Len(s)
           t == Append(s, e)
<1>1. /\ n \in Nat /\ Len(t) = n + 1 /\ t[n + 1] = e
      /\ \A i \in 1..n : s[i] = t[i]
  OBVIOUS
<1> HIDE DEF n, t
<1>2. PICK g : Filters(g, s, S, n) /\ Only(s, S) = g[n]
  BY OnlyDef, <1>1 DEF n
<1>3. PICK h : Filters(h, t, S, n + 1) /\ Only(t, S) = h[n + 1]
  BY OnlyDef, <1>1
<1>4. g[n] = h[n]
  BY <1>1, <1>2, <1>3, FiltersAgree
<1>5. h[n + 1] = IF t[n + 1] \in S THEN Append(h[n], t[n + 1]) ELSE h[n]
  BY <1>3, <1>1, FiltersStep
<1> QED
  BY <1>1, <1>2, <1>3, <1>4, <1>5 DEF t

LEMMA OnlyType ==
  ASSUME NEW S, NEW T, NEW s \in Seq(T)
  PROVE  Only(s, S) \in Seq(T \cap S)
<1>1. PICK g : Filters(g, s, S, Len(s)) /\ Only(s, S) = g[Len(s)]
  BY OnlyDef
<1> DEFINE D == {i \in Nat : i <= Len(s) => g[i] \in Seq(T \cap S)}
<1>2. 0 \in D
  <2>1. g[0] = << >>
    BY <1>1, FiltersStep
  <2>2. << >> \in Seq(T \cap S)
    OBVIOUS
  <2> QED
    BY <2>1, <2>2
<1>3. ASSUME NEW i \in Nat, i \in D PROVE i + 1 \in D
  <2> SUFFICES ASSUME i + 1 <= Len(s) PROVE g[i + 1] \in Seq(T \cap S)
    OBVIOUS
  <2>1. g[i] \in Seq(T \cap S) /\ s[i + 1] \in T
    BY <1>3
  <2>2. g[i + 1] = IF s[i + 1] \in S THEN Append(g[i], s[i + 1]) ELSE g[i]
    BY <1>1, FiltersStep
  <2> QED
    BY <2>1, <2>2
<1> HIDE DEF D
<1>4. Nat \subseteq D
  BY <1>2, <1>3, SetInduction
<1> QED
  BY <1>1, <1>4 DEF D

LEMMA RangeAppend ==
  ASSUME NEW T, NEW s \in Seq(T), NEW e \in T
  PROVE  Range(Append(s, e)) = Range(s) \cup {e}
<1>1. /\ DOMAIN Append(s, e) = 1..(Len(s) + 1) /\ DOMAIN s = 1..Len(s) /\ Len(s) \in Nat
      /\ Append(s, e)[Len(s) + 1] = e
      /\ \A i \in 1..Len(s) : Append(s, e)[i] = s[i]
  OBVIOUS
<1> QED
  BY <1>1 DEF Range

\* The filter keeps exactly the members of S.
LEMMA OnlyMembers ==
  ASSUME NEW S, NEW T, NEW s \in Seq(T)
  PROVE  Range(Only(s, S)) = Range(s) \cap S
<1>1. PICK g : Filters(g, s, S, Len(s)) /\ Only(s, S) = g[Len(s)]
  BY OnlyDef
<1> DEFINE Firsts(n) == {s[i] : i \in 1..n}
           D == {n \in Nat : n <= Len(s) => g[n] \in Seq(T) /\ Range(g[n]) = Firsts(n) \cap S}
<1>2. 0 \in D
  <2>1. g[0] = << >>
    BY <1>1, FiltersStep
  <2>2. Range(g[0]) = {} /\ Firsts(0) = {} /\ g[0] \in Seq(T)
    BY <2>1 DEF Range
  <2> HIDE DEF Firsts
  <2> QED
    BY <2>2
<1>3. ASSUME NEW n \in Nat, n \in D PROVE n + 1 \in D
  <2> SUFFICES ASSUME n + 1 <= Len(s)
               PROVE  g[n + 1] \in Seq(T) /\ Range(g[n + 1]) = Firsts(n + 1) \cap S
    OBVIOUS
  <2>1. g[n] \in Seq(T) /\ s[n + 1] \in T /\ Range(g[n]) = Firsts(n) \cap S
    BY <1>3
  <2>2. g[n + 1] = IF s[n + 1] \in S THEN Append(g[n], s[n + 1]) ELSE g[n]
    BY <1>1, FiltersStep
  <2>3. Firsts(n + 1) = Firsts(n) \cup {s[n + 1]}
    OBVIOUS
  <2> HIDE DEF Firsts
  <2>4. CASE s[n + 1] \notin S
    BY <2>1, <2>2, <2>3, <2>4
  <2>5. CASE s[n + 1] \in S
    BY <2>1, <2>2, <2>3, <2>5, RangeAppend
  <2> QED
    BY <2>4, <2>5
<1> HIDE DEF D
<1>4. Nat \subseteq D
  BY <1>2, <1>3, SetInduction
<1>5. Range(s) = Firsts(Len(s)) /\ Len(s) \in Nat
  BY DEF Range
<1> HIDE DEF Firsts
<1> QED
  BY <1>1, <1>4, <1>5 DEF D

\* What is kept of the beginning of a sequence comes first in what is kept of
\* the sequence.
LEMMA OnlyBegins ==
  ASSUME NEW S, NEW T, NEW s \in Seq(T), NEW t \in Seq(T), Len(s) <= Len(t),
         \A i \in 1..Len(s) : s[i] = t[i]
  PROVE  /\ Len(Only(s, S)) <= Len(Only(t, S))
         /\ \A i \in 1..Len(Only(s, S)) : Only(s, S)[i] = Only(t, S)[i]
<1> DEFINE m == Len(s)
           n == Len(t)
<1>1. m \in Nat /\ n \in Nat /\ m <= n /\ (\A i \in 1..n : t[i] \in T) /\ \A i \in 1..m : s[i] = t[i]
  OBVIOUS
<1>2. PICK g : Filters(g, s, S, m) /\ Only(s, S) = g[m]
  BY OnlyDef
<1>3. PICK h : Filters(h, t, S, n) /\ Only(t, S) = h[n]
  BY OnlyDef
<1> HIDE DEF m, n
<1>4. g[m] = h[m]
  BY <1>1, <1>2, <1>3, FiltersAgree
<1>5. Only(s, S) \in Seq(T)
  <2>1. Only(s, S) \in Seq(T \cap S)
    BY OnlyType
  <2> QED
    BY <2>1
<1> DEFINE Continues(u) == u \in Seq(T) /\ Len(h[m]) <= Len(u) /\ \A j \in 1..Len(h[m]) : h[m][j] = u[j]
           D == {i \in Nat : m + i <= n => Continues(h[m + i])}
<1>6. 0 \in D
  <2>1. Continues(h[m])
    BY <1>2, <1>4, <1>5
  <2> HIDE DEF Continues
  <2>2. m + 0 = m
    BY <1>1
  <2> QED
    BY <2>1, <2>2
<1>7. ASSUME NEW i \in Nat, i \in D PROVE i + 1 \in D
  <2> SUFFICES ASSUME m + (i + 1) <= n PROVE Continues(h[m + (i + 1)])
    OBVIOUS
  <2>1. m + i \in Nat /\ (m + i) + 1 = m + (i + 1) /\ (m + i) + 1 <= n /\ (m + i) + 1 \in 1..n
    BY <1>1
  <2> HIDE DEF Continues
  <2>2. Continues(h[m + i]) /\ t[m + (i + 1)] \in T
    BY <1>1, <1>7, <2>1
  <2>3. h[m + (i + 1)] = IF t[m + (i + 1)] \in S THEN Append(h[m + i], t[m + (i + 1)]) ELSE h[m + i]
    BY <1>1, <1>3, <2>1, FiltersStep
  <2>4. ASSUME NEW u, Continues(u), NEW e \in T PROVE Continues(Append(u, e))
    <3>1. u \in Seq(T) /\ Len(h[m]) <= Len(u) /\ (\A j \in 1..Len(h[m]) : h[m][j] = u[j])
          /\ Len(h[m]) \in Nat
      BY <1>2, <1>4, <1>5, <2>4 DEF Continues
    <3>2. Append(u, e) \in Seq(T) /\ Len(Append(u, e)) = Len(u) + 1
          /\ \A j \in 1..Len(u) : Append(u, e)[j] = u[j]
      BY <3>1
    <3>3. \A j \in 1..Len(h[m]) : j \in 1..Len(u)
      BY <3>1
    <3> QED
      BY <3>1, <3>2, <3>3 DEF Continues
  <2> QED
    BY <2>2, <2>3, <2>4
<1> HIDE DEF D
<1>8. n - m \in Nat /\ m + (n - m) = n
  BY <1>1
<1>9. Nat \subseteq D
  BY <1>6, <1>7, SetInduction
<1>10. Continues(h[n])
  <2>1. n - m \in D
    BY <1>8, <1>9
  <2> HIDE DEF Continues
  <2>2. m + (n - m) <= n => Continues(h[m + (n - m)])
    BY <2>1 DEF D
  <2>3. m + (n - m) <= n
    BY <1>1, <1>8
  <2> QED
    BY <1>8, <2>2, <2>3
<1> QED
  BY <1>2, <1>3, <1>4, <1>10

\* A first element that is not in S makes no difference.
LEMMA OnlySkips ==
  ASSUME NEW S, NEW T, NEW s \in Seq(T), NEW e \in T, e \notin S
  PROVE  Only(<<e>> \o s, S) = Only(s, S)
<1> DEFINE n == Len(s)
           t == <<e>> \o s
<1>1. /\ n \in Nat /\ Len(t) = n + 1 /\ t[1] = e
      /\ \A i \in 1..n : t[i + 1] = s[i]
  OBVIOUS
<1> HIDE DEF n, t
<1>2. PICK g : Filters(g, s, S, n) /\ Only(s, S) = g[n]
  BY OnlyDef, <1>1 DEF n
<1>3. PICK h : Filters(h, t, S, n + 1) /\ Only(t, S) = h[n + 1]
  BY OnlyDef, <1>1
<1> DEFINE D == {i \in Nat : i <= n => h[i + 1] = g[i]}
<1>4. 0 \in D
  <2>1. h[0] = << >> /\ g[0] = << >>
    BY <1>1, <1>2, <1>3, FiltersStep
  <2>2. h[0 + 1] = IF t[0 + 1] \in S THEN Append(h[0], t[0 + 1]) ELSE h[0]
    BY <1>1, <1>3, FiltersStep
  <2> QED
    BY <1>1, <2>1, <2>2
<1>5. ASSUME NEW i \in Nat, i \in D PROVE i + 1 \in D
  <2> SUFFICES ASSUME i + 1 <= n PROVE h[(i + 1) + 1] = g[i + 1]
    OBVIOUS
  <2>1. t[(i + 1) + 1] = s[i + 1] /\ h[i + 1] = g[i]
    BY <1>1, <1>5
  <2>2. g[i + 1] = IF s[i + 1] \in S THEN Append(g[i], s[i + 1]) ELSE g[i]
    BY <1>1, <1>2, FiltersStep
  <2>3. (i + 1) + 1 <= n + 1
    BY <1>1
  <2>4. h[(i + 1) + 1] = IF t[(i + 1) + 1] \in S THEN Append(h[i + 1], t[(i + 1) + 1]) ELSE h[i + 1]
    BY <1>1, <1>3, <2>3, FiltersStep
  <2> QED
    BY <2>1, <2>2, <2>4
<1> HIDE DEF D
<1>6. Nat \subseteq D
  BY <1>4, <1>5, SetInduction
<1> QED
  BY <1>1, <1>2, <1>3, <1>6 DEF D, t
=============================================================================
