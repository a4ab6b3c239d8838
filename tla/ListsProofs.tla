---------------------------- MODULE ListsProofs ----------------------------
(***************************************************************************)
(* What Lists.Without and Lists.Only keep, and in which order.  Induction  *)
(* over the length of a list is to rule out a least counterexample.        *)
(***************************************************************************)
EXTENDS Lists, TLAPS, FiniteSetTheorems, SequenceTheorems, WellFoundedInduction

(* A set of numbers has a least one.                                         *)
LEMMA LeastNumber ==
  ASSUME NEW T \in SUBSET Nat, T # {}
  PROVE  \E n \in T : \A k \in T : n <= k
<1>1. PICK n \in T : \A k \in T : ~(<<k, n>> \in OpToRel(<, Nat))
  BY WFMin, NatLessThanWellFounded, Zenon
<1>2. ASSUME NEW k \in T, k < n
      PROVE  FALSE
  <2>1. <<k, n>> \in OpToRel(<, Nat)
    BY <1>2, Zenon DEF OpToRel
  <2> QED BY <1>1, <2>1, Zenon
<1> QED BY <1>2

----------------------------------------------------------------------------
(* Lists.Without.                                                            *)

(* f[i] is what is kept of the first i elements, for i up to n.              *)
Keeps(s, dropped, n, f) ==
  f = [i \in 0..n |-> IF i = 0 THEN <<>>
                      ELSE IF i \in dropped THEN f[i - 1]
                      ELSE Append(f[i - 1], s[i])]

(* There is such a function: what the definition of Without computes.        *)
LEMMA KeptExists ==
  ASSUME NEW s, NEW dropped, NEW n \in Nat
  PROVE  \E f : Keeps(s, dropped, n, f)
<1> DEFINE T == {k \in Nat : ~\E f : Keeps(s, dropped, k, f)}
<1>1. SUFFICES ASSUME T # {} PROVE FALSE
  OBVIOUS
<1>2. PICK k \in T : \A j \in T : k <= j
  BY <1>1, LeastNumber
<1>3. CASE k = 0
  <2> DEFINE g == [i \in 0..0 |-> <<>>]
  <2>1. g = [i \in 0..0 |-> IF i = 0 THEN <<>>
                            ELSE IF i \in dropped THEN g[i - 1] ELSE Append(g[i - 1], s[i])]
    OBVIOUS
  <2>2. Keeps(s, dropped, k, g)
    BY <1>3, <2>1 DEF Keeps
  <2> QED BY <2>2
<1>4. CASE k # 0
  <2>1. k - 1 \in Nat /\ k - 1 \notin T
    BY <1>2, <1>4
  <2>2. PICK f : Keeps(s, dropped, k - 1, f)
    BY <2>1
  <2> DEFINE last == IF k \in dropped THEN f[k - 1] ELSE Append(f[k - 1], s[k])
             g == [i \in 0..k |-> IF i = k THEN last ELSE f[i]]
  <2>3. \A i \in 0..(k - 1) : f[i] = IF i = 0 THEN <<>>
                                     ELSE IF i \in dropped THEN f[i - 1]
                                     ELSE Append(f[i - 1], s[i])
    BY <2>1, <2>2 DEF Keeps
  <2>4. \A i \in 0..k : g[i] = IF i = 0 THEN <<>>
                               ELSE IF i \in dropped THEN g[i - 1]
                               ELSE Append(g[i - 1], s[i])
    BY <1>4, <2>1, <2>3
  <2>5. g = [i \in 0..k |-> g[i]]
    OBVIOUS
  <2> HIDE DEF g
  <2>6. Keeps(s, dropped, k, g)
    BY <2>4, <2>5 DEF Keeps
  <2> QED BY <2>6
<1> QED BY <1>3, <1>4

(* r are elements of s, in their order: one for each index up to n that is   *)
(* not dropped.                                                              *)
IsSelection(s, dropped, n, r) ==
  \E g \in [1..Len(r) -> (1..n) \ dropped] :
    /\ \A j, k \in 1..Len(r) : j < k => g[j] < g[k]
    /\ \A i \in (1..n) \ dropped : \E k \in 1..Len(r) : g[k] = i
    /\ \A k \in 1..Len(r) : r[k] = s[g[k]]

(* One element more.                                                         *)
LEMMA SelectsMore ==
  ASSUME NEW S, NEW s \in Seq(S), NEW dropped, NEW n \in Nat, n + 1 <= Len(s),
         NEW r \in Seq(S), IsSelection(s, dropped, n, r)
  PROVE  /\ n + 1 \in dropped => IsSelection(s, dropped, n + 1, r)
         /\ n + 1 \notin dropped => /\ Append(r, s[n + 1]) \in Seq(S)
                                    /\ IsSelection(s, dropped, n + 1, Append(r, s[n + 1]))
<1>1. PICK g \in [1..Len(r) -> (1..n) \ dropped] :
        /\ \A j, k \in 1..Len(r) : j < k => g[j] < g[k]
        /\ \A i \in (1..n) \ dropped : \E k \in 1..Len(r) : g[k] = i
        /\ \A k \in 1..Len(r) : r[k] = s[g[k]]
  BY DEF IsSelection
<1>2. CASE n + 1 \in dropped
  <2>1. (1..(n + 1)) \ dropped = (1..n) \ dropped
    BY <1>2
  <2> QED BY <1>1, <1>2, <2>1 DEF IsSelection
<1>3. CASE n + 1 \notin dropped
  <2> DEFINE m == Len(r)
             r2 == Append(r, s[n + 1])
             g2 == [k \in 1..(m + 1) |-> IF k = m + 1 THEN n + 1 ELSE g[k]]
  <2>1. m \in Nat /\ s[n + 1] \in S
    BY LenProperties, ElementOfSeq
  <2>2. /\ r2 \in Seq(S) /\ Len(r2) = m + 1
        /\ \A k \in 1..m : r2[k] = r[k]
        /\ r2[m + 1] = s[n + 1]
    BY <2>1, AppendProperties
  <2> HIDE DEF m, r2
  <2>3. (1..(n + 1)) \ dropped = ((1..n) \ dropped) \cup {n + 1}
    BY <1>3
  <2>4. g \in [1..m -> (1..n) \ dropped]
    BY DEF m
  <2>5. g2 \in [1..(m + 1) -> (1..(n + 1)) \ dropped]
    BY <2>1, <2>3, <2>4
  <2>6. /\ \A k \in 1..m : k \in 1..(m + 1) /\ k # m + 1 /\ g2[k] = g[k] /\ g[k] \in 1..n
        /\ m + 1 \in 1..(m + 1) /\ g2[m + 1] = n + 1
        /\ \A k \in 1..(m + 1) : k \in 1..m \/ k = m + 1
    BY <2>1, <2>4
  <2> HIDE DEF g2
  <2>7. \A j, k \in 1..(m + 1) : j < k => g2[j] < g2[k]
    <3> SUFFICES ASSUME NEW j \in 1..(m + 1), NEW k \in 1..(m + 1), j < k
                 PROVE  g2[j] < g2[k]
      OBVIOUS
    <3>1. CASE j \in 1..m /\ k \in 1..m
      BY <1>1, <2>6, <3>1 DEF m
    <3>2. CASE j = m + 1 \/ k = m + 1
      <4>1. \A i \in 1..m : g2[i] # n + 1
        BY <2>6
      <4> QED BY <2>6, <3>2, <4>1
    <3> QED BY <2>6, <3>1, <3>2
  <2>8. \A i \in (1..(n + 1)) \ dropped : \E k \in 1..(m + 1) : g2[k] = i
    BY <1>1, <2>3, <2>6 DEF m
  <2>9. \A k \in 1..(m + 1) : r2[k] = s[g2[k]]
    BY <1>1, <2>2, <2>6 DEF m
  <2>10. IsSelection(s, dropped, n + 1, r2)
    <3> DEFINE D == 1..Len(r2)
    <3>1. D = 1..(m + 1)
      BY <2>2
    <3> HIDE DEF D
    <3>2. /\ g2 \in [D -> (1..(n + 1)) \ dropped]
          /\ \A j, k \in D : j < k => g2[j] < g2[k]
          /\ \A i \in (1..(n + 1)) \ dropped : \E k \in D : g2[k] = i
          /\ \A k \in D : r2[k] = s[g2[k]]
      BY <2>5, <2>7, <2>8, <2>9, <3>1
    <3> QED BY <3>2 DEF IsSelection, D
  <2> QED BY <1>3, <2>2, <2>10 DEF r2
<1> QED BY <1>2, <1>3

(* Without(s, dropped) are the elements of s that are not dropped.           *)
LEMMA WithoutSelects ==
  ASSUME NEW S, NEW s \in Seq(S), NEW dropped
  PROVE  /\ Without(s, dropped) \in Seq(S)
         /\ IsSelection(s, dropped, Len(s), Without(s, dropped))
<1> DEFINE f == CHOOSE g : Keeps(s, dropped, Len(s), g)
           OK(k) == f[k] \in Seq(S) /\ IsSelection(s, dropped, k, f[k])
           T == {k \in Nat : k <= Len(s) /\ ~OK(k)}
<1>1. Len(s) \in Nat
  BY LenProperties
<1>2. Keeps(s, dropped, Len(s), f)
  BY <1>1, KeptExists
<1>3. Without(s, dropped) = f[Len(s)]
  BY DEF Without, Keeps
<1> HIDE DEF f
<1>4. \A i \in 0..Len(s) : f[i] = IF i = 0 THEN <<>>
                                  ELSE IF i \in dropped THEN f[i - 1]
                                  ELSE Append(f[i - 1], s[i])
  BY <1>2 DEF Keeps
<1>5. ASSUME T # {}
      PROVE  FALSE
  <2>1. PICK k \in T : \A j \in T : k <= j
    BY <1>5, LeastNumber
  <2>2. CASE k = 0
    <3>1. f[k] = <<>>
      BY <1>1, <1>4, <2>2
    <3>2. Len(f[k]) = 0 /\ f[k] \in Seq(S)
      BY <3>1, EmptySeq
    <3>3. IsSelection(s, dropped, k, f[k])
      <4>1. (1..k) \ dropped = {} /\ 1..Len(f[k]) = {}
        BY <2>2, <3>2
      <4> DEFINE g == [i \in {} |-> i]
      <4>2. g \in [{} -> {}]
        OBVIOUS
      <4> HIDE DEF g
      <4> QED BY <4>1, <4>2 DEF IsSelection
    <3> QED BY <2>1, <3>2, <3>3
  <2>3. CASE k # 0
    <3>1. k - 1 \in Nat /\ k - 1 < Len(s) /\ k - 1 \notin T
      BY <1>1, <2>1, <2>3
    <3>2. OK(k - 1)
      BY <3>1, <1>1
    <3>3. f[k] = IF k \in dropped THEN f[k - 1] ELSE Append(f[k - 1], s[k])
      BY <1>1, <1>4, <2>1, <2>3
    <3> DEFINE n == k - 1
               r == f[n]
    <3>4. n \in Nat /\ n + 1 = k /\ n + 1 <= Len(s)
      BY <1>1, <3>1
    <3>5. r \in Seq(S) /\ IsSelection(s, dropped, n, r)
      BY <3>2
    <3>6. f[k] = IF n + 1 \in dropped THEN r ELSE Append(r, s[n + 1])
      BY <3>3, <3>4
    <3> HIDE DEF n, r
    <3>7. f[k] \in Seq(S) /\ IsSelection(s, dropped, n + 1, f[k])
      BY <3>4, <3>5, <3>6, SelectsMore
    <3> QED BY <2>1, <3>4, <3>7
  <2> QED BY <2>2, <2>3
<1>6. OK(Len(s))
  BY <1>1, <1>5
<1> QED BY <1>3, <1>6

(* So no element is left of those dropped, and none is lost of the others;   *)
(* what differs in s still differs.                                          *)
LEMMA WithoutElements ==
  ASSUME NEW S, NEW s \in Seq(S), NEW dropped
  PROVE  LET r == Without(s, dropped)
         IN  /\ r \in Seq(S)
             /\ \A k \in DOMAIN r : \E i \in DOMAIN s \ dropped : r[k] = s[i]
             /\ \A i \in DOMAIN s \ dropped : \E k \in DOMAIN r : r[k] = s[i]
             /\ \A j, k \in DOMAIN r : j # k =>
                  \E i, h \in DOMAIN s \ dropped : i # h /\ r[j] = s[i] /\ r[k] = s[h]
<1> DEFINE r == Without(s, dropped)
<1>1. r \in Seq(S) /\ IsSelection(s, dropped, Len(s), r)
  BY WithoutSelects
<1>2. DOMAIN r = 1..Len(r) /\ DOMAIN s = 1..Len(s)
  BY <1>1, LenProperties
<1> HIDE DEF r
<1>3. PICK g \in [1..Len(r) -> (1..Len(s)) \ dropped] :
        /\ \A j, k \in 1..Len(r) : j < k => g[j] < g[k]
        /\ \A i \in (1..Len(s)) \ dropped : \E k \in 1..Len(r) : g[k] = i
        /\ \A k \in 1..Len(r) : r[k] = s[g[k]]
  BY <1>1 DEF IsSelection
<1>4. \A k \in DOMAIN r : \E i \in DOMAIN s \ dropped : r[k] = s[i]
  BY <1>2, <1>3
<1>5. \A i \in DOMAIN s \ dropped : \E k \in DOMAIN r : r[k] = s[i]
  BY <1>2, <1>3
<1>6. \A j, k \in DOMAIN r : j # k =>
        \E i, h \in DOMAIN s \ dropped : i # h /\ r[j] = s[i] /\ r[k] = s[h]
  BY <1>2, <1>3
<1> QED BY <1>1, <1>4, <1>5, <1>6 DEF r

(* The elements of a sequence are finitely many.                             *)
LEMMA ElementsFinite ==
  ASSUME NEW S, NEW s \in Seq(S)
  PROVE  IsFiniteSet(Range(s))
<1> DEFINE f == [i \in 1..Len(s) |-> s[i]]
<1>1. Len(s) \in Nat /\ DOMAIN s = 1..Len(s)
  BY LenProperties
<1>2. f \in Surjection(1..Len(s), Range(s))
  BY <1>1 DEF Surjection, Range
<1>3. IsFiniteSet(1..Len(s))
  BY <1>1, FS_Interval
<1> QED BY <1>2, <1>3, FS_Surjection

----------------------------------------------------------------------------
(* Order.                                                                    *)

(* The elements of a list are related by R, each to all that come after it.  *)
InOrderOf(R, s) == \A i, j \in DOMAIN s : i < j => <<s[i], s[j]>> \in R

(* Only(s, kept) in terms of the indices that it keeps.                      *)
LEMMA OnlySelects ==
  ASSUME NEW S, NEW s \in Seq(S), NEW kept
  PROVE  /\ Only(s, kept) \in Seq(S)
         /\ IsSelection(s, DOMAIN s \ kept, Len(s), Only(s, kept))
  BY WithoutSelects DEF Only

(* A list of the elements at the kept indices has those elements, and they   *)
(* are in their order.                                                       *)
LEMMA SelectedElements ==
  ASSUME NEW S, NEW s \in Seq(S), NEW kept, NEW r \in Seq(S),
         IsSelection(s, DOMAIN s \ kept, Len(s), r)
  PROVE  /\ \A k \in DOMAIN r : \E i \in DOMAIN s \cap kept : r[k] = s[i]
         /\ \A i \in DOMAIN s \cap kept : \E k \in DOMAIN r : r[k] = s[i]
         /\ \A R : InOrderOf(R, s) => InOrderOf(R, r)
<1>1. DOMAIN r = 1..Len(r) /\ DOMAIN s = 1..Len(s)
  BY LenProperties
<1>2. (1..Len(s)) \ (DOMAIN s \ kept) = DOMAIN s \cap kept
  BY <1>1
<1>3. PICK g \in [1..Len(r) -> DOMAIN s \cap kept] :
        /\ \A j, k \in 1..Len(r) : j < k => g[j] < g[k]
        /\ \A i \in DOMAIN s \cap kept : \E k \in 1..Len(r) : g[k] = i
        /\ \A k \in 1..Len(r) : r[k] = s[g[k]]
  BY <1>2 DEF IsSelection
<1>4. ASSUME NEW R, InOrderOf(R, s)
      PROVE  InOrderOf(R, r)
  BY <1>1, <1>3, <1>4 DEF InOrderOf
<1>5. \A k \in DOMAIN r : \E i \in DOMAIN s \cap kept : r[k] = s[i]
  BY <1>1, <1>3
<1>6. ASSUME NEW i \in DOMAIN s \cap kept
      PROVE  \E k \in DOMAIN r : r[k] = s[i]
  <2>1. PICK k \in 1..Len(r) : g[k] = i
    BY <1>3
  <2>2. k \in DOMAIN r /\ r[k] = s[i]
    BY <1>1, <1>3, <2>1
  <2> QED BY <2>2
<1> QED BY <1>4, <1>5, <1>6

LEMMA OnlyElements ==
  ASSUME NEW S, NEW s \in Seq(S), NEW kept
  PROVE  LET r == Only(s, kept)
         IN  /\ r \in Seq(S)
             /\ \A k \in DOMAIN r : \E i \in DOMAIN s \cap kept : r[k] = s[i]
             /\ \A i \in DOMAIN s \cap kept : \E k \in DOMAIN r : r[k] = s[i]
             /\ \A R : InOrderOf(R, s) => InOrderOf(R, r)
<1> DEFINE r == Only(s, kept)
<1>1. r \in Seq(S) /\ IsSelection(s, DOMAIN s \ kept, Len(s), r)
  BY OnlySelects
<1> HIDE DEF r
<1>2. /\ \A k \in DOMAIN r : \E i \in DOMAIN s \cap kept : r[k] = s[i]
      /\ \A i \in DOMAIN s \cap kept : \E k \in DOMAIN r : r[k] = s[i]
      /\ \A R : InOrderOf(R, s) => InOrderOf(R, r)
  BY <1>1, SelectedElements
<1> QED BY <1>1, <1>2 DEF r

(* g numbers the elements of K in their order.                               *)
Enumerates(g, n, K) ==
  /\ g \in [1..n -> K]
  /\ \A j, k \in 1..n : j < k => g[j] < g[k]
  /\ \A i \in K : \E k \in 1..n : g[k] = i

(* There is one way to do so: up to the length of the first,                 *)
LEMMA EnumerationsAgree ==
  ASSUME NEW K \in SUBSET Nat, NEW m \in Nat, NEW n \in Nat, NEW g, NEW h,
         Enumerates(g, m, K), Enumerates(h, n, K)
  PROVE  \A k \in 1..m : k <= n /\ g[k] = h[k]
<1> DEFINE T == {k \in Nat : k \in 1..m /\ ~(k <= n /\ g[k] = h[k])}
<1>1. SUFFICES ASSUME T # {} PROVE FALSE
  OBVIOUS
<1>2. PICK k \in T : \A j \in T : k <= j
  BY <1>1, LeastNumber
<1>3. \A j \in 1..(k - 1) : j \in 1..m /\ j <= n /\ g[j] = h[j]
  BY <1>2
<1>4. g[k] \in K /\ g[k] \in Nat
  BY <1>2 DEF Enumerates
<1>5. PICK i \in 1..n : h[i] = g[k]
  BY <1>4 DEF Enumerates
<1>6. ~(i < k)
  <2>1. ASSUME i < k
        PROVE  FALSE
    <3>1. i \in 1..m /\ g[i] = h[i]
      BY <1>2, <1>3, <2>1
    <3>2. g[i] < g[k]
      BY <1>2, <2>1, <3>1 DEF Enumerates
    <3> QED BY <1>4, <1>5, <3>1, <3>2
  <2> QED BY <2>1
<1>7. k \in 1..n /\ i # k /\ k < i
  BY <1>2, <1>5, <1>6
<1>8. h[k] < g[k] /\ h[k] \in K /\ h[k] \in Nat
  BY <1>5, <1>7 DEF Enumerates
<1>9. PICK j \in 1..m : g[j] = h[k]
  BY <1>8 DEF Enumerates
<1>10. j < k
  <2>1. ASSUME k < j
        PROVE  FALSE
    <3>1. g[k] < g[j]
      BY <1>2, <2>1 DEF Enumerates
    <3> QED BY <1>4, <1>8, <1>9, <3>1
  <2>2. j # k
    BY <1>4, <1>8, <1>9
  <2> QED BY <1>2, <2>1, <2>2
<1>11. g[j] = h[j] /\ j \in 1..n
  BY <1>2, <1>3, <1>10
<1>12. h[j] < h[k]
  BY <1>7, <1>10, <1>11 DEF Enumerates
<1> QED BY <1>8, <1>9, <1>11, <1>12

(* and so altogether.                                                        *)
LEMMA OneEnumeration ==
  ASSUME NEW K \in SUBSET Nat, NEW m \in Nat, NEW n \in Nat, NEW g, NEW h,
         Enumerates(g, m, K), Enumerates(h, n, K)
  PROVE  m = n /\ \A k \in 1..m : g[k] = h[k]
<1>1. /\ \A k \in 1..m : k <= n /\ g[k] = h[k]
      /\ \A k \in 1..n : k <= m /\ h[k] = g[k]
  BY EnumerationsAgree
<1>2. ~(m < n) /\ ~(n < m)
  <2>1. m < n => n \in 1..n
    OBVIOUS
  <2>2. n < m => m \in 1..m
    OBVIOUS
  <2> QED BY <1>1, <2>1, <2>2
<1> QED BY <1>1, <1>2

(* So a list is known by the indices that it keeps.                          *)
LEMMA SelectionIsOnly ==
  ASSUME NEW S, NEW s \in Seq(S), NEW kept, NEW r \in Seq(S),
         IsSelection(s, DOMAIN s \ kept, Len(s), r)
  PROVE  r = Only(s, kept)
<1> DEFINE o == Only(s, kept)
           K == (1..Len(s)) \ (DOMAIN s \ kept)
<1>1. o \in Seq(S) /\ IsSelection(s, DOMAIN s \ kept, Len(s), o)
  BY OnlySelects
<1> HIDE DEF o
<1>2. Len(r) \in Nat /\ Len(o) \in Nat /\ K \in SUBSET Nat
  BY <1>1, LenProperties
<1>3. PICK g : Enumerates(g, Len(r), K) /\ \A k \in 1..Len(r) : r[k] = s[g[k]]
  BY DEF IsSelection, Enumerates
<1>4. PICK h : Enumerates(h, Len(o), K) /\ \A k \in 1..Len(o) : o[k] = s[h[k]]
  BY <1>1 DEF IsSelection, Enumerates
<1> HIDE DEF K
<1>5. Len(r) = Len(o) /\ \A k \in 1..Len(r) : g[k] = h[k]
  BY <1>2, <1>3, <1>4, OneEnumeration
<1>6. \A k \in 1..Len(r) : r[k] = o[k]
  BY <1>3, <1>4, <1>5
<1> QED BY <1>1, <1>5, <1>6, SeqEqual DEF o

(* The same indices of two lists: the k-th of them is the same.              *)
SamePlaces(s, u, kept) ==
  /\ Len(Only(s, kept)) = Len(Only(u, kept))
  /\ \A k \in 1..Len(Only(s, kept)) :
       \E i \in DOMAIN s \cap kept : Only(s, kept)[k] = s[i] /\ Only(u, kept)[k] = u[i]

LEMMA SameIndices ==
  ASSUME NEW S, NEW s \in Seq(S), NEW U, NEW u \in Seq(U), Len(s) = Len(u), NEW kept
  PROVE  SamePlaces(s, u, kept)
<1> DEFINE o == Only(s, kept)
           p == Only(u, kept)
           K == (1..Len(s)) \ (DOMAIN s \ kept)
<1>1. DOMAIN s = 1..Len(s) /\ DOMAIN u = DOMAIN s /\ Len(s) \in Nat
  BY LenProperties
<1>2. /\ o \in Seq(S) /\ IsSelection(s, DOMAIN s \ kept, Len(s), o)
      /\ p \in Seq(U) /\ IsSelection(u, DOMAIN s \ kept, Len(s), p)
  BY <1>1, OnlySelects
<1>3. K \in SUBSET Nat /\ K = DOMAIN s \cap kept
  BY <1>1
<1> HIDE DEF o, p
<1>4. PICK g : Enumerates(g, Len(o), K) /\ \A k \in 1..Len(o) : o[k] = s[g[k]]
  BY <1>2 DEF IsSelection, Enumerates
<1>5. PICK h : Enumerates(h, Len(p), K) /\ \A k \in 1..Len(p) : p[k] = u[h[k]]
  BY <1>2 DEF IsSelection, Enumerates
<1> HIDE DEF K
<1>6. Len(o) \in Nat /\ Len(p) \in Nat
  BY <1>2, LenProperties
<1>7. Len(o) = Len(p) /\ \A k \in 1..Len(o) : g[k] = h[k]
  BY <1>3, <1>4, <1>5, <1>6, OneEnumeration
<1>8. \A k \in 1..Len(o) : g[k] \in K /\ o[k] = s[g[k]] /\ p[k] = u[g[k]]
  BY <1>4, <1>5, <1>7 DEF Enumerates
<1> QED BY <1>3, <1>7, <1>8 DEF o, p, SamePlaces

----------------------------------------------------------------------------
(* Sorting.                                                                  *)

(* A strict order of the positions 1..n, in which one of two comes first.    *)
IsStrictOrder(n, before) ==
  \A i, j \in 1..n :
    /\ <<i, i>> \notin before
    /\ i # j => <<i, j>> \in before \/ <<j, i>> \in before
    /\ \A k \in 1..n : <<i, j>> \in before /\ <<j, k>> \in before => <<i, k>> \in before

Sooner(n, before, i) == {j \in 1..n : <<j, i>> \in before}

(* Of two positions the later has more positions before it.                  *)
LEMMA MoreAreSooner ==
  ASSUME NEW n \in Nat, NEW before, IsStrictOrder(n, before)
  PROVE  /\ \A i \in 1..n : Cardinality(Sooner(n, before, i)) \in 0..(n - 1)
         /\ \A i, j \in 1..n : <<i, j>> \in before =>
              Cardinality(Sooner(n, before, i)) < Cardinality(Sooner(n, before, j))
<1>1. IsFiniteSet(1..n) /\ Cardinality(1..n) = n
  BY FS_Interval
<1>2. ASSUME NEW i \in 1..n
      PROVE  /\ IsFiniteSet(Sooner(n, before, i))
             /\ Cardinality(Sooner(n, before, i)) \in Nat
             /\ Cardinality(Sooner(n, before, i)) <= n
             /\ Cardinality(Sooner(n, before, i)) # n
  <2>1. Sooner(n, before, i) \in SUBSET (1..n) /\ i \notin Sooner(n, before, i)
    BY DEF Sooner, IsStrictOrder
  <2>2. Sooner(n, before, i) # 1..n
    BY <2>1
  <2> HIDE DEF Sooner
  <2> QED BY <1>1, <2>1, <2>2, FS_Subset, FS_CardinalityType
<1>3. ASSUME NEW i \in 1..n, NEW j \in 1..n, <<i, j>> \in before
      PROVE  Cardinality(Sooner(n, before, i)) < Cardinality(Sooner(n, before, j))
  <2>1. Sooner(n, before, i) \in SUBSET Sooner(n, before, j)
    BY <1>3 DEF Sooner, IsStrictOrder
  <2>2. i \in Sooner(n, before, j) /\ i \notin Sooner(n, before, i)
    BY <1>3 DEF Sooner, IsStrictOrder
  <2>3. Sooner(n, before, i) # Sooner(n, before, j)
    BY <2>2
  <2>4. /\ Cardinality(Sooner(n, before, i)) <= Cardinality(Sooner(n, before, j))
        /\ Cardinality(Sooner(n, before, i)) # Cardinality(Sooner(n, before, j))
    BY <1>2, <2>1, <2>3, FS_Subset
  <2> QED BY <1>2, <2>4
<1> QED BY <1>2, <1>3

(* p has all the positions, earlier ones first.                              *)
IsSortedBy(n, before, p) ==
  /\ p \in [1..n -> 1..n]
  /\ \A k \in 1..n : \E i \in 1..n : p[i] = k
  /\ \A i, j \in 1..n : i < j => <<p[i], p[j]>> \in before

(* Sorted puts each position in a place of its own, and earlier ones first.  *)
LEMMA SortedSorts ==
  ASSUME NEW n \in Nat, NEW before, IsStrictOrder(n, before)
  PROVE  IsSortedBy(n, before, Sorted(n, before))
<1> DEFINE E == [i \in 1..n |-> Cardinality(Sooner(n, before, i))]
           p == Sorted(n, before)
<1>1. /\ E \in [1..n -> 0..(n - 1)]
      /\ \A i, j \in 1..n : <<i, j>> \in before => E[i] < E[j]
  <2>1. \A i \in 1..n : E[i] = Cardinality(Sooner(n, before, i))
    OBVIOUS
  <2> QED BY <2>1, MoreAreSooner
<1>2. p = [k \in 1..n |-> CHOOSE i \in 1..n : E[i] = k - 1]
  BY DEF Sorted, Sooner
<1> HIDE DEF E, p
<1>0. ASSUME NEW i \in 1..n, NEW j \in 1..n, <<i, j>> \in before
      PROVE  E[i] # E[j]
  <2>1. E[i] < E[j] /\ E[i] \in Int /\ E[j] \in Int
    BY <1>0, <1>1
  <2> QED BY <2>1
<1>3. ASSUME NEW i \in 1..n, NEW j \in 1..n, E[i] = E[j]
      PROVE  i = j
  BY <1>0, <1>3 DEF IsStrictOrder
<1>4. \A k \in 1..n : \E i \in 1..n : E[i] = k - 1
  <2>1. 0 \in Int /\ n - 1 \in Int /\ 1 \in Int /\ n \in Int /\ (0 > n - 1 => n = 0)
        /\ (1 > n => n = 0) /\ n - 1 - 0 + 1 = n /\ n - 1 + 1 = n
    OBVIOUS
  <2>2. /\ IsFiniteSet(1..n) /\ Cardinality(1..n) = n
        /\ IsFiniteSet(0..(n - 1)) /\ Cardinality(0..(n - 1)) = n
    BY <2>1, FS_Interval
  <2>3. E \in Injection(1..n, 0..(n - 1))
    BY <1>1, <1>3 DEF Injection, IsInjective
  <2>4. E \in Surjection(1..n, 0..(n - 1))
    BY <2>2, <2>3, FS_Injection
  <2>5. \A k \in 1..n : k - 1 \in 0..(n - 1)
    OBVIOUS
  <2> QED BY <2>4, <2>5 DEF Surjection
<1>5. \A k \in 1..n : p[k] \in 1..n /\ E[p[k]] = k - 1
  BY <1>2, <1>4
<1>6. p \in [1..n -> 1..n]
  BY <1>2, <1>5
<1>7. ASSUME NEW k \in 1..n
      PROVE  \E i \in 1..n : p[i] = k
  <2>1. E[k] \in 0..(n - 1)
    BY <1>1
  <2>2. PICK i \in 1..n : i - 1 = E[k]
    <3> DEFINE e == E[k]
    <3>1. e \in 0..(n - 1)
      BY <2>1
    <3> HIDE DEF e
    <3>2. e + 1 \in 1..n /\ (e + 1) - 1 = e
      BY <3>1
    <3>3. \E i \in 1..n : i - 1 = e
      BY <3>2
    <3> QED BY <3>3 DEF e
  <2>3. p[i] \in 1..n /\ E[p[i]] = E[k]
    BY <1>5, <2>2
  <2>4. p[i] = k
    BY <1>3, <2>3
  <2> QED BY <2>4
<1>8. ASSUME NEW i \in 1..n, NEW j \in 1..n, i < j
      PROVE  <<p[i], p[j]>> \in before
  <2>1. p[i] \in 1..n /\ p[j] \in 1..n /\ E[p[i]] = i - 1 /\ E[p[j]] = j - 1
    BY <1>5
  <2>2. E[p[i]] < E[p[j]] /\ E[p[i]] \in Int /\ E[p[j]] \in Int
    BY <1>8, <2>1
  <2>3. <<p[j], p[i]>> \in before => E[p[j]] < E[p[i]]
    BY <1>1, <2>1
  <2>4. p[i] # p[j] /\ <<p[j], p[i]>> \notin before
    BY <2>2, <2>3
  <2> QED BY <2>1, <2>4 DEF IsStrictOrder
<1> QED BY <1>6, <1>7, <1>8 DEF p, IsSortedBy
============================================================================
