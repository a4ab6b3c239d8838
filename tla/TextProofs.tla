----------------------------- MODULE TextProofs -----------------------------
(***************************************************************************)
(* Proofs about the text of an SQL editor, whatever is typed: the tokens   *)
(* of a text, the statements that the script parser cuts out of it, how    *)
(* many of them the editor counts, what a predicate is that does not       *)
(* evaluate both its operands, and the columns of a table that is created. *)
(***************************************************************************)
EXTENDS StatementTexts, Scalars, CreateTable, ListsProofs

----------------------------------------------------------------------------
(* Runs of letters and digits.                                               *)

(* Min is the least of a set of numbers.                                     *)
LEMMA MinIsLeast ==
  ASSUME NEW T \in SUBSET Nat, T # {}
  PROVE  Min(T) \in T /\ \A k \in T : Min(T) <= k
BY LeastNumber DEF Min

(* A run of digits: all that is in it are digits, what follows is none, and  *)
(* no other position is like that.                                           *)
LEMMA DigitRun ==
  ASSUME NEW S, NEW s \in Seq(S), NEW i \in 1..(Len(s) + 1)
  PROVE  LET e == RunEnd(s, i, DigitAt)
         IN  /\ e \in i..(Len(s) + 1)
             /\ \A j \in i..(e - 1) : DigitAt(s, j)
             /\ ~DigitAt(s, e)
             /\ \A k \in i..(Len(s) + 1) :
                  (\A j \in i..(k - 1) : DigitAt(s, j)) /\ ~DigitAt(s, k) => k = e
<1> DEFINE T == {j \in i..(Len(s) + 1) : ~DigitAt(s, j)}
<1>1. Len(s) \in Nat
  BY LenProperties
<1>2. T \in SUBSET Nat /\ Len(s) + 1 \in T
  BY <1>1 DEF DigitAt
<1>3. Min(T) \in T /\ \A k \in T : Min(T) <= k
  BY <1>2, MinIsLeast
<1>4. RunEnd(s, i, DigitAt) = Min(T)
  BY DEF RunEnd
<1> DEFINE e == Min(T)
<1>5. e \in i..(Len(s) + 1) /\ ~DigitAt(s, e)
  BY <1>3
<1>6. \A j \in i..(e - 1) : DigitAt(s, j)
  BY <1>1, <1>3
<1>7. ASSUME NEW k \in i..(Len(s) + 1), \A j \in i..(k - 1) : DigitAt(s, j), ~DigitAt(s, k)
      PROVE  k = e
  BY <1>1, <1>3, <1>5, <1>7
<1> QED BY <1>4, <1>5, <1>6, <1>7

(* The same of a run of letters and digits.                                  *)
LEMMA WordRun ==
  ASSUME NEW S, NEW s \in Seq(S), NEW i \in 1..(Len(s) + 1)
  PROVE  LET e == RunEnd(s, i, PartAt)
         IN  /\ e \in i..(Len(s) + 1)
             /\ \A j \in i..(e - 1) : PartAt(s, j)
             /\ ~PartAt(s, e)
             /\ \A k \in i..(Len(s) + 1) :
                  (\A j \in i..(k - 1) : PartAt(s, j)) /\ ~PartAt(s, k) => k = e
<1> DEFINE T == {j \in i..(Len(s) + 1) : ~PartAt(s, j)}
<1>1. Len(s) \in Nat
  BY LenProperties
<1>2. T \in SUBSET Nat /\ Len(s) + 1 \in T
  BY <1>1 DEF PartAt, LetterAt, DigitAt
<1>3. Min(T) \in T /\ \A k \in T : Min(T) <= k
  BY <1>2, MinIsLeast
<1>4. RunEnd(s, i, PartAt) = Min(T)
  BY DEF RunEnd
<1> DEFINE e == Min(T)
<1>5. e \in i..(Len(s) + 1) /\ ~PartAt(s, e)
  BY <1>3
<1>6. \A j \in i..(e - 1) : PartAt(s, j)
  BY <1>1, <1>3
<1>7. ASSUME NEW k \in i..(Len(s) + 1), \A j \in i..(k - 1) : PartAt(s, j), ~PartAt(s, k)
      PROVE  k = e
  BY <1>1, <1>3, <1>5, <1>7
<1> QED BY <1>4, <1>5, <1>6, <1>7

----------------------------------------------------------------------------
(* Strings.                                                                  *)

(* A quote that ends the string it is in.                                    *)
Closes(s, j) == PieceAt(s, j, "'") /\ ~PieceAt(s, j + 1, "'")

(* What is left of a string at j, by f: what is left at the positions after. *)
RestAt(s, f, j) ==
  CASE j > Len(s) -> [value |-> <<>>, end |-> 0]
    [] Closes(s, j) -> [value |-> <<>>, end |-> j + 1]
    [] OTHER -> LET next == IF s[j] = "'" THEN j + 2 ELSE j + 1
                IN  [value |-> <<s[j]>> \o f[next].value, end |-> f[next].end]

IsRest(s, low, f) == f = [j \in low..(Len(s) + 1) |-> RestAt(s, f, j)]

(* There is such a function: what the definition of Quoted computes.         *)
LEMMA RestExists ==
  ASSUME NEW S, NEW s \in Seq(S), NEW low \in 1..(Len(s) + 1)
  PROVE  \E f : IsRest(s, low, f)
<1> DEFINE len == Len(s) + 1
           T == {k \in Nat : k < len /\ ~\E f : IsRest(s, len - k, f)}
<1>1. len \in Nat
  BY LenProperties
<1>2. SUFFICES ASSUME T # {} PROVE FALSE
  <2>1. len - low \in Nat /\ len - low < len /\ len - (len - low) = low
    BY <1>1
  <2>2. len - low \notin T
    BY <1>1, <1>2
  <2> QED BY <2>1, <2>2
<1>3. PICK k \in T : \A j \in T : k <= j
  BY <1>2, LeastNumber
<1> DEFINE p == len - k
<1>4. p \in 1..len /\ k \in Nat
  BY <1>1, <1>3
<1>5. CASE k = 0
  <2> DEFINE g == [j \in p..len |-> [value |-> <<>>, end |-> 0]]
  <2>1. \A j \in p..len : j > Len(s)
    BY <1>1, <1>5
  <2>2. \A j \in p..len : g[j] = RestAt(s, g, j)
    BY <1>1, <2>1 DEF RestAt, Closes, PieceAt
  <2>3. g = [j \in p..len |-> g[j]]
    OBVIOUS
  <2> HIDE DEF g
  <2>4. IsRest(s, p, g)
    BY <2>2, <2>3 DEF IsRest
  <2> QED BY <1>3, <2>4
<1>6. CASE k # 0
  <2>1. k - 1 \in Nat /\ k - 1 < len /\ k - 1 \notin T /\ len - (k - 1) = p + 1
    BY <1>1, <1>3, <1>4, <1>6
  <2>2. PICK f : IsRest(s, p + 1, f)
    BY <2>1
  <2> DEFINE g == [j \in p..len |-> IF j = p THEN RestAt(s, f, j) ELSE f[j]]
  <2>3. \A j \in (p + 1)..len : f[j] = RestAt(s, f, j)
    BY <2>2 DEF IsRest
  <2>4. p <= Len(s)
    BY <1>1, <1>6
  <2>5. \A j \in (p + 1)..len : g[j] = f[j]
    BY <1>4
  <2>6. ASSUME NEW j \in p..len
        PROVE  RestAt(s, g, j) = RestAt(s, f, j)
    <3>1. CASE j > Len(s)
      <4> HIDE DEF g
      <4>1. ~Closes(s, j) /\ ~(j <= Len(s))
        BY <1>1, <1>4, <3>1 DEF Closes, PieceAt
      <4> QED BY <3>1, <4>1 DEF RestAt
    <3>2. CASE j <= Len(s) /\ Closes(s, j)
      BY <3>2 DEF RestAt
    <3>3. CASE j <= Len(s) /\ ~Closes(s, j)
      <4> DEFINE next == IF s[j] = "'" THEN j + 2 ELSE j + 1
      <4>1. next \in (p + 1)..len
        BY <1>1, <1>4, <3>3 DEF Closes, PieceAt
      <4>2. g[next] = f[next]
        BY <2>5, <4>1
      <4> HIDE DEF g
      <4> QED BY <3>3, <4>2 DEF RestAt
    <3> QED BY <1>1, <1>4, <3>1, <3>2, <3>3
  <2>7. g[p] = RestAt(s, f, p)
    BY <1>4
  <2>8. g = [j \in p..len |-> g[j]]
    OBVIOUS
  <2> HIDE DEF g
  <2>9. \A j \in p..len : g[j] = RestAt(s, g, j)
    BY <1>4, <2>3, <2>5, <2>6, <2>7
  <2>10. IsRest(s, p, g)
    BY <2>8, <2>9 DEF IsRest
  <2> QED BY <1>3, <2>10
<1> QED BY <1>5, <1>6

(* The string that begins at i, by what is left of it after the first quote. *)
LEMMA QuotedIsRest ==
  ASSUME NEW S, NEW s \in Seq(S), NEW i \in 1..Len(s)
  PROVE  \E f : /\ \A j \in (i + 1)..(Len(s) + 1) : f[j] = RestAt(s, f, j)
                /\ Quoted(s, i) = IF f[i + 1].end = 0 THEN LexerError(s, i)
                                  ELSE Token(s, i, "string", f[i + 1].end,
                                             String(f[i + 1].value))
<1> DEFINE f == CHOOSE g : IsRest(s, i + 1, g)
<1>1. i + 1 \in 1..(Len(s) + 1)
  BY LenProperties
<1>2. IsRest(s, i + 1, f)
  BY <1>1, RestExists
<1>3. Quoted(s, i) = IF f[i + 1].end = 0 THEN LexerError(s, i)
                     ELSE Token(s, i, "string", f[i + 1].end, String(f[i + 1].value))
  BY DEF Quoted, IsRest, RestAt, Closes
<1> HIDE DEF f
<1>4. \A j \in (i + 1)..(Len(s) + 1) : f[j] = RestAt(s, f, j)
  BY <1>2 DEF IsRest
<1> QED BY <1>3, <1>4

----------------------------------------------------------------------------
(* Windows: a part of a text, on its own.                                    *)

(* u is the part of s that follows the first d pieces and ends before e.     *)
Shows(s, d, e, u) ==
  /\ d \in Nat /\ e \in (d + 1)..(Len(s) + 1)
  /\ Len(u) = e - 1 - d
  /\ \A j \in (d + 1)..(e - 1) : u[j - d] = s[j]

LEMMA WindowShows ==
  ASSUME NEW S, NEW s \in Seq(S), NEW d \in Nat, NEW e \in (d + 1)..(Len(s) + 1)
  PROVE  LET u == SubSeq(s, d + 1, e - 1)
         IN  u \in Seq(S) /\ Shows(s, d, e, u)
<1> DEFINE m == d + 1
           n == e - 1
           u == SubSeq(s, m, n)
<1>1. Len(s) \in Nat /\ m \in Int /\ n \in Int
  BY LenProperties
<1>2. \A i \in m..n : s[i] \in S
  BY <1>1, ElementOfSeq
<1>3. /\ u \in Seq(S)
      /\ Len(u) = IF m <= n THEN n - m + 1 ELSE 0
      /\ \A i \in 1..(n - m + 1) : u[i] = s[m + i - 1]
  <2> HIDE DEF m, n
  <2> QED BY <1>1, <1>2, SubSeqProperties
<1> HIDE DEF u
<1>4. Len(u) = e - 1 - d
  BY <1>1, <1>3
<1>5. ASSUME NEW j \in (d + 1)..(e - 1)
      PROVE  u[j - d] = s[j]
  <2>1. j - d \in 1..(n - m + 1) /\ m + (j - d) - 1 = j
    BY <1>1
  <2> QED BY <1>3, <2>1
<1> QED BY <1>3, <1>4, <1>5 DEF u, Shows

(* A part of the window is that part of the text.                            *)
SamePart(s, d, u, a, b) == SubSeq(u, a - d, b - d - 1) = SubSeq(s, a, b - 1)

LEMMA PartsOfWindow ==
  ASSUME NEW S, NEW s \in Seq(S), NEW d, NEW e, NEW u \in Seq(S), Shows(s, d, e, u),
         NEW a \in (d + 1)..e, NEW b \in a..e
  PROVE  SamePart(s, d, u, a, b)
<1> DEFINE m == a - d
           n == b - d - 1
           k == b - 1
           v == SubSeq(u, m, n)
           w == SubSeq(s, a, k)
<1>1. d \in Nat /\ e \in Nat /\ a \in Int /\ m \in Int /\ n \in Int /\ k \in Int
  BY LenProperties DEF Shows
<1>2. /\ \A i \in m..n : i \in 1..Len(u)
      /\ \A i \in a..k : i \in 1..Len(s)
  BY <1>1, LenProperties DEF Shows
<1>3. /\ \A i \in m..n : u[i] \in S
      /\ \A i \in a..k : s[i] \in S
  BY <1>2, ElementOfSeq
<1>4. /\ v \in Seq(S) /\ Len(v) = (IF m <= n THEN n - m + 1 ELSE 0)
      /\ \A i \in 1..(n - m + 1) : v[i] = u[m + i - 1]
      /\ w \in Seq(S) /\ Len(w) = (IF a <= k THEN k - a + 1 ELSE 0)
      /\ \A i \in 1..(k - a + 1) : w[i] = s[a + i - 1]
  <2> HIDE DEF m, n, k
  <2> QED BY <1>1, <1>3, SubSeqProperties
<1> HIDE DEF v, w
<1>5. Len(v) = b - a /\ Len(w) = b - a
  BY <1>1, <1>4
<1>6. ASSUME NEW i \in 1..(b - a)
      PROVE  v[i] = w[i]
  <2> DEFINE j == a + i - 1
  <2>1. /\ j \in (d + 1)..(e - 1) /\ m + i - 1 = j - d
        /\ i \in 1..(n - m + 1) /\ i \in 1..(k - a + 1)
    BY <1>1
  <2>2. u[j - d] = s[j]
    BY <2>1 DEF Shows
  <2> QED BY <1>4, <2>1, <2>2
<1>7. v = w
  BY <1>4, <1>5, <1>6, SeqEqual
<1> QED BY <1>7 DEF v, w, SamePart

(* What stands where is the same, up to the end of the window.               *)
LEMMA WindowPieces ==
  ASSUME NEW S, NEW s \in Seq(S), NEW d, NEW e, NEW u, Shows(s, d, e, u),
         NEW j \in Int, j > d
  PROVE  /\ LetterAt(u, j - d) <=> j < e /\ LetterAt(s, j)
         /\ DigitAt(u, j - d) <=> j < e /\ DigitAt(s, j)
         /\ PartAt(u, j - d) <=> j < e /\ PartAt(s, j)
         /\ \A piece : PieceAt(u, j - d, piece) <=> j < e /\ PieceAt(s, j, piece)
<1>1. d \in Nat /\ e \in Nat /\ Len(u) = e - 1 - d /\ e <= Len(s) + 1 /\ Len(s) \in Nat
  BY LenProperties DEF Shows
<1>2. CASE j < e
  <2>1. j \in (d + 1)..(e - 1) /\ j - d <= Len(u) /\ j <= Len(s)
    BY <1>1, <1>2
  <2>2. u[j - d] = s[j]
    BY <2>1 DEF Shows
  <2> QED BY <1>2, <2>1, <2>2 DEF LetterAt, DigitAt, PartAt, PieceAt
<1>3. CASE ~(j < e)
  <2>1. ~(j - d <= Len(u))
    BY <1>1, <1>3
  <2> QED BY <1>3, <2>1 DEF LetterAt, DigitAt, PartAt, PieceAt
<1> QED BY <1>2, <1>3

(* A run that ends within the window ends there too.                         *)
LEMMA WindowRuns ==
  ASSUME NEW S, NEW s \in Seq(S), NEW d, NEW e, NEW u \in Seq(S), Shows(s, d, e, u),
         NEW i \in (d + 1)..e
  PROVE  /\ RunEnd(s, i, DigitAt) <= e =>
              RunEnd(u, i - d, DigitAt) = RunEnd(s, i, DigitAt) - d
         /\ RunEnd(s, i, PartAt) <= e =>
              RunEnd(u, i - d, PartAt) = RunEnd(s, i, PartAt) - d
<1>1. d \in Nat /\ e \in Nat /\ Len(u) = e - 1 - d /\ e <= Len(s) + 1 /\ Len(s) \in Nat
  BY LenProperties DEF Shows
<1>2. i \in 1..(Len(s) + 1) /\ i - d \in 1..(Len(u) + 1)
  BY <1>1
<1>3. ASSUME RunEnd(s, i, DigitAt) <= e
      PROVE  RunEnd(u, i - d, DigitAt) = RunEnd(s, i, DigitAt) - d
  <2> DEFINE r == RunEnd(s, i, DigitAt)
             k == r - d
  <2>1. /\ r \in i..(Len(s) + 1)
        /\ \A j \in i..(r - 1) : DigitAt(s, j)
        /\ ~DigitAt(s, r)
    BY <1>2, DigitRun
  <2> HIDE DEF r
  <2>2. k \in (i - d)..(Len(u) + 1) /\ r <= e
    BY <1>1, <1>3, <2>1 DEF r
  <2>3. ASSUME NEW j \in (i - d)..(k - 1)
        PROVE  DigitAt(u, j)
    <3>1. j + d \in i..(r - 1) /\ j + d \in Int /\ j + d > d /\ (j + d) - d = j /\ j + d < e
      BY <1>1, <2>1, <2>2
    <3>2. DigitAt(s, j + d)
      BY <2>1, <3>1
    <3> QED BY <3>1, <3>2, WindowPieces
  <2>4. ~DigitAt(u, k)
    <3>1. r \in Int /\ r > d
      BY <1>1, <2>1
    <3> QED BY <2>1, <3>1, WindowPieces
  <2>5. k = RunEnd(u, i - d, DigitAt)
    BY <1>2, <2>2, <2>3, <2>4, DigitRun
  <2> QED BY <2>5 DEF r
<1>4. ASSUME RunEnd(s, i, PartAt) <= e
      PROVE  RunEnd(u, i - d, PartAt) = RunEnd(s, i, PartAt) - d
  <2> DEFINE r == RunEnd(s, i, PartAt)
             k == r - d
  <2>1. /\ r \in i..(Len(s) + 1)
        /\ \A j \in i..(r - 1) : PartAt(s, j)
        /\ ~PartAt(s, r)
    BY <1>2, WordRun
  <2> HIDE DEF r
  <2>2. k \in (i - d)..(Len(u) + 1) /\ r <= e
    BY <1>1, <1>4, <2>1 DEF r
  <2>3. ASSUME NEW j \in (i - d)..(k - 1)
        PROVE  PartAt(u, j)
    <3>1. j + d \in i..(r - 1) /\ j + d \in Int /\ j + d > d /\ (j + d) - d = j /\ j + d < e
      BY <1>1, <2>1, <2>2
    <3>2. PartAt(s, j + d)
      BY <2>1, <3>1
    <3> QED BY <3>1, <3>2, WindowPieces
  <2>4. ~PartAt(u, k)
    <3>1. r \in Int /\ r > d
      BY <1>1, <2>1
    <3> QED BY <2>1, <3>1, WindowPieces
  <2>5. k = RunEnd(u, i - d, PartAt)
    BY <1>2, <2>2, <2>3, <2>4, WordRun
  <2> QED BY <2>5 DEF r
<1> QED BY <1>3, <1>4

----------------------------------------------------------------------------
(* Strings in a window.                                                      *)

(* Some numbers up to n have a greatest.                                     *)
LEMMA GreatestNumber ==
  ASSUME NEW n \in Nat, NEW T \in SUBSET (0..n), T # {}
  PROVE  \E m \in T : \A k \in T : k <= m
<1> DEFINE R == {n - k : k \in T}
<1>1. R \in SUBSET Nat /\ R # {}
  <2>1. \A k \in T : n - k \in Nat
    OBVIOUS
  <2>2. PICK k \in T : TRUE
    OBVIOUS
  <2>3. n - k \in R
    OBVIOUS
  <2> QED BY <2>1, <2>3
<1>2. PICK r \in R : \A k \in R : r <= k
  BY <1>1, LeastNumber
<1>3. PICK m \in T : r = n - m
  BY <1>2
<1>4. ASSUME NEW k \in T
      PROVE  k <= m
  <2>1. n - k \in R
    OBVIOUS
  <2>2. r <= n - k
    BY <1>2, <2>1
  <2> QED BY <1>3, <2>2
<1> QED BY <1>4

(* A string that ends at all ends after where it is looked at.               *)
LEMMA RestEnds ==
  ASSUME NEW S, NEW s \in Seq(S), NEW low \in 1..(Len(s) + 1), NEW f,
         \A j \in low..(Len(s) + 1) : f[j] = RestAt(s, f, j)
  PROVE  \A j \in low..(Len(s) + 1) : f[j].end = 0 \/ f[j].end \in (j + 1)..(Len(s) + 1)
<1> DEFINE len == Len(s) + 1
           OK(j) == f[j].end = 0 \/ f[j].end \in (j + 1)..len
           T == {j \in low..len : ~OK(j)}
<1>1. len \in Nat /\ Len(s) \in Nat
  BY LenProperties
<1>2. SUFFICES ASSUME T # {} PROVE FALSE
  OBVIOUS
<1>3. PICK j \in T : \A k \in T : k <= j
  <2>1. T \in SUBSET (0..len)
    BY <1>1
  <2> HIDE DEF T, len
  <2> QED BY <1>1, <1>2, <2>1, GreatestNumber
<1>4. f[j] = RestAt(s, f, j) /\ j \in low..len /\ ~OK(j)
  BY <1>3
<1>5. CASE j > Len(s)
  <2>1. ~Closes(s, j) /\ ~(j <= Len(s))
    BY <1>1, <1>4, <1>5 DEF Closes, PieceAt
  <2>2. f[j] = [value |-> <<>>, end |-> 0]
    BY <1>4, <1>5, <2>1 DEF RestAt
  <2> QED BY <1>4, <2>2
<1>6. CASE j <= Len(s) /\ Closes(s, j)
  <2>1. ~(j > Len(s))
    BY <1>1, <1>4, <1>6
  <2>2. f[j] = [value |-> <<>>, end |-> j + 1]
    BY <1>4, <1>6, <2>1 DEF RestAt
  <2> QED BY <1>1, <1>4, <1>6, <2>2
<1>7. CASE j <= Len(s) /\ ~Closes(s, j)
  <2> DEFINE next == IF s[j] = "'" THEN j + 2 ELSE j + 1
  <2>1. ~(j > Len(s))
    BY <1>1, <1>4, <1>7
  <2>2. f[j] = [value |-> <<s[j]>> \o f[next].value, end |-> f[next].end]
    BY <1>4, <1>7, <2>1 DEF RestAt
  <2>3. next \in low..len /\ next > j
    BY <1>1, <1>4, <1>7 DEF Closes, PieceAt
  <2>4. OK(next)
    BY <1>1, <1>3, <2>3
  <2> QED BY <1>1, <1>4, <2>2, <2>3, <2>4
<1> QED BY <1>1, <1>4, <1>5, <1>6, <1>7

(* A string that ends within a window is the same string there.              *)
LEMMA RestInWindow ==
  ASSUME NEW S, NEW s \in Seq(S), NEW d, NEW e, NEW u \in Seq(S), Shows(s, d, e, u),
         NEW low \in (d + 1)..e, NEW f, NEW g,
         \A j \in low..(Len(s) + 1) : f[j] = RestAt(s, f, j),
         \A j \in (low - d)..(Len(u) + 1) : g[j] = RestAt(u, g, j)
  PROVE  \A j \in low..e : f[j].end # 0 /\ f[j].end <= e =>
           g[j - d] = [value |-> f[j].value, end |-> f[j].end - d]
<1> DEFINE OK(j) == f[j].end # 0 /\ f[j].end <= e =>
                      g[j - d] = [value |-> f[j].value, end |-> f[j].end - d]
           T == {j \in low..e : ~OK(j)}
<1>1. d \in Nat /\ e \in Nat /\ Len(u) = e - 1 - d /\ e <= Len(s) + 1 /\ Len(s) \in Nat
  BY LenProperties DEF Shows
<1>2. low \in 1..(Len(s) + 1)
  BY <1>1
<1>3. \A j \in low..(Len(s) + 1) : f[j].end = 0 \/ f[j].end \in (j + 1)..(Len(s) + 1)
  BY <1>2, RestEnds
<1>4. SUFFICES ASSUME T # {} PROVE FALSE
  OBVIOUS
<1>5. PICK j \in T : \A k \in T : k <= j
  <2>1. T \in SUBSET (0..e)
    BY <1>1
  <2> HIDE DEF T
  <2> QED BY <1>1, <1>4, <2>1, GreatestNumber
<1>6. /\ j \in low..e /\ j \in low..(Len(s) + 1) /\ j - d \in (low - d)..(Len(u) + 1)
      /\ j \in Int /\ j > d /\ j + 1 \in Int /\ j + 1 > d /\ (j - d) + 1 = (j + 1) - d
  BY <1>1, <1>5
<1>7. /\ f[j].end # 0 /\ f[j].end <= e
      /\ g[j - d] # [value |-> f[j].value, end |-> f[j].end - d]
  BY <1>5
<1>8. f[j] = RestAt(s, f, j) /\ g[j - d] = RestAt(u, g, j - d)
  BY <1>6
<1>9. f[j].end \in (j + 1)..e /\ j < e /\ j <= Len(s) /\ ~(j > Len(s))
  BY <1>1, <1>3, <1>6, <1>7
<1>10. u[j - d] = s[j] /\ ~(j - d > Len(u)) /\ j - d <= Len(u)
  <2>1. j \in (d + 1)..(e - 1)
    BY <1>1, <1>6, <1>9
  <2> QED BY <1>1, <1>9, <2>1 DEF Shows
<1>11. /\ PieceAt(u, j - d, "'") <=> PieceAt(s, j, "'")
       /\ PieceAt(u, (j + 1) - d, "'") <=> j + 1 < e /\ PieceAt(s, j + 1, "'")
  BY <1>6, <1>9, WindowPieces
<1>12. CASE Closes(s, j)
  <2>1. Closes(u, j - d)
    BY <1>6, <1>11, <1>12 DEF Closes
  <2>2. f[j] = [value |-> <<>>, end |-> j + 1]
    BY <1>8, <1>9, <1>12 DEF RestAt
  <2>3. g[j - d] = [value |-> <<>>, end |-> (j - d) + 1]
    BY <1>8, <1>10, <2>1 DEF RestAt
  <2> QED BY <1>6, <1>7, <2>2, <2>3
<1>13. CASE ~Closes(s, j)
  <2> DEFINE next == IF s[j] = "'" THEN j + 2 ELSE j + 1
             after == IF u[j - d] = "'" THEN (j - d) + 2 ELSE (j - d) + 1
  <2>1. f[j] = [value |-> <<s[j]>> \o f[next].value, end |-> f[next].end]
    BY <1>8, <1>9, <1>13 DEF RestAt
  <2>2. next \in low..(Len(s) + 1) /\ next > j
    BY <1>1, <1>6, <1>9, <1>13 DEF Closes, PieceAt
  <2>3. f[next].end \in (next + 1)..e /\ f[next].end # 0
    <3>1. f[next].end = f[j].end
      BY <2>1
    <3> QED BY <1>3, <1>7, <1>9, <2>2, <3>1
  <2>4. next \in low..e
    BY <1>1, <2>2, <2>3
  <2>5. OK(next)
    BY <1>1, <1>5, <1>6, <2>2, <2>4
  <2>6. g[next - d] = [value |-> f[next].value, end |-> f[next].end - d]
    BY <2>3, <2>5
  <2>7. ~Closes(u, j - d)
    <3>1. CASE PieceAt(s, j, "'")
      <4>1. PieceAt(s, j + 1, "'") /\ next = j + 2
        BY <1>13, <3>1 DEF Closes, PieceAt
      <4>2. j + 1 < e
        BY <1>1, <1>6, <2>3, <4>1
      <4> QED BY <1>6, <1>11, <4>1, <4>2 DEF Closes
    <3>2. CASE ~PieceAt(s, j, "'")
      BY <1>11, <3>2 DEF Closes
    <3> QED BY <3>1, <3>2
  <2>8. g[j - d] = [value |-> <<u[j - d]>> \o g[after].value, end |-> g[after].end]
    BY <1>8, <1>10, <2>7 DEF RestAt
  <2>9. after = next - d
    BY <1>1, <1>6, <1>10
  <2> HIDE DEF next, after
  <2>10. g[j - d] = [value |-> <<s[j]>> \o f[next].value, end |-> f[next].end - d]
    <3>1. g[after].value = f[next].value /\ g[after].end = f[next].end - d
      <4>1. g[after] = g[next - d]
        BY <2>9, Zenon
      <4> HIDE DEF T
      <4> QED BY <2>6, <4>1
    <3> QED BY <1>10, <2>8, <3>1, Zenon
  <2>11. /\ f[j].value = <<s[j]>> \o f[next].value
         /\ f[j].end = f[next].end
    BY <2>1
  <2> QED BY <1>7, <2>10, <2>11
<1> QED BY <1>12, <1>13

(* A token that is moved by d pieces to the front.                           *)
Moved(token, d) ==
  [type |-> token.type, lexeme |-> token.lexeme, literal |-> token.literal,
   start |-> token.start - d, end |-> token.end - d]

LEMMA TokenInWindow ==
  ASSUME NEW S, NEW s \in Seq(S), NEW d, NEW e, NEW u \in Seq(S), Shows(s, d, e, u),
         NEW i \in (d + 1)..e, NEW end \in i..e, NEW type, NEW literal
  PROVE  Token(u, i - d, type, end - d, literal) = Moved(Token(s, i, type, end, literal), d)
<1>1. SamePart(s, d, u, i, end)
  BY PartsOfWindow
<1> QED BY <1>1 DEF Token, Moved, SamePart

LEMMA QuotedInWindow ==
  ASSUME NEW S, NEW s \in Seq(S), NEW d, NEW e, NEW u \in Seq(S), Shows(s, d, e, u),
         NEW i \in (d + 1)..(e - 1),
         Quoted(s, i).type # "error", Quoted(s, i).end <= e
  PROVE  Quoted(u, i - d) = Moved(Quoted(s, i), d)
<1>1. d \in Nat /\ e \in Nat /\ Len(u) = e - 1 - d /\ e <= Len(s) + 1 /\ Len(s) \in Nat
  BY LenProperties DEF Shows
<1>2. i \in 1..Len(s) /\ i - d \in 1..Len(u) /\ (i - d) + 1 = (i + 1) - d
  BY <1>1
<1>3. PICK f : /\ \A j \in (i + 1)..(Len(s) + 1) : f[j] = RestAt(s, f, j)
               /\ Quoted(s, i) = IF f[i + 1].end = 0 THEN LexerError(s, i)
                                 ELSE Token(s, i, "string", f[i + 1].end,
                                            String(f[i + 1].value))
  BY <1>2, QuotedIsRest
<1>4. PICK g : /\ \A j \in ((i - d) + 1)..(Len(u) + 1) : g[j] = RestAt(u, g, j)
               /\ Quoted(u, i - d) = IF g[(i - d) + 1].end = 0 THEN LexerError(u, i - d)
                                     ELSE Token(u, i - d, "string", g[(i - d) + 1].end,
                                                String(g[(i - d) + 1].value))
  BY <1>2, QuotedIsRest
<1> DEFINE end == f[i + 1].end
<1>5. end # 0
  BY <1>3 DEF LexerError, Token
<1>6. Quoted(s, i) = Token(s, i, "string", end, String(f[i + 1].value)) /\ end <= e
  BY <1>3, <1>5 DEF Token
<1>7. i + 1 \in (d + 1)..e /\ i + 1 \in (i + 1)..e /\ i + 1 \in 1..(Len(s) + 1)
  BY <1>1
<1>8. g[(i + 1) - d] = [value |-> f[i + 1].value, end |-> end - d]
  BY <1>2, <1>3, <1>4, <1>5, <1>6, <1>7, RestInWindow
<1>9. end \in (i + 2)..(Len(s) + 1)
  <2> DEFINE low == i + 1
  <2>1. low \in 1..(Len(s) + 1) /\ \A j \in low..(Len(s) + 1) : f[j] = RestAt(s, f, j)
    BY <1>3, <1>7
  <2>2. low \in low..(Len(s) + 1)
    BY <1>1, <2>1
  <2> HIDE DEF low
  <2>3. f[low].end = 0 \/ f[low].end \in (low + 1)..(Len(s) + 1)
    BY <2>1, <2>2, RestEnds
  <2> QED BY <1>1, <1>2, <1>5, <2>3 DEF low
<1>10. Quoted(u, i - d) = Token(u, i - d, "string", end - d, String(f[i + 1].value))
  BY <1>1, <1>2, <1>4, <1>8, <1>9
<1>11. i \in (d + 1)..e /\ end \in i..e
  BY <1>1, <1>6, <1>9
<1> HIDE DEF end
<1> QED BY <1>6, <1>10, <1>11, TokenInWindow

----------------------------------------------------------------------------
(* Tokens.                                                                   *)

(* Only one case of ScanToken applies.                                       *)
LEMMA ScanCases ==
  ASSUME NEW s, NEW i \in Nat, i <= Len(s)
  PROVE  ScanToken(s, i) =
           IF s[i] \in {">", "<", "!"} /\ PieceAt(s, i + 1, "=")
           THEN Token(s, i, WithEquals(s[i]), i + 2, NoLiteral)
           ELSE IF s[i] \in Symbols THEN Token(s, i, s[i], i + 1, NoLiteral)
           ELSE IF s[i] = "'" THEN Quoted(s, i)
           ELSE IF DigitAt(s, i) THEN Numeral(s, i)
           ELSE IF LetterAt(s, i) THEN Word(s, i)
           ELSE LexerError(s, i)
<1> DEFINE two == s[i] \in {">", "<", "!"} /\ PieceAt(s, i + 1, "=")
           one == s[i] \in Symbols /\ ~(s[i] \in {">", "<"} /\ PieceAt(s, i + 1, "="))
           quote == s[i] = "'"
           digit == DigitAt(s, i)
           letter == LetterAt(s, i)
<1>1. /\ two => ~one /\ ~quote /\ ~digit /\ ~letter
      /\ one => ~quote /\ ~digit /\ ~letter
      /\ quote => ~digit /\ ~letter
      /\ digit => ~letter
  <2>1. two => ~one
    BY DEF Symbols
  <2>2. two => ~quote /\ ~digit
    BY DEF DigitAt, Digits
  <2>3. two => ~letter
    BY DEF LetterAt, Symbols
  <2>4. one => ~quote /\ ~digit /\ ~letter
    BY DEF LetterAt, Symbols, DigitAt, Digits
  <2>5. (quote => ~digit /\ ~letter) /\ (digit => ~letter)
    BY DEF LetterAt, DigitAt, Digits
  <2> QED BY <2>1, <2>2, <2>3, <2>4, <2>5
<1>2. ~two => (one <=> s[i] \in Symbols)
  BY DEF Symbols
<1>3. ScanToken(s, i) = CASE two -> Token(s, i, WithEquals(s[i]), i + 2, NoLiteral)
                          [] one -> Token(s, i, s[i], i + 1, NoLiteral)
                          [] quote -> Quoted(s, i)
                          [] digit -> Numeral(s, i)
                          [] letter -> Word(s, i)
                          [] OTHER -> LexerError(s, i)
  BY DEF ScanToken
<1> HIDE DEF two, one, quote, digit, letter
<1>4. ScanToken(s, i) = IF two THEN Token(s, i, WithEquals(s[i]), i + 2, NoLiteral)
                        ELSE IF one THEN Token(s, i, s[i], i + 1, NoLiteral)
                        ELSE IF quote THEN Quoted(s, i)
                        ELSE IF digit THEN Numeral(s, i)
                        ELSE IF letter THEN Word(s, i)
                        ELSE LexerError(s, i)
  BY <1>1, <1>3
<1> QED BY <1>2, <1>4 DEF two, quote, digit, letter

(* A token begins where it is scanned, has a piece at least, and is not the  *)
(* end of the text.                                                          *)
IsTokenAt(s, i, token) ==
  \E type, end, literal :
    /\ token = Token(s, i, type, end, literal)
    /\ end \in (i + 1)..(Len(s) + 1)
    /\ type # "eof"

LEMMA NumeralShape ==
  ASSUME NEW S, NEW s \in Seq(S), NEW i \in 1..Len(s), DigitAt(s, i)
  PROVE  IsTokenAt(s, i, Numeral(s, i)) /\ Numeral(s, i).type # "error"
<1> DEFINE dot == RunEnd(s, i, DigitAt)
           decimal == PieceAt(s, dot, ".") /\ DigitAt(s, dot + 1)
           whole == NumberOf(SubSeq(s, i, dot - 1))
           last == RunEnd(s, dot + 1, DigitAt)
<1>1. Len(s) \in Nat /\ i \in 1..(Len(s) + 1)
  BY LenProperties
<1>2. dot \in i..(Len(s) + 1) /\ ~DigitAt(s, dot)
  BY <1>1, DigitRun
<1>3. dot # i
  BY <1>2
<1>4. Numeral(s, i) = IF decimal THEN Token(s, i, "decimal", last, Number(whole))
                      ELSE Token(s, i, "integer", dot, Number(whole))
  BY DEF Numeral
<1> HIDE DEF dot
<1>5. CASE decimal
  <2>1. dot + 1 \in 1..(Len(s) + 1)
    BY <1>1, <1>2, <1>5 DEF PieceAt
  <2>2. last \in (dot + 1)..(Len(s) + 1)
    BY <2>1, DigitRun
  <2> HIDE DEF last, whole
  <2>3. last \in (i + 1)..(Len(s) + 1)
    BY <1>1, <1>2, <2>2
  <2> HIDE DEF decimal
  <2>4. Numeral(s, i) = Token(s, i, "decimal", last, Number(whole))
    BY <1>4, <1>5
  <2>5. Numeral(s, i).type = "decimal"
    BY <2>4 DEF Token
  <2> QED BY <2>3, <2>4, <2>5 DEF IsTokenAt
<1>6. CASE ~decimal
  <2> HIDE DEF decimal, whole
  <2>1. dot \in (i + 1)..(Len(s) + 1)
    BY <1>1, <1>2, <1>3
  <2>2. Numeral(s, i) = Token(s, i, "integer", dot, Number(whole))
    BY <1>4, <1>6
  <2>3. Numeral(s, i).type = "integer"
    BY <2>2 DEF Token
  <2> QED BY <2>1, <2>2, <2>3 DEF IsTokenAt
<1> QED BY <1>5, <1>6

(* The type and the literal of a word.                                       *)
LEMMA WordShape ==
  ASSUME NEW S, NEW s \in Seq(S), NEW i \in 1..Len(s), LetterAt(s, i)
  PROVE  IsTokenAt(s, i, Word(s, i)) /\ Word(s, i).type # "error"
<1> DEFINE end == RunEnd(s, i, PartAt)
           word == Upper(s[i])
           type == IF end = i + 1 /\ word \in Keywords THEN word ELSE "identifier"
           literal == CASE type = "TRUE" -> Boolean(TRUE)
                        [] type = "FALSE" -> Boolean(FALSE)
                        [] type = "NULL" -> Null
                        [] OTHER -> NoLiteral
<1>1. Len(s) \in Nat /\ i \in 1..(Len(s) + 1)
  BY LenProperties
<1>2. end \in i..(Len(s) + 1) /\ ~PartAt(s, end)
  BY <1>1, WordRun
<1>3. end # i
  BY <1>2 DEF PartAt
<1>4. Word(s, i) = Token(s, i, type, end, literal)
  BY DEF Word
<1> HIDE DEF end
<1>5. end \in (i + 1)..(Len(s) + 1)
  BY <1>1, <1>2, <1>3
<1>6. type # "eof" /\ type # "error"
  <2>1. "eof" \notin Keywords /\ "error" \notin Keywords
    BY DEF Keywords
  <2> QED BY <2>1
<1> HIDE DEF type, literal
<1>7. Word(s, i).type = type
  BY <1>4 DEF Token
<1> QED BY <1>4, <1>5, <1>6, <1>7 DEF IsTokenAt

LEMMA ScanShape ==
  ASSUME NEW S, NEW s \in Seq(S), NEW i \in 1..Len(s)
  PROVE  IsTokenAt(s, i, ScanToken(s, i))
<1> DEFINE token == ScanToken(s, i)
<1>1. Len(s) \in Nat /\ i \in Nat /\ i <= Len(s)
  BY LenProperties
<1>2. CASE s[i] \in {">", "<", "!"} /\ PieceAt(s, i + 1, "=")
  <2>1. token = Token(s, i, WithEquals(s[i]), i + 2, NoLiteral)
    BY <1>1, <1>2, ScanCases
  <2>2. i + 2 \in (i + 1)..(Len(s) + 1)
    BY <1>1, <1>2 DEF PieceAt
  <2>3. WithEquals(s[i]) # "eof"
    BY <1>2 DEF WithEquals
  <2> QED BY <2>1, <2>2, <2>3 DEF IsTokenAt
<1>3. CASE s[i] \in Symbols /\ ~(s[i] \in {">", "<", "!"} /\ PieceAt(s, i + 1, "="))
  <2>1. token = Token(s, i, s[i], i + 1, NoLiteral)
    BY <1>1, <1>3, ScanCases, Zenon
  <2>2. i + 1 \in (i + 1)..(Len(s) + 1)
    BY <1>1
  <2>3. s[i] # "eof"
    BY <1>3 DEF Symbols
  <2> QED BY <2>1, <2>2, <2>3 DEF IsTokenAt
<1> DEFINE symbol == s[i] \in Symbols \/ (s[i] \in {">", "<", "!"} /\ PieceAt(s, i + 1, "="))
           error == LexerError(s, i)
<1>4. IsTokenAt(s, i, error)
  <2>1. error = Token(s, i, "error", i + 1, NoLiteral)
    BY DEF LexerError
  <2>2. i + 1 \in (i + 1)..(Len(s) + 1)
    BY <1>1
  <2> QED BY <2>1, <2>2 DEF IsTokenAt
<1>5. CASE ~symbol /\ s[i] = "'"
  <2>1. token = Quoted(s, i)
    BY <1>1, <1>5, ScanCases, Zenon
  <2>2. PICK f : /\ \A j \in (i + 1)..(Len(s) + 1) : f[j] = RestAt(s, f, j)
                 /\ Quoted(s, i) = IF f[i + 1].end = 0 THEN LexerError(s, i)
                                   ELSE Token(s, i, "string", f[i + 1].end,
                                              String(f[i + 1].value))
    BY QuotedIsRest
  <2> DEFINE low == i + 1
  <2>3. low \in 1..(Len(s) + 1) /\ \A j \in low..(Len(s) + 1) : f[j] = RestAt(s, f, j)
    BY <1>1, <2>2
  <2>4. low \in low..(Len(s) + 1)
    BY <1>1
  <2>5. f[low].end = 0 \/ f[low].end \in (low + 1)..(Len(s) + 1)
    <3> HIDE DEF low
    <3> QED BY <2>3, <2>4, RestEnds
  <2>6. f[i + 1].end # 0 => f[i + 1].end \in (i + 1)..(Len(s) + 1)
    BY <1>1, <2>5
  <2> QED BY <1>4, <2>1, <2>2, <2>6 DEF IsTokenAt
<1>6. CASE ~symbol /\ s[i] # "'" /\ DigitAt(s, i)
  BY <1>1, <1>6, ScanCases, NumeralShape, Zenon
<1>7. CASE ~symbol /\ s[i] # "'" /\ ~DigitAt(s, i) /\ LetterAt(s, i)
  BY <1>1, <1>7, ScanCases, WordShape, Zenon
<1>8. CASE ~symbol /\ s[i] # "'" /\ ~DigitAt(s, i) /\ ~LetterAt(s, i)
  BY <1>1, <1>4, <1>8, ScanCases, Zenon
<1> QED BY <1>2, <1>3, <1>5, <1>6, <1>7, <1>8

LEMMA NumeralInWindow ==
  ASSUME NEW S, NEW s \in Seq(S), NEW d, NEW e, NEW u \in Seq(S), Shows(s, d, e, u),
         NEW i \in (d + 1)..(e - 1), DigitAt(s, i), Numeral(s, i).end <= e
  PROVE  Numeral(u, i - d) = Moved(Numeral(s, i), d)
<1> DEFINE dot == RunEnd(s, i, DigitAt)
           decimal == PieceAt(s, dot, ".") /\ DigitAt(s, dot + 1)
           whole == NumberOf(SubSeq(s, i, dot - 1))
           last == RunEnd(s, dot + 1, DigitAt)
<1>1. /\ d \in Nat /\ e \in Nat /\ e <= Len(s) + 1 /\ Len(s) \in Nat
      /\ i \in (d + 1)..e /\ i \in 1..(Len(s) + 1) /\ i \in 1..Len(s)
  BY LenProperties DEF Shows
<1>2. dot \in i..(Len(s) + 1)
  BY <1>1, DigitRun
<1>3. Numeral(s, i) = IF decimal THEN Token(s, i, "decimal", last, Number(whole))
                      ELSE Token(s, i, "integer", dot, Number(whole))
  BY DEF Numeral
<1>4. decimal => /\ dot + 1 \in 1..(Len(s) + 1)
                 /\ last \in (dot + 1)..(Len(s) + 1)
                 /\ last <= e
  <2> SUFFICES ASSUME decimal
               PROVE  /\ dot + 1 \in 1..(Len(s) + 1)
                      /\ last \in (dot + 1)..(Len(s) + 1)
                      /\ last <= e
    OBVIOUS
  <2>1. dot + 1 \in 1..(Len(s) + 1)
    BY <1>1, <1>2 DEF PieceAt
  <2> HIDE DEF dot
  <2>2. last \in (dot + 1)..(Len(s) + 1)
    BY <2>1, DigitRun
  <2> HIDE DEF last, whole
  <2>3. Numeral(s, i) = Token(s, i, "decimal", last, Number(whole))
    BY <1>3
  <2>4. Numeral(s, i).end = last
    BY <2>3 DEF Token
  <2> QED BY <2>1, <2>2, <2>4
<1>5. ~decimal => dot <= e
  <2> HIDE DEF dot, decimal, whole
  <2> SUFFICES ASSUME ~decimal
               PROVE  dot <= e
    OBVIOUS
  <2>1. Numeral(s, i) = Token(s, i, "integer", dot, Number(whole))
    BY <1>3
  <2>2. Numeral(s, i).end = dot
    BY <2>1 DEF Token
  <2> QED BY <2>2
<1>6. dot \in i..e
  <2> HIDE DEF decimal, dot, last
  <2> QED BY <1>1, <1>2, <1>4, <1>5
<1>7. RunEnd(u, i - d, DigitAt) = dot - d
  BY <1>1, <1>6, WindowRuns
<1>8. SamePart(s, d, u, i, dot)
  <2> HIDE DEF dot
  <2> QED BY <1>1, <1>6, PartsOfWindow
<1> DEFINE dot2 == RunEnd(u, i - d, DigitAt)
           decimal2 == PieceAt(u, dot2, ".") /\ DigitAt(u, dot2 + 1)
           whole2 == NumberOf(SubSeq(u, i - d, dot2 - 1))
           last2 == RunEnd(u, dot2 + 1, DigitAt)
<1>9. Numeral(u, i - d) = IF decimal2 THEN Token(u, i - d, "decimal", last2, Number(whole2))
                          ELSE Token(u, i - d, "integer", dot2, Number(whole2))
  BY DEF Numeral
<1> HIDE DEF dot
<1>10. dot2 = dot - d
  BY <1>7
<1> HIDE DEF dot2
<1>11. whole2 = whole
  BY <1>8, <1>10 DEF SamePart
<1>12. /\ dot \in Int /\ dot > d /\ dot + 1 \in Int /\ dot + 1 > d
       /\ dot2 + 1 = (dot + 1) - d
  BY <1>1, <1>6, <1>10
<1>13. /\ PieceAt(u, dot2, ".") <=> dot < e /\ PieceAt(s, dot, ".")
       /\ DigitAt(u, dot2 + 1) <=> dot + 1 < e /\ DigitAt(s, dot + 1)
  BY <1>10, <1>12, WindowPieces
<1>14. CASE decimal
  <2>1. last # dot + 1
    <3>1. ~DigitAt(s, last)
      BY <1>4, <1>14, DigitRun
    <3> QED BY <1>14, <3>1
  <2> HIDE DEF last
  <2>2. dot + 1 < e /\ dot < e /\ dot + 1 \in (d + 1)..e /\ last \in i..e
    BY <1>1, <1>4, <1>6, <1>12, <1>14, <2>1
  <2>3. decimal2
    BY <1>13, <1>14, <2>2
  <2>4. last2 = last - d
    <3>1. RunEnd(s, dot + 1, DigitAt) <= e
      BY <1>4, <1>14 DEF last
    <3>2. RunEnd(u, (dot + 1) - d, DigitAt) = RunEnd(s, dot + 1, DigitAt) - d
      BY <2>2, <3>1, WindowRuns
    <3> QED BY <1>12, <3>2 DEF last
  <2> HIDE DEF last2, whole, whole2, decimal, decimal2
  <2>5. Numeral(u, i - d) = Token(u, i - d, "decimal", last - d, Number(whole))
    BY <1>9, <1>11, <2>3, <2>4
  <2>6. Numeral(s, i) = Token(s, i, "decimal", last, Number(whole))
    BY <1>3, <1>14
  <2> QED BY <1>1, <2>2, <2>5, <2>6, TokenInWindow
<1>15. CASE ~decimal
  <2>1. ~decimal2
    BY <1>13, <1>15
  <2> HIDE DEF whole, whole2, decimal, decimal2
  <2>2. Numeral(u, i - d) = Token(u, i - d, "integer", dot - d, Number(whole))
    BY <1>9, <1>10, <1>11, <2>1
  <2>3. Numeral(s, i) = Token(s, i, "integer", dot, Number(whole))
    BY <1>3, <1>15
  <2> QED BY <1>1, <1>6, <2>2, <2>3, TokenInWindow
<1> QED BY <1>14, <1>15

LEMMA WordInWindow ==
  ASSUME NEW S, NEW s \in Seq(S), NEW d, NEW e, NEW u \in Seq(S), Shows(s, d, e, u),
         NEW i \in (d + 1)..(e - 1), LetterAt(s, i), Word(s, i).end <= e
  PROVE  Word(u, i - d) = Moved(Word(s, i), d)
<1> DEFINE end == RunEnd(s, i, PartAt)
           Type1(k, last, word) == IF last = k + 1 /\ word \in Keywords THEN word ELSE "identifier"
           LiteralOf(type) == CASE type = "TRUE" -> Boolean(TRUE)
                                [] type = "FALSE" -> Boolean(FALSE)
                                [] type = "NULL" -> Null
                                [] OTHER -> NoLiteral
           type == Type1(i, end, Upper(s[i]))
           end2 == RunEnd(u, i - d, PartAt)
           type2 == Type1(i - d, end2, Upper(u[i - d]))
<1>1. /\ d \in Nat /\ e \in Nat /\ e <= Len(s) + 1 /\ Len(s) \in Nat
      /\ i \in (d + 1)..e /\ i \in 1..(Len(s) + 1)
  BY LenProperties DEF Shows
<1>2. end \in i..(Len(s) + 1)
  BY <1>1, WordRun
<1>3. /\ Word(s, i) = Token(s, i, type, end, LiteralOf(type))
      /\ Word(u, i - d) = Token(u, i - d, type2, end2, LiteralOf(type2))
  BY DEF Word
<1>4. end <= e
  <2> HIDE DEF end, type, LiteralOf
  <2>1. Word(s, i).end = end
    BY <1>3 DEF Token
  <2> QED BY <2>1
<1>5. end2 = end - d
  BY <1>1, <1>4, WindowRuns
<1>6. u[i - d] = s[i]
  BY DEF Shows
<1> HIDE DEF end, end2
<1>7. type2 = type
  BY <1>1, <1>2, <1>5, <1>6
<1> HIDE DEF type, type2, LiteralOf
<1>8. end \in i..e
  BY <1>1, <1>2, <1>4
<1>9. Word(u, i - d) = Token(u, i - d, type, end - d, LiteralOf(type))
  BY <1>3, <1>5, <1>7
<1> QED BY <1>1, <1>3, <1>8, <1>9, TokenInWindow

(* A token that ends within a window is the same token there.                *)
LEMMA ScanInWindow ==
  ASSUME NEW S, NEW s \in Seq(S), NEW d, NEW e, NEW u \in Seq(S), Shows(s, d, e, u),
         NEW i \in (d + 1)..(e - 1),
         ScanToken(s, i).type # "error", ScanToken(s, i).end <= e
  PROVE  ScanToken(u, i - d) = Moved(ScanToken(s, i), d)
<1> DEFINE token == ScanToken(s, i)
           two == s[i] \in {">", "<", "!"} /\ PieceAt(s, i + 1, "=")
           two2 == u[i - d] \in {">", "<", "!"} /\ PieceAt(u, (i - d) + 1, "=")
<1>1. /\ d \in Nat /\ e \in Nat /\ e <= Len(s) + 1 /\ Len(s) \in Nat /\ Len(u) = e - 1 - d
      /\ i \in (d + 1)..e /\ i \in 1..Len(s) /\ i \in Nat /\ i <= Len(s)
      /\ i - d \in Nat /\ i - d <= Len(u) /\ i - d \in 1..Len(u)
      /\ i \in Int /\ i > d /\ i < e /\ i + 1 \in Int /\ i + 1 > d /\ (i - d) + 1 = (i + 1) - d
      /\ (i - d) + 2 = (i + 2) - d
  BY LenProperties DEF Shows
<1>2. u[i - d] = s[i]
  BY DEF Shows
<1>3. /\ DigitAt(u, i - d) <=> DigitAt(s, i)
      /\ LetterAt(u, i - d) <=> LetterAt(s, i)
      /\ PieceAt(u, (i - d) + 1, "=") <=> i + 1 < e /\ PieceAt(s, i + 1, "=")
  <2> DEFINE k == i + 1
  <2>1. k \in Int /\ k > d /\ (i - d) + 1 = k - d
    BY <1>1
  <2> HIDE DEF k
  <2>2. PieceAt(u, k - d, "=") <=> k < e /\ PieceAt(s, k, "=")
    BY <2>1, WindowPieces
  <2>3. /\ DigitAt(u, i - d) <=> DigitAt(s, i)
        /\ LetterAt(u, i - d) <=> LetterAt(s, i)
    BY <1>1, WindowPieces
  <2> QED BY <2>1, <2>2, <2>3 DEF k
<1>4. token = IF two THEN Token(s, i, WithEquals(s[i]), i + 2, NoLiteral)
              ELSE IF s[i] \in Symbols THEN Token(s, i, s[i], i + 1, NoLiteral)
              ELSE IF s[i] = "'" THEN Quoted(s, i)
              ELSE IF DigitAt(s, i) THEN Numeral(s, i)
              ELSE IF LetterAt(s, i) THEN Word(s, i)
              ELSE LexerError(s, i)
  BY <1>1, ScanCases
<1> DEFINE j == i - d
<1>5. ScanToken(u, j) =
        IF two2 THEN Token(u, j, WithEquals(u[j]), (i + 2) - d, NoLiteral)
        ELSE IF u[j] \in Symbols THEN Token(u, j, u[j], (i + 1) - d, NoLiteral)
        ELSE IF u[j] = "'" THEN Quoted(u, j)
        ELSE IF DigitAt(u, j) THEN Numeral(u, j)
        ELSE IF LetterAt(u, j) THEN Word(u, j)
        ELSE LexerError(u, j)
  <2>1. j \in Nat /\ j <= Len(u) /\ j + 1 = (i + 1) - d /\ j + 2 = (i + 2) - d
    BY <1>1
  <2>2. two2 <=> u[j] \in {">", "<", "!"} /\ PieceAt(u, j + 1, "=")
    OBVIOUS
  <2> HIDE DEF j, two2
  <2> QED BY <2>1, <2>2, ScanCases
<1>6. CASE two
  <2>1. token = Token(s, i, WithEquals(s[i]), i + 2, NoLiteral)
    BY <1>4, <1>6
  <2>2. token.end = i + 2
    BY <2>1 DEF Token
  <2>3. i + 2 \in i..e /\ i + 1 < e
    BY <1>1, <2>2
  <2>4. two2
    BY <1>2, <1>3, <1>6, <2>3
  <2>5. ScanToken(u, j) = Token(u, j, WithEquals(s[i]), (i + 2) - d, NoLiteral)
    BY <1>2, <1>5, <2>4
  <2> QED BY <1>1, <2>1, <2>3, <2>5, TokenInWindow
<1>7. ~two => ~two2
  BY <1>2, <1>3
<1>8. CASE ~two /\ s[i] \in Symbols
  <2>1. token = Token(s, i, s[i], i + 1, NoLiteral)
    BY <1>4, <1>8, Zenon
  <2>2. i + 1 \in i..e
    BY <1>1
  <2> HIDE DEF two, two2
  <2>3. ScanToken(u, j) = Token(u, j, s[i], (i + 1) - d, NoLiteral)
    BY <1>2, <1>5, <1>7, <1>8
  <2> QED BY <1>1, <2>1, <2>2, <2>3, TokenInWindow
<1> HIDE DEF two, two2
<1>9. CASE ~two /\ s[i] \notin Symbols /\ s[i] = "'"
  <2>1. token = Quoted(s, i) /\ ScanToken(u, j) = Quoted(u, j)
    BY <1>2, <1>4, <1>5, <1>7, <1>9
  <2> QED BY <2>1, QuotedInWindow
<1>10. CASE ~two /\ s[i] \notin Symbols /\ s[i] # "'" /\ DigitAt(s, i)
  <2>1. token = Numeral(s, i) /\ ScanToken(u, j) = Numeral(u, j)
    BY <1>2, <1>3, <1>4, <1>5, <1>7, <1>10
  <2> QED BY <1>10, <2>1, NumeralInWindow
<1>11. CASE ~two /\ s[i] \notin Symbols /\ s[i] # "'" /\ ~DigitAt(s, i) /\ LetterAt(s, i)
  <2>1. token = Word(s, i) /\ ScanToken(u, j) = Word(u, j)
    BY <1>2, <1>3, <1>4, <1>5, <1>7, <1>11
  <2> QED BY <1>11, <2>1, WordInWindow
<1>12. CASE ~two /\ s[i] \notin Symbols /\ s[i] # "'" /\ ~DigitAt(s, i) /\ ~LetterAt(s, i)
  <2>1. token = LexerError(s, i)
    BY <1>4, <1>12
  <2>2. token.type = "error"
    BY <2>1 DEF LexerError, Token
  <2> QED BY <2>2
<1> QED BY <1>6, <1>8, <1>9, <1>10, <1>11, <1>12

----------------------------------------------------------------------------
(* The tokens of a text.                                                     *)

EndOfText(s) == Token(s, Len(s) + 1, "eof", Len(s) + 1, NoLiteral)

Written(s) == {i \in 1..Len(s) : s[i] \notin Blanks}

TokensOf(s) == {EndOfText(s)} \cup {ScanToken(s, i) : i \in Written(s)}

(* From p on there are only blanks before the token.                         *)
Follows(s, p, token) ==
  p <= token.start /\ \A j \in p..(token.start - 1) : s[j] \in Blanks

Stops == {"eof", "error"}

(* From p on, ts are the tokens of s: one after the other with only blanks   *)
(* between them, up to the end or to an error.                               *)
Tiles(s, p, ts) ==
  /\ ts \in Seq(TokensOf(s)) /\ ts # <<>>
  /\ Follows(s, p, ts[1])
  /\ \A k \in 1..(Len(ts) - 1) : ts[k].type \notin Stops /\ Follows(s, ts[k].end, ts[k + 1])
  /\ ts[Len(ts)].type \in Stops

(* The tokens from i on, by f: the tokens from the positions after.          *)
TokensAt(s, f, i) ==
  IF i > Len(s) THEN <<Token(s, i, "eof", i, NoLiteral)>>
  ELSE IF s[i] \in Blanks THEN f[i + 1]
  ELSE LET token == ScanToken(s, i)
       IN  IF token.type = "error" THEN <<token>> ELSE <<token>> \o f[token.end]

IsTokens(s, low, f) == f = [i \in low..(Len(s) + 1) |-> TokensAt(s, f, i)]

(* Where tokens begin and end.                                               *)
LEMMA TokenPlaces ==
  ASSUME NEW S, NEW s \in Seq(S)
  PROVE  /\ \A i \in 1..Len(s) : /\ ScanToken(s, i).start = i
                                 /\ ScanToken(s, i).end \in (i + 1)..(Len(s) + 1)
                                 /\ ScanToken(s, i).type # "eof"
         /\ EndOfText(s).start = Len(s) + 1 /\ EndOfText(s).end = Len(s) + 1
         /\ EndOfText(s).type = "eof"
<1>1. ASSUME NEW i \in 1..Len(s)
      PROVE  /\ ScanToken(s, i).start = i
             /\ ScanToken(s, i).end \in (i + 1)..(Len(s) + 1)
             /\ ScanToken(s, i).type # "eof"
  <2>1. PICK type, end, literal : /\ ScanToken(s, i) = Token(s, i, type, end, literal)
                                  /\ end \in (i + 1)..(Len(s) + 1)
                                  /\ type # "eof"
    BY ScanShape DEF IsTokenAt
  <2>2. /\ ScanToken(s, i).start = i /\ ScanToken(s, i).end = end
        /\ ScanToken(s, i).type = type
    BY <2>1 DEF Token
  <2> QED BY <2>1, <2>2
<1>2. /\ EndOfText(s).start = Len(s) + 1 /\ EndOfText(s).end = Len(s) + 1
      /\ EndOfText(s).type = "eof"
  BY DEF EndOfText, Token
<1> QED BY <1>1, <1>2

(* There is such a function: what the definition of Tokenize computes.       *)
LEMMA TokensExist ==
  ASSUME NEW S, NEW s \in Seq(S), NEW low \in 1..(Len(s) + 1)
  PROVE  \E f : IsTokens(s, low, f)
<1> DEFINE len == Len(s) + 1
           T == {k \in Nat : k < len /\ ~\E f : IsTokens(s, len - k, f)}
<1>1. len \in Nat
  BY LenProperties
<1>2. SUFFICES ASSUME T # {} PROVE FALSE
  <2>1. len - low \in Nat /\ len - low < len /\ len - (len - low) = low
    BY <1>1
  <2>2. len - low \notin T
    BY <1>1, <1>2
  <2> QED BY <2>1, <2>2
<1>3. PICK k \in T : \A j \in T : k <= j
  BY <1>2, LeastNumber
<1> DEFINE p == len - k
<1>4. p \in 1..len /\ k \in Nat
  BY <1>1, <1>3
<1>5. CASE k = 0
  <2> DEFINE g == [j \in p..len |-> <<Token(s, j, "eof", j, NoLiteral)>>]
  <2>1. \A j \in p..len : j > Len(s)
    BY <1>1, <1>5
  <2>2. \A j \in p..len : g[j] = TokensAt(s, g, j)
    BY <2>1 DEF TokensAt
  <2>3. g = [j \in p..len |-> g[j]]
    OBVIOUS
  <2> HIDE DEF g
  <2>4. IsTokens(s, p, g)
    BY <2>2, <2>3 DEF IsTokens
  <2> QED BY <1>3, <2>4
<1>6. CASE k # 0
  <2>1. k - 1 \in Nat /\ k - 1 < len /\ k - 1 \notin T /\ len - (k - 1) = p + 1
    BY <1>1, <1>3, <1>4, <1>6
  <2>2. PICK f : IsTokens(s, p + 1, f)
    BY <2>1
  <2> DEFINE g == [j \in p..len |-> IF j = p THEN TokensAt(s, f, j) ELSE f[j]]
  <2>3. \A j \in (p + 1)..len : f[j] = TokensAt(s, f, j)
    BY <2>2 DEF IsTokens
  <2>4. \A j \in (p + 1)..len : g[j] = f[j]
    BY <1>4
  <2>5. g[p] = TokensAt(s, f, p)
    BY <1>4
  <2>6. g = [j \in p..len |-> g[j]]
    OBVIOUS
  <2> HIDE DEF g
  <2>7. ASSUME NEW j \in p..len
        PROVE  TokensAt(s, g, j) = TokensAt(s, f, j)
    <3>1. CASE j > Len(s)
      BY <3>1 DEF TokensAt
    <3>2. CASE ~(j > Len(s)) /\ s[j] \in Blanks
      <4>1. j + 1 \in (p + 1)..len
        BY <1>1, <1>4, <3>2
      <4>2. g[j + 1] = f[j + 1]
        BY <2>4, <4>1
      <4> QED BY <3>2, <4>2 DEF TokensAt
    <3>3. CASE ~(j > Len(s)) /\ s[j] \notin Blanks
      <4> DEFINE end == ScanToken(s, j).end
      <4>1. j \in 1..Len(s)
        BY <1>1, <1>4, <3>3
      <4>2. end \in (j + 1)..len
        BY <4>1, TokenPlaces
      <4>3. end \in (p + 1)..len
        BY <1>1, <1>4, <4>2
      <4>4. g[end] = f[end]
        BY <2>4, <4>3
      <4> QED BY <3>3, <4>4 DEF TokensAt
    <3> QED BY <3>1, <3>2, <3>3
  <2>8. \A j \in p..len : g[j] = TokensAt(s, g, j)
    BY <1>4, <2>3, <2>4, <2>5, <2>7
  <2>9. IsTokens(s, p, g)
    BY <2>6, <2>8 DEF IsTokens
  <2> QED BY <1>3, <2>9
<1> QED BY <1>5, <1>6

(* One token more, at the front.                                             *)
LEMMA TilesMore ==
  ASSUME NEW S, NEW s \in Seq(S), NEW i \in Written(s), ScanToken(s, i).type # "error",
         NEW ts, Tiles(s, ScanToken(s, i).end, ts)
  PROVE  Tiles(s, i, <<ScanToken(s, i)>> \o ts)
<1> DEFINE token == ScanToken(s, i)
           more == <<token>> \o ts
           n == Len(ts)
<1>1. i \in 1..Len(s) /\ Len(s) \in Nat
  BY LenProperties DEF Written
<1>2. token.start = i /\ token.type \notin Stops /\ token \in TokensOf(s)
  BY <1>1, TokenPlaces DEF TokensOf, Stops
<1>3. ts \in Seq(TokensOf(s)) /\ n \in Nat /\ n >= 1
  BY LenProperties, EmptySeq DEF Tiles
<1>4. <<token>> \in Seq(TokensOf(s)) /\ Len(<<token>>) = 1 /\ <<token>>[1] = token
  BY <1>2
<1> HIDE DEF token
<1>5. /\ more \in Seq(TokensOf(s)) /\ Len(more) = 1 + n
      /\ \A k \in 1..(1 + n) : more[k] = IF k <= 1 THEN <<token>>[k] ELSE ts[k - 1]
  BY <1>3, <1>4, ConcatProperties
<1>6. more[1] = token /\ \A k \in 2..(1 + n) : more[k] = ts[k - 1]
  BY <1>3, <1>4, <1>5
<1> HIDE DEF more
<1>7. more # <<>>
  BY <1>3, <1>5, EmptySeq
<1>8. Follows(s, i, more[1])
  BY <1>1, <1>2, <1>6 DEF Follows
<1>9. ASSUME NEW k \in 1..(Len(more) - 1)
      PROVE  more[k].type \notin Stops /\ Follows(s, more[k].end, more[k + 1])
  <2>1. CASE k = 1
    <3>1. more[2] = ts[1]
      BY <1>3, <1>6
    <3>2. Follows(s, token.end, ts[1])
      BY DEF Tiles, token
    <3> QED BY <1>2, <1>6, <2>1, <3>1, <3>2
  <2>2. CASE k # 1
    <3>1. k - 1 \in 1..(n - 1) /\ more[k] = ts[k - 1] /\ more[k + 1] = ts[(k - 1) + 1]
      BY <1>3, <1>5, <1>6, <2>2
    <3>2. ts[k - 1].type \notin Stops /\ Follows(s, ts[k - 1].end, ts[(k - 1) + 1])
      BY <3>1 DEF Tiles
    <3> QED BY <3>1, <3>2
  <2> QED BY <2>1, <2>2
<1>10. more[Len(more)].type \in Stops
  <2>1. more[Len(more)] = ts[n]
    BY <1>3, <1>5, <1>6
  <2> QED BY <2>1 DEF Tiles
<1> QED BY <1>5, <1>7, <1>8, <1>9, <1>10 DEF Tiles, token, more

(* The lexer leaves out nothing but blanks: its tokens lie side by side, and *)
(* each is what is scanned at the place where it begins.                     *)
THEOREM TokensTileText ==
  ASSUME NEW S, NEW s \in Seq(S)
  PROVE  Tiles(s, 1, Tokenize(s))
<1> DEFINE f == CHOOSE g : IsTokens(s, 1, g)
           len == Len(s) + 1
           T == {p \in 1..len : ~Tiles(s, p, f[p])}
<1>1. len \in Nat /\ Len(s) \in Nat /\ 1 \in 1..len
  BY LenProperties
<1>2. IsTokens(s, 1, f)
  BY <1>1, TokensExist
<1>3. Tokenize(s) = f[1]
  BY DEF Tokenize, IsTokens, TokensAt
<1> HIDE DEF f
<1>4. \A i \in 1..len : f[i] = TokensAt(s, f, i)
  BY <1>2 DEF IsTokens
<1>5. SUFFICES ASSUME T # {} PROVE FALSE
  BY <1>1, <1>3, <1>5
<1>6. PICK p \in T : \A k \in T : k <= p
  <2>1. T \in SUBSET (0..len)
    BY <1>1
  <2> HIDE DEF T, len
  <2> QED BY <1>1, <1>5, <2>1, GreatestNumber
<1>7. p \in 1..len /\ ~Tiles(s, p, f[p]) /\ f[p] = TokensAt(s, f, p)
  BY <1>4, <1>6
<1>8. \A k \in 1..len : k > p => Tiles(s, k, f[k])
  BY <1>6
<1>9. CASE p > Len(s)
  <2>1. f[p] = <<EndOfText(s)>>
    <3>1. p = Len(s) + 1
      BY <1>1, <1>7, <1>9
    <3> QED BY <1>7, <1>9, <3>1 DEF TokensAt, EndOfText
  <2> DEFINE ts == <<EndOfText(s)>>
  <2>2. ts \in Seq(TokensOf(s)) /\ Len(ts) = 1 /\ ts[1] = EndOfText(s) /\ ts # <<>>
    BY DEF TokensOf
  <2>3. EndOfText(s).start = p /\ EndOfText(s).type \in Stops
    BY <1>1, <1>7, <1>9, TokenPlaces DEF Stops
  <2>4. Follows(s, p, ts[1])
    BY <1>1, <1>7, <2>2, <2>3 DEF Follows
  <2> HIDE DEF ts
  <2>5. Tiles(s, p, ts)
    BY <2>2, <2>3, <2>4 DEF Tiles
  <2> QED BY <1>7, <2>1, <2>5 DEF ts
<1>10. CASE ~(p > Len(s)) /\ s[p] \in Blanks
  <2>1. f[p] = f[p + 1] /\ p + 1 \in 1..len /\ p + 1 > p
    BY <1>1, <1>7, <1>10 DEF TokensAt
  <2>2. Tiles(s, p + 1, f[p])
    BY <1>8, <2>1
  <2>3. Follows(s, p, f[p][1])
    <3> DEFINE first == f[p][1]
    <3>1. Follows(s, p + 1, first) /\ first \in TokensOf(s)
      BY <2>2, ElementOfSeq, LenProperties, EmptySeq DEF Tiles
    <3>2. first.start \in Int
      <4>1. CASE first = EndOfText(s)
        BY <1>1, <4>1, TokenPlaces
      <4>2. CASE first # EndOfText(s)
        <5>1. PICK i \in Written(s) : first = ScanToken(s, i)
          BY <3>1, <4>2 DEF TokensOf
        <5>2. first.start = i /\ i \in 1..Len(s)
          BY <5>1, TokenPlaces DEF Written
        <5> QED BY <5>2
      <4> QED BY <4>1, <4>2
    <3> HIDE DEF first
    <3> QED BY <1>7, <1>10, <3>1, <3>2 DEF Follows, first
  <2> QED BY <1>7, <2>2, <2>3 DEF Tiles
<1>11. CASE ~(p > Len(s)) /\ s[p] \notin Blanks
  <2> DEFINE token == ScanToken(s, p)
  <2>1. p \in Written(s) /\ p \in 1..Len(s)
    BY <1>1, <1>7, <1>11 DEF Written
  <2>2. token \in TokensOf(s) /\ token.start = p /\ token.end \in 1..len /\ token.end > p
    BY <1>1, <2>1, TokenPlaces DEF TokensOf
  <2>3. CASE token.type = "error"
    <3> DEFINE ts == <<token>>
    <3>1. f[p] = ts
      BY <1>7, <1>11, <2>3 DEF TokensAt
    <3>2. ts \in Seq(TokensOf(s)) /\ Len(ts) = 1 /\ ts[1] = token /\ ts # <<>>
      BY <2>2
    <3> HIDE DEF ts, token
    <3>3. Follows(s, p, ts[1])
      BY <2>1, <2>2, <3>2 DEF Follows
    <3>4. Tiles(s, p, ts)
      BY <2>3, <3>2, <3>3 DEF Tiles, Stops
    <3> QED BY <1>7, <3>1, <3>4
  <2>4. CASE token.type # "error"
    <3>1. f[p] = <<token>> \o f[token.end]
      BY <1>7, <1>11, <2>4 DEF TokensAt
    <3>2. Tiles(s, token.end, f[token.end])
      BY <1>8, <2>2
    <3> QED BY <1>7, <2>1, <2>4, <3>1, <3>2, TilesMore
  <2> QED BY <2>3, <2>4
<1> QED BY <1>9, <1>10, <1>11

(* Two tokens that follow the same place are one.                            *)
LEMMA OneFollows ==
  ASSUME NEW S, NEW s \in Seq(S), NEW p \in Nat,
         NEW a \in TokensOf(s), NEW b \in TokensOf(s), Follows(s, p, a), Follows(s, p, b)
  PROVE  a = b
<1> DEFINE len == Len(s) + 1
<1>1. Len(s) \in Nat /\ len \in Nat
  BY LenProperties
<1>2. ASSUME NEW t \in TokensOf(s)
      PROVE  /\ t.start \in 1..len
             /\ t.start = len => t = EndOfText(s)
             /\ t.start # len => t.start \in Written(s) /\ t = ScanToken(s, t.start)
  <2>1. CASE t = EndOfText(s)
    BY <1>1, <2>1, TokenPlaces
  <2>2. CASE t # EndOfText(s)
    <3>1. PICK i \in Written(s) : t = ScanToken(s, i)
      BY <2>2 DEF TokensOf
    <3>2. i \in 1..Len(s)
      BY DEF Written
    <3>3. t.start = i
      BY <3>1, <3>2, TokenPlaces
    <3>4. i \in 1..len /\ i # len
      BY <1>1, <3>2
    <3> QED BY <3>1, <3>3, <3>4
  <2> QED BY <2>1, <2>2
<1>3. ASSUME NEW t \in TokensOf(s), NEW t2 \in TokensOf(s),
             Follows(s, p, t), Follows(s, p, t2), t.start < t2.start
      PROVE  FALSE
  <2>1. t.start \in p..(t2.start - 1) /\ t.start # len
    BY <1>1, <1>2, <1>3 DEF Follows
  <2>2. s[t.start] \in Blanks
    BY <1>3, <2>1 DEF Follows
  <2> QED BY <1>2, <2>1, <2>2 DEF Written
<1>4. ~(a.start < b.start) /\ ~(b.start < a.start)
  BY <1>3
<1>5. a.start = b.start
  BY <1>1, <1>2, <1>4
<1> QED BY <1>2, <1>5

(* A text has its tokens in one way only.                                    *)
LEMMA TilesAgree ==
  ASSUME NEW S, NEW s \in Seq(S), NEW p \in Nat, NEW a, NEW b, Tiles(s, p, a), Tiles(s, p, b)
  PROVE  \A k \in 1..Len(a) : k <= Len(b) /\ a[k] = b[k]
<1> DEFINE OK(k) == k <= Len(b) /\ a[k] = b[k]
           T == {k \in 1..Len(a) : ~OK(k)}
<1>1. /\ a \in Seq(TokensOf(s)) /\ Len(a) \in Nat /\ Len(a) >= 1
      /\ b \in Seq(TokensOf(s)) /\ Len(b) \in Nat /\ Len(b) >= 1
  BY LenProperties, EmptySeq DEF Tiles
<1>2. SUFFICES ASSUME T # {} PROVE FALSE
  OBVIOUS
<1>3. PICK k \in T : \A j \in T : k <= j
  <2>1. T \in SUBSET Nat
    BY <1>1
  <2> HIDE DEF T
  <2> QED BY <1>2, <2>1, LeastNumber
<1>4. k \in 1..Len(a) /\ ~OK(k) /\ a[k] \in TokensOf(s)
  BY <1>1, <1>3, ElementOfSeq
<1>5. CASE k = 1
  <2>1. b[1] \in TokensOf(s) /\ Follows(s, p, a[1]) /\ Follows(s, p, b[1])
    BY <1>1, ElementOfSeq DEF Tiles
  <2>2. a[1] = b[1]
    BY <1>4, <1>5, <2>1, OneFollows
  <2> QED BY <1>1, <1>4, <1>5, <2>2
<1>6. CASE k # 1
  <2> DEFINE m == k - 1
  <2>1. m \in 1..(Len(a) - 1) /\ m + 1 = k /\ m \in 1..Len(a)
    BY <1>1, <1>4, <1>6
  <2>2. OK(m)
    BY <1>1, <1>3, <2>1
  <2> HIDE DEF m
  <2>3. a[m].type \notin Stops /\ Follows(s, a[m].end, a[k])
    BY <2>1 DEF Tiles
  <2>4. m # Len(b)
    BY <2>2, <2>3 DEF Tiles
  <2>5. m \in 1..(Len(b) - 1) /\ k \in 1..Len(b)
    BY <1>1, <2>1, <2>2, <2>4
  <2>6. Follows(s, a[m].end, b[k]) /\ b[k] \in TokensOf(s)
    BY <1>1, <2>1, <2>2, <2>5, ElementOfSeq DEF Tiles
  <2>7. a[m].end \in Nat
    <3>1. a[m] \in TokensOf(s)
      BY <1>1, <2>1, ElementOfSeq
    <3>2. Len(s) \in Nat
      BY LenProperties
    <3>3. CASE a[m] = EndOfText(s)
      BY <3>2, <3>3, TokenPlaces
    <3>4. CASE a[m] # EndOfText(s)
      <4>1. PICK i \in Written(s) : a[m] = ScanToken(s, i)
        BY <3>1, <3>4 DEF TokensOf
      <4>2. a[m].end \in (i + 1)..(Len(s) + 1) /\ i \in 1..Len(s)
        BY <4>1, TokenPlaces DEF Written
      <4> QED BY <3>2, <4>2
    <3> QED BY <3>3, <3>4
  <2>8. a[k] = b[k]
    BY <1>4, <2>3, <2>6, <2>7, OneFollows
  <2> QED BY <1>4, <2>5, <2>8
<1> QED BY <1>5, <1>6

LEMMA TilesAreTokens ==
  ASSUME NEW S, NEW s \in Seq(S), NEW ts, Tiles(s, 1, ts)
  PROVE  ts = Tokenize(s)
<1> DEFINE tokens == Tokenize(s)
<1>1. Tiles(s, 1, tokens)
  BY TokensTileText
<1> HIDE DEF tokens
<1>2. /\ \A k \in 1..Len(ts) : k <= Len(tokens) /\ ts[k] = tokens[k]
      /\ \A k \in 1..Len(tokens) : k <= Len(ts)
  BY <1>1, TilesAgree
<1>3. /\ ts \in Seq(TokensOf(s)) /\ Len(ts) \in Nat /\ Len(ts) >= 1
      /\ tokens \in Seq(TokensOf(s)) /\ Len(tokens) \in Nat /\ Len(tokens) >= 1
  BY <1>1, LenProperties, EmptySeq DEF Tiles
<1>4. Len(ts) = Len(tokens)
  BY <1>2, <1>3
<1>5. ts = tokens
  BY <1>2, <1>3, <1>4, SeqEqual
<1> QED BY <1>5 DEF tokens

(* Tokens do not overlap, and come in the order of the text.                 *)
LEMMA TokensInOrder ==
  ASSUME NEW S, NEW s \in Seq(S), NEW ts, Tiles(s, 1, ts)
  PROVE  \A j, k \in 1..Len(ts) : j < k => ts[j].end <= ts[k].start
<1>1. ts \in Seq(TokensOf(s)) /\ Len(ts) \in Nat /\ Len(s) \in Nat
  BY LenProperties DEF Tiles
<1>2. ASSUME NEW k \in 1..Len(ts)
      PROVE  ts[k].start \in Int /\ ts[k].end \in Int /\ ts[k].start <= ts[k].end
  <2>1. ts[k] \in TokensOf(s)
    BY <1>1, ElementOfSeq
  <2>2. CASE ts[k] = EndOfText(s)
    BY <1>1, <2>2, TokenPlaces
  <2>3. CASE ts[k] # EndOfText(s)
    <3>1. PICK i \in Written(s) : ts[k] = ScanToken(s, i)
      BY <2>1, <2>3 DEF TokensOf
    <3>2. ts[k].start = i /\ ts[k].end \in (i + 1)..(Len(s) + 1) /\ i \in 1..Len(s)
      BY <3>1, TokenPlaces DEF Written
    <3> QED BY <1>1, <3>2
  <2> QED BY <2>2, <2>3
<1> DEFINE OK(k) == \A j \in 1..Len(ts) : j < k => ts[j].end <= ts[k].start
           T == {k \in 1..Len(ts) : ~OK(k)}
<1>3. SUFFICES ASSUME T # {} PROVE FALSE
  OBVIOUS
<1>4. PICK k \in T : \A i \in T : k <= i
  <2>1. T \in SUBSET Nat
    BY <1>1
  <2> HIDE DEF T
  <2> QED BY <1>3, <2>1, LeastNumber
<1>5. PICK j \in 1..Len(ts) : j < k /\ ~(ts[j].end <= ts[k].start)
  BY <1>4
<1> DEFINE m == k - 1
<1>6. k \in 1..Len(ts) /\ m \in 1..Len(ts) /\ m \in 1..(Len(ts) - 1) /\ m + 1 = k /\ j <= m
  BY <1>1, <1>4, <1>5
<1>7. OK(m)
  BY <1>1, <1>4, <1>6
<1> HIDE DEF m
<1>8. ts[m].end <= ts[k].start
  BY <1>6 DEF Tiles, Follows
<1>9. ts[j].end <= ts[m].end
  <2>1. CASE j = m
    BY <1>2, <1>6, <2>1
  <2>2. CASE j < m
    <3>1. ts[j].end <= ts[m].start
      BY <1>7, <2>2
    <3> QED BY <1>2, <1>6, <3>1
  <2> QED BY <1>6, <2>1, <2>2
<1> QED BY <1>2, <1>5, <1>6, <1>8, <1>9

----------------------------------------------------------------------------
(* Statements, cut out of a script.                                          *)

(* Where the tokens of a text stand that are not its end.                    *)
LEMMA WhereTokensStand ==
  ASSUME NEW S, NEW s \in Seq(S), NEW ts, Tiles(s, 1, ts)
  PROVE  \A k \in 1..Len(ts) :
           /\ ts[k].type \notin Stops =>
                /\ ts[k].start \in Written(s)
                /\ ts[k].end \in (ts[k].start + 1)..(Len(s) + 1)
                /\ ts[k] = ScanToken(s, ts[k].start)
           /\ ts[k].type = "eof" => ts[k] = EndOfText(s)
<1> SUFFICES ASSUME NEW k \in 1..Len(ts)
             PROVE  /\ ts[k].type \notin Stops =>
                         /\ ts[k].start \in Written(s)
                         /\ ts[k].end \in (ts[k].start + 1)..(Len(s) + 1)
                         /\ ts[k] = ScanToken(s, ts[k].start)
                    /\ ts[k].type = "eof" => ts[k] = EndOfText(s)
  OBVIOUS
<1>1. ts[k] \in TokensOf(s)
  BY ElementOfSeq DEF Tiles
<1>2. CASE ts[k] = EndOfText(s)
  BY <1>2, TokenPlaces DEF Stops
<1>3. CASE ts[k] # EndOfText(s)
  <2>1. PICK i \in Written(s) : ts[k] = ScanToken(s, i)
    BY <1>1, <1>3 DEF TokensOf
  <2>2. /\ ScanToken(s, i).start = i /\ ScanToken(s, i).end \in (i + 1)..(Len(s) + 1)
        /\ ScanToken(s, i).type # "eof"
    BY TokenPlaces DEF Written
  <2> QED BY <2>1, <2>2
<1> QED BY <1>2, <1>3

(* What is moved by the same distance is followed as before.                 *)
LEMMA FollowsInWindow ==
  ASSUME NEW S, NEW s \in Seq(S), NEW d, NEW e, NEW u \in Seq(S), Shows(s, d, e, u),
         NEW p \in (d + 1)..e, NEW token, token.start \in (d + 1)..e, Follows(s, p, token)
  PROVE  Follows(u, p - d, Moved(token, d))
<1>1. d \in Nat /\ e \in Nat
  BY LenProperties DEF Shows
<1>2. Moved(token, d).start = token.start - d
  BY DEF Moved
<1>3. p - d <= token.start - d
  BY <1>1 DEF Follows
<1>4. ASSUME NEW j \in (p - d)..((token.start - d) - 1)
      PROVE  u[j] \in Blanks
  <2> DEFINE i == j + d
  <2>1. i \in p..(token.start - 1) /\ i \in (d + 1)..(e - 1) /\ i - d = j
    BY <1>1
  <2> HIDE DEF i
  <2>2. s[i] \in Blanks /\ u[i - d] = s[i]
    BY <2>1 DEF Follows, Shows
  <2> QED BY <2>1, <2>2
<1> QED BY <1>2, <1>3, <1>4 DEF Follows

(* The text from one token to another, on its own, has the tokens from the   *)
(* one to the other, moved to where they are in it, and then its end.        *)
LEMMA PartsLexAlike ==
  ASSUME NEW S, NEW s \in Seq(S), Lexes(Tokenize(s)),
         NEW i \in 1..Len(Tokenize(s)), NEW end \in (i + 1)..Len(Tokenize(s))
  PROVE  LET ts == Tokenize(s)
             cut == StatementTokens(ts, i, end)
         IN  Tokenize(Slice(s, ts, i, end)) =
               [k \in 1..Len(cut) |-> Moved(cut[k], ts[i].start - 1)]
<1> DEFINE ts == Tokenize(s)
           n == Len(ts)
           d == ts[i].start - 1
           e == ts[end - 1].end
           u == Slice(s, ts, i, end)
           final == [Last(ts) EXCEPT !.start = e, !.end = e]
           cut == StatementTokens(ts, i, end)
           m == end - i
           moved == [k \in 1..(m + 1) |-> Moved(cut[k], d)]
<1>1. Tiles(s, 1, ts)
  BY TokensTileText
<1>2. /\ ts \in Seq(TokensOf(s)) /\ n \in Nat /\ Len(s) \in Nat
      /\ i \in Nat /\ end \in Nat /\ i >= 1 /\ i < end /\ end <= n
      /\ m \in Nat /\ m >= 1
  BY <1>1, LenProperties DEF Tiles
<1>3. Last(ts) = EndOfText(s)
  <2>1. Last(ts) = ts[n]
    BY DEF Last
  <2>2. ts[n].type = "eof"
    BY <2>1 DEF Lexes
  <2>3. n \in 1..n
    BY <1>2
  <2> HIDE DEF ts, n
  <2> QED BY <1>1, <2>1, <2>2, <2>3, WhereTokensStand DEF n
<1> HIDE DEF ts
<1>4. ASSUME NEW k \in i..(end - 1)
      PROVE  /\ ts[k].start \in Written(s)
             /\ ts[k].end \in (ts[k].start + 1)..(Len(s) + 1)
             /\ ts[k] = ScanToken(s, ts[k].start)
             /\ ts[k].type \notin Stops
  <2>1. k \in 1..n /\ k \in 1..(n - 1)
    BY <1>2
  <2>2. ts[k].type \notin Stops
    BY <1>1, <2>1 DEF Tiles
  <2> QED BY <1>1, <2>1, <2>2, WhereTokensStand
<1>5. d \in Nat /\ ts[i].start = d + 1
  BY <1>2, <1>4 DEF Written
<1>6. e \in (d + 1)..(Len(s) + 1)
  <2> DEFINE l == end - 1
  <2>1. l \in i..(end - 1) /\ i \in i..(end - 1) /\ l \in 1..n /\ i \in 1..n
    BY <1>2
  <2>2. /\ ts[i].start \in 1..Len(s) /\ ts[l].start \in 1..Len(s)
        /\ ts[i].end \in (ts[i].start + 1)..(Len(s) + 1)
        /\ ts[l].end \in (ts[l].start + 1)..(Len(s) + 1)
    BY <1>4, <2>1 DEF Written
  <2>3. i < l => ts[i].end <= ts[l].start
    BY <1>1, <2>1, TokensInOrder
  <2>4. e = ts[l].end /\ (i = l \/ i < l)
    BY <1>2
  <2> HIDE DEF e, d, l
  <2> QED BY <1>2, <1>5, <2>2, <2>3, <2>4
<1>7. u \in Seq(S) /\ Shows(s, d, e, u)
  <2>1. u = SubSeq(s, d + 1, e - 1)
    BY <1>5 DEF Slice
  <2> HIDE DEF u, d, e
  <2> QED BY <1>5, <1>6, <2>1, WindowShows
<1> HIDE DEF u, d
<1>8. ASSUME NEW k \in i..(end - 1)
      PROVE  /\ ts[k].start \in (d + 1)..(e - 1)
             /\ ts[k].end \in (ts[k].start + 1)..e
  <2> DEFINE l == end - 1
  <2>1. k \in 1..n /\ i \in 1..n /\ l \in 1..n /\ l \in i..(end - 1)
    BY <1>2
  <2>2. /\ i < k => ts[i].end <= ts[k].start
        /\ k < l => ts[k].end <= ts[l].start
    BY <1>1, <2>1, TokensInOrder
  <2>3. \A j \in {i, k, l} : ts[j].start \in Int /\ ts[j].end \in Int /\ ts[j].start < ts[j].end
    <3> SUFFICES ASSUME NEW j \in i..(end - 1)
                 PROVE  /\ ts[j].start \in Int /\ ts[j].end \in Int
                        /\ ts[j].start < ts[j].end
      BY <1>2, <2>1
    <3>1. ts[j].start \in 1..Len(s) /\ ts[j].end \in (ts[j].start + 1)..(Len(s) + 1)
      BY <1>4 DEF Written
    <3>2. Len(s) \in Nat
      BY <1>2
    <3> QED BY <3>1, <3>2
  <2>4. (i = k \/ i < k) /\ (k = l \/ k < l)
    BY <1>2
  <2>5. e = ts[l].end
    OBVIOUS
  <2> HIDE DEF e, l
  <2>6. ts[i].start <= ts[k].start
    <3>1. CASE i = k
      BY <2>3, <3>1
    <3>2. CASE i < k
      BY <2>2, <2>3, <3>2
    <3> QED BY <2>4, <3>1, <3>2
  <2>7. ts[k].end <= ts[l].end
    <3>1. CASE k = l
      BY <2>3, <3>1
    <3>2. CASE k < l
      BY <2>2, <2>3, <3>2
    <3> QED BY <2>4, <3>1, <3>2
  <2> DEFINE a == ts[i].start
             b == ts[k].start
             c == ts[k].end
  <2>8. a \in Int /\ b \in Int /\ c \in Int /\ e \in Int /\ b < c
    BY <2>3, <2>5
  <2>9. d \in Nat /\ a = d + 1 /\ a <= b /\ c <= e
    BY <1>5, <2>5, <2>6, <2>7
  <2> HIDE DEF a, b, c
  <2>10. b \in (d + 1)..(e - 1) /\ c \in (b + 1)..e
    BY <2>8, <2>9
  <2> QED BY <2>10 DEF b, c
<1> HIDE DEF e
<1>9. ASSUME NEW k \in i..(end - 1)
      PROVE  Moved(ts[k], d) \in TokensOf(u)
  <2> DEFINE j == ts[k].start
  <2>1. /\ j \in (d + 1)..(e - 1) /\ ts[k] = ScanToken(s, j)
        /\ ScanToken(s, j).type # "error" /\ ScanToken(s, j).end <= e
        /\ s[j] \notin Blanks
    BY <1>4, <1>5, <1>6, <1>8 DEF Stops, Written
  <2> HIDE DEF j
  <2>2. ScanToken(u, j - d) = Moved(ScanToken(s, j), d)
    BY <1>7, <2>1, ScanInWindow
  <2>3. u[j - d] = s[j] /\ Len(u) = e - 1 - d
    BY <1>7, <2>1 DEF Shows
  <2>4. j - d \in 1..Len(u)
    BY <1>5, <1>6, <2>1, <2>3
  <2>5. j - d \in Written(u)
    BY <2>1, <2>3, <2>4 DEF Written
  <2> QED BY <2>1, <2>2, <2>5 DEF TokensOf
<1>10. Len(u) + 1 = e - d /\ Len(u) \in Nat
  BY <1>5, <1>6, <1>7 DEF Shows
<1>11. Moved(final, d) = EndOfText(u)
  <2>1. /\ final.type = "eof" /\ final.literal = NoLiteral /\ final.start = e /\ final.end = e
        /\ final.lexeme = SubSeq(s, Len(s) + 1, (Len(s) + 1) - 1)
    BY <1>3 DEF EndOfText, Token
  <2>2. SubSeq(s, Len(s) + 1, (Len(s) + 1) - 1) = <<>>
    BY <1>2, SubSeqEmpty
  <2>3. SubSeq(u, Len(u) + 1, (Len(u) + 1) - 1) = <<>>
    BY <1>10, SubSeqEmpty
  <2> HIDE DEF final
  <2> QED BY <1>10, <2>1, <2>2, <2>3 DEF Moved, EndOfText, Token
<1> HIDE DEF final
<1>12. /\ Len(cut) = m + 1
       /\ \A k \in 1..m : cut[k] = ts[(i + k) - 1]
       /\ cut[m + 1] = final
  <2> DEFINE A == TokensOf(s) \cup {final}
             last == end - 1
             part == SubSeq(ts, i, last)
  <2>1. \A k \in i..last : ts[k] \in A
    BY <1>2, ElementOfSeq
  <2>2. /\ part \in Seq(A)
        /\ Len(part) = IF i <= last THEN last - i + 1 ELSE 0
        /\ \A k \in 1..(last - i + 1) : part[k] = ts[i + k - 1]
    <3>1. i \in Int /\ last \in Int
      BY <1>2
    <3> HIDE DEF A, last
    <3> QED BY <2>1, <3>1, SubSeqProperties
  <2>3. Len(part) = m /\ \A k \in 1..m : part[k] = ts[(i + k) - 1]
    BY <1>2, <2>2
  <2>4. cut = Append(part, final)
    BY DEF StatementTokens, final, e
  <2>5. final \in A
    OBVIOUS
  <2> HIDE DEF A, part, cut
  <2> QED BY <2>2, <2>3, <2>4, <2>5, AppendProperties
<1> HIDE DEF cut
<1>13. /\ \A k \in 1..m : moved[k] = Moved(ts[(i + k) - 1], d)
       /\ moved[m + 1] = EndOfText(u)
  BY <1>2, <1>11, <1>12
<1>14. moved \in Seq(TokensOf(u)) /\ Len(moved) = m + 1
  <2>1. \A k \in 1..(m + 1) : moved[k] \in TokensOf(u)
    <3> SUFFICES ASSUME NEW k \in 1..(m + 1)
                 PROVE  moved[k] \in TokensOf(u)
      OBVIOUS
    <3>1. CASE k = m + 1
      BY <1>13, <3>1 DEF TokensOf
    <3>2. CASE k # m + 1
      <4>1. k \in 1..m /\ (i + k) - 1 \in i..(end - 1)
        BY <1>2, <3>2
      <4> HIDE DEF moved, m
      <4> QED BY <1>9, <1>13, <4>1
    <3> QED BY <3>1, <3>2
  <2>2. moved \in [1..(m + 1) -> TokensOf(u)]
    BY <2>1
  <2>3. m + 1 \in Nat
    BY <1>2
  <2> HIDE DEF moved, m
  <2> QED BY <2>2, <2>3
<1> HIDE DEF moved
<1>15. ASSUME NEW k \in 1..m
       PROVE  Moved(ts[(i + k) - 1], d).type \notin Stops
  <2>1. (i + k) - 1 \in i..(end - 1)
    BY <1>2
  <2>2. ts[(i + k) - 1].type \notin Stops
    BY <1>4, <2>1
  <2> QED BY <2>2 DEF Moved
<1>16. Follows(u, 1, moved[1])
  <2>1. moved[1] = Moved(ts[i], d)
    <3>1. (i + 1) - 1 = i /\ 1 \in 1..m
      BY <1>2
    <3> QED BY <1>13, <3>1
  <2>2. moved[1].start = 1
    BY <1>5, <2>1 DEF Moved
  <2> QED BY <2>2 DEF Follows
<1>17. ASSUME NEW k \in 1..m
       PROVE  Follows(u, moved[k].end, moved[k + 1])
  <2> DEFINE j == (i + k) - 1
  <2>1. j \in i..(end - 1) /\ j + 1 = (i + (k + 1)) - 1 /\ j \in 1..(n - 1)
    BY <1>2
  <2>2. moved[k] = Moved(ts[j], d)
    BY <1>13
  <2>3. moved[k].end = ts[j].end - d
    BY <2>2 DEF Moved
  <2>4. CASE k # m
    <3>1. k + 1 \in 1..m /\ j + 1 \in i..(end - 1)
      BY <1>2, <2>1, <2>4
    <3>2. moved[k + 1] = Moved(ts[j + 1], d)
      BY <1>13, <2>1, <3>1
    <3> HIDE DEF j
    <3>3. Follows(s, ts[j].end, ts[j + 1])
      BY <1>1, <2>1 DEF Tiles
    <3>4. ts[j].end \in (d + 1)..e /\ ts[j + 1].start \in (d + 1)..e
      <4>1. /\ ts[j].start \in (d + 1)..(e - 1) /\ ts[j].end \in (ts[j].start + 1)..e
            /\ ts[j + 1].start \in (d + 1)..(e - 1)
        BY <1>8, <2>1, <3>1
      <4> QED BY <1>5, <1>6, <4>1
    <3>5. Follows(u, ts[j].end - d, Moved(ts[j + 1], d))
      BY <1>7, <3>3, <3>4, FollowsInWindow
    <3> QED BY <2>3, <3>2, <3>5
  <2>5. CASE k = m
    <3>1. j = end - 1
      BY <1>2, <2>5
    <3>2. moved[k].end = e - d
      BY <2>3, <3>1 DEF e
    <3>3. moved[k + 1] = EndOfText(u)
      BY <1>13, <2>5
    <3>4. EndOfText(u).start = Len(u) + 1
      BY DEF EndOfText, Token
    <3>5. moved[k + 1].start = moved[k].end /\ moved[k].end \in Int
      BY <1>10, <3>2, <3>3, <3>4
    <3> QED BY <3>5 DEF Follows
  <2> QED BY <2>4, <2>5
<1>18. Tiles(u, 1, moved)
  <2>1. moved # <<>>
    BY <1>2, <1>14, EmptySeq
  <2>2. \A k \in 1..m : moved[k].type \notin Stops
    BY <1>13, <1>15
  <2>3. moved[m + 1].type \in Stops
    BY <1>13 DEF EndOfText, Token, Stops
  <2>4. Len(moved) - 1 = m
    BY <1>2, <1>14
  <2> HIDE DEF m
  <2> QED BY <1>14, <1>16, <1>17, <2>1, <2>2, <2>3, <2>4 DEF Tiles
<1>19. moved = Tokenize(u)
  BY <1>7, <1>18, TilesAreTokens
<1> QED BY <1>12, <1>19 DEF moved, cut, d, u, ts

(* The tokens that end a statement. *)
EndsStatement(ts, j) == Type(ts, j) \in {";", "eof"}

(* A statement has an end after its first token.                             *)
LEMMA EndOfStatement ==
  ASSUME NEW ts, NEW n \in Nat, n = Len(ts), EndsStatement(ts, n),
         NEW i \in 1..n, ~EndsStatement(ts, i)
  PROVE  StatementEnd(ts, i) \in (i + 1)..n
<1> DEFINE E == {j \in i..n : EndsStatement(ts, j)}
<1>1. StatementEnd(ts, i) = Min(E)
  BY Zenon DEF StatementEnd, EndsStatement
<1>2. E \in SUBSET Nat
  OBVIOUS
<1>3. n \in E
  <2>1. n \in i..n
    OBVIOUS
  <2> QED BY <2>1
<1>4. Min(E) \in E
  <2> HIDE DEF E
  <2> QED BY <1>2, <1>3, MinIsLeast
<1>5. Min(E) \in i..n /\ EndsStatement(ts, Min(E))
  BY <1>4, Zenon
<1>6. Min(E) # i
  BY <1>5, Zenon
<1> HIDE DEF E
<1> QED BY <1>1, <1>5, <1>6

(* The text that the script parser records for a statement has, on its own,  *)
(* the tokens that the statement was parsed from, but for where they stand.  *)
THEOREM StatementsLexAlike ==
  ASSUME NEW S, NEW s \in Seq(S), Lexes(Tokenize(s)),
         NEW i \in 1..Len(Tokenize(s)), Type(Tokenize(s), i) \notin {";", "eof"}
  PROVE  LET ts == Tokenize(s)
             end == StatementEnd(ts, i)
             cut == StatementTokens(ts, i, end)
         IN  Tokenize(Slice(s, ts, i, end)) =
               [k \in 1..Len(cut) |-> Moved(cut[k], ts[i].start - 1)]
<1> DEFINE ts == Tokenize(s)
           n == Len(ts)
<1>1. Tiles(s, 1, ts)
  BY TokensTileText
<1>2. n \in Nat
  BY <1>1, LenProperties DEF Tiles
<1>3. Type(ts, n) = "eof"
  BY DEF Lexes, Last, Type
<1>4. EndsStatement(ts, n) /\ ~EndsStatement(ts, i)
  BY <1>3, Zenon DEF EndsStatement
<1>5. StatementEnd(ts, i) \in (i + 1)..n
  BY <1>2, <1>4, EndOfStatement
<1> QED BY <1>5, PartsLexAlike

----------------------------------------------------------------------------
(* Statements, counted by the editor.                                        *)

(* What is read after i pieces, by r: what was read before.                  *)
ReadAt(s, r, i) == IF i = 0 THEN "between" ELSE ReadPiece(s, i, r[i - 1])

IsReading(s, n, r) == r = [i \in 0..n |-> ReadAt(s, r, i)]

Reads(s, r) == \A i \in 0..Len(s) : r[i] = ReadAt(s, r, i)

Semicolon == ";"

(* Where the editor counts a statement.                                      *)
CountedAt(s, r) ==
  {i \in 1..(Len(s) + 1) :
     IF i > Len(s) THEN r[i - 1] # "between" ELSE r[i - 1] = "statement" /\ s[i] = Semicolon}

ModeOf(T) ==
  CASE T = {} -> "empty" [] Cardinality(T) = 1 -> "single" [] OTHER -> "script"

(* There is such a function: what detectStatementMode computes.              *)
LEMMA ReadingExists ==
  ASSUME NEW s, NEW n \in Nat
  PROVE  \E r : IsReading(s, n, r)
<1> DEFINE T == {k \in Nat : ~\E r : IsReading(s, k, r)}
<1>1. SUFFICES ASSUME T # {} PROVE FALSE
  OBVIOUS
<1>2. PICK k \in T : \A j \in T : k <= j
  <2>1. T \in SUBSET Nat
    OBVIOUS
  <2> HIDE DEF T
  <2> QED BY <1>1, <2>1, LeastNumber
<1>3. CASE k = 0
  <2> DEFINE r == [i \in 0..0 |-> "between"]
  <2>1. \A i \in 0..0 : r[i] = ReadAt(s, r, i)
    BY DEF ReadAt
  <2>2. r = [i \in 0..0 |-> r[i]]
    OBVIOUS
  <2> HIDE DEF r
  <2>3. IsReading(s, 0, r)
    BY <2>1, <2>2 DEF IsReading
  <2> QED BY <1>2, <1>3, <2>3
<1>4. CASE k # 0
  <2> DEFINE m == k - 1
  <2>1. m \in Nat /\ m \notin T /\ k = m + 1
    BY <1>2, <1>4
  <2>2. PICK q : IsReading(s, m, q)
    BY <2>1
  <2> HIDE DEF m
  <2> DEFINE r == [i \in 0..k |-> IF i = k THEN ReadPiece(s, k, q[m]) ELSE q[i]]
  <2>3. \A i \in 0..m : q[i] = ReadAt(s, q, i)
    BY <2>2 DEF IsReading
  <2>4. \A i \in 0..m : r[i] = q[i]
    BY <2>1
  <2>5. r[k] = ReadPiece(s, k, q[m])
    BY <2>1
  <2>6. r = [i \in 0..k |-> r[i]]
    OBVIOUS
  <2> HIDE DEF r
  <2>7. ASSUME NEW i \in 0..k
        PROVE  r[i] = ReadAt(s, r, i)
    <3>1. CASE i = k
      <4>1. i - 1 = m /\ i # 0 /\ m \in 0..m
        BY <2>1, <3>1
      <4>2. r[i - 1] = q[m]
        BY <2>4, <4>1
      <4> QED BY <2>5, <3>1, <4>1, <4>2 DEF ReadAt
    <3>2. CASE i # k /\ i # 0
      <4>1. i \in 0..m /\ i - 1 \in 0..m
        BY <2>1, <3>2
      <4>2. r[i] = q[i] /\ r[i - 1] = q[i - 1]
        BY <2>4, <4>1
      <4> QED BY <2>3, <3>2, <4>1, <4>2 DEF ReadAt
    <3>3. CASE i = 0
      <4>1. 0 \in 0..m
        BY <2>1
      <4> QED BY <2>3, <2>4, <3>3, <4>1 DEF ReadAt
    <3> QED BY <3>1, <3>2, <3>3
  <2>8. IsReading(s, k, r)
    BY <2>6, <2>7 DEF IsReading
  <2> QED BY <1>2, <2>8
<1> QED BY <1>3, <1>4

(* The mode is the number of places where a statement is counted.            *)
LEMMA ModeIsCounted ==
  ASSUME NEW S, NEW s \in Seq(S)
  PROVE  \E r : Reads(s, r) /\ DetectStatementMode(s) = ModeOf(CountedAt(s, r))
<1> DEFINE r == CHOOSE q : IsReading(s, Len(s), q)
<1>1. Len(s) \in Nat
  BY LenProperties
<1>2. IsReading(s, Len(s), r)
  BY <1>1, ReadingExists
<1>3. DetectStatementMode(s) = ModeOf(CountedAt(s, r))
  BY Zenon DEF DetectStatementMode, ModeOf, CountedAt, IsReading, ReadAt, Semicolon
<1> HIDE DEF r
<1>4. Reads(s, r)
  BY <1>2 DEF IsReading, Reads
<1> QED BY <1>3, <1>4

(* Blanks change nothing outside strings.                                    *)
LEMMA BlanksRead ==
  ASSUME NEW S, NEW s \in Seq(S), NEW r, Reads(s, r),
         NEW p \in 1..(Len(s) + 1), NEW e \in p..(Len(s) + 1),
         \A q \in p..(e - 1) : s[q] \in Blanks,
         r[p - 1] \in {"between", "statement"}
  PROVE  r[e - 1] = r[p - 1]
<1> DEFINE T == {k \in p..e : r[k - 1] # r[p - 1]}
<1>1. Len(s) \in Nat
  BY LenProperties
<1>2. SUFFICES ASSUME T # {} PROVE FALSE
  <2>1. e \in p..e
    BY <1>1
  <2> QED BY <1>2, <2>1
<1>3. PICK k \in T : \A j \in T : k <= j
  <2>1. T \in SUBSET Nat
    BY <1>1
  <2> HIDE DEF T
  <2> QED BY <1>2, <2>1, LeastNumber
<1>4. k \in p..e /\ r[k - 1] # r[p - 1] /\ k # p
  BY <1>3
<1> DEFINE m == k - 1
<1>5. /\ m \in p..(e - 1) /\ m \in p..e /\ m \in 0..Len(s) /\ m # 0 /\ m < k
  BY <1>1, <1>4
<1>6. m \notin T
  <2>1. ~(k <= m)
    BY <1>4
  <2> HIDE DEF T, m
  <2> QED BY <1>3, <2>1
<1>7. r[m - 1] = r[p - 1]
  BY <1>5, <1>6
<1>8. s[m] \in Blanks
  BY <1>5
<1> HIDE DEF m, T
<1>9. r[m] = ReadPiece(s, m, r[m - 1])
  BY <1>5 DEF Reads, ReadAt
<1>10. s[m] # "'" /\ s[m] # Semicolon /\ s[m] \in ModeBlanks
  BY <1>8, Zenon DEF Blanks, ModeBlanks, Semicolon
<1>11. ReadOutside(s[m], r[m - 1]) = r[m - 1]
  BY <1>10, Zenon DEF ReadOutside, Semicolon
<1>12. ReadPiece(s, m, r[m - 1]) = r[m - 1]
  BY <1>7, <1>11 DEF ReadPiece
<1> QED BY <1>4, <1>7, <1>9, <1>12 DEF m

(* A string, once it has begun, is read to its end, and in it no statement   *)
(* is counted.                                                               *)
LEMMA StringRead ==
  ASSUME NEW S, NEW s \in Seq(S), NEW r, Reads(s, r),
         NEW low \in 1..(Len(s) + 1), NEW f,
         \A j \in low..(Len(s) + 1) : f[j] = RestAt(s, f, j),
         NEW first \in low..(Len(s) + 1), f[first].end # 0, r[first - 1] = "string"
  PROVE  /\ r[f[first].end - 1] = "statement"
         /\ \A q \in first..(f[first].end - 1) : r[q - 1] # "statement"
<1> DEFINE len == Len(s) + 1
           Done(j) == /\ r[f[j].end - 1] = "statement"
                      /\ \A q \in j..(f[j].end - 1) : r[q - 1] # "statement"
           OK(j) == f[j].end # 0 /\ r[j - 1] = "string" => Done(j)
           T == {j \in low..len : ~OK(j)}
<1>1. len \in Nat /\ Len(s) \in Nat
  BY LenProperties
<1>2. SUFFICES ASSUME T # {} PROVE FALSE
  OBVIOUS
<1>3. PICK j \in T : \A k \in T : k <= j
  <2>1. T \in SUBSET (0..len)
    BY <1>1
  <2> HIDE DEF T, len
  <2> QED BY <1>1, <1>2, <2>1, GreatestNumber
<1>4. /\ j \in low..len /\ f[j] = RestAt(s, f, j)
      /\ f[j].end # 0 /\ r[j - 1] = "string" /\ ~Done(j)
  BY <1>3
<1>5. \A k \in low..len : k > j => OK(k)
  <2>1. ASSUME NEW k \in low..len, k > j
        PROVE  k \notin T
    <3>1. ~(k <= j)
      BY <1>1, <1>4, <2>1
    <3> HIDE DEF T
    <3> QED BY <1>3, <3>1
  <2> QED BY <2>1
<1> HIDE DEF T
<1>6. j <= Len(s) /\ ~(j > Len(s))
  <2>1. CASE j > Len(s)
    <3>1. ~Closes(s, j)
      BY <1>1, <1>4, <2>1 DEF Closes, PieceAt
    <3>2. f[j] = [value |-> <<>>, end |-> 0]
      BY <1>4, <2>1, <3>1 DEF RestAt
    <3> QED BY <1>4, <3>2
  <2> QED BY <1>1, <1>4, <2>1
<1>7. j \in 1..Len(s) /\ j \in Nat /\ j + 1 \in low..len
  BY <1>1, <1>4, <1>6
<1>8. r[j] = ReadInString(s, j)
  <2>1. j \in 0..Len(s) /\ j # 0
    BY <1>7
  <2>2. r[j] = ReadPiece(s, j, "string")
    BY <1>4, <2>1 DEF Reads, ReadAt
  <2> QED BY <2>2 DEF ReadPiece
<1>9. CASE Closes(s, j)
  <2>1. f[j].end = j + 1
    <3>1. f[j] = [value |-> <<>>, end |-> j + 1]
      BY <1>4, <1>6, <1>9 DEF RestAt
    <3> QED BY <3>1
  <2>2. r[j] = "statement"
    BY <1>7, <1>8, <1>9 DEF ReadInString, Closes, PieceAt
  <2>3. \A q \in j..((j + 1) - 1) : q = j
    BY <1>7
  <2>4. (j + 1) - 1 = j
    BY <1>7
  <2> QED BY <1>4, <2>1, <2>2, <2>3, <2>4
<1>10. CASE ~Closes(s, j)
  <2> DEFINE next == IF s[j] = "'" THEN j + 2 ELSE j + 1
  <2>1. f[j] = [value |-> <<s[j]>> \o f[next].value, end |-> f[next].end]
    BY <1>4, <1>6, <1>10 DEF RestAt
  <2>2. next \in low..len /\ next > j /\ next \in Nat
    BY <1>1, <1>4, <1>6, <1>7, <1>10 DEF Closes, PieceAt
  <2>3. r[next - 1] = "string" /\ \A q \in j..(next - 1) : r[q - 1] # "statement"
    <3>1. CASE s[j] # "'"
      <4>1. next = j + 1 /\ r[j] = "string"
        BY <1>8, <3>1 DEF ReadInString
      <4>2. \A q \in j..(next - 1) : q = j
        BY <1>7, <4>1
      <4>3. next - 1 = j
        BY <1>7, <4>1
      <4> HIDE DEF next
      <4> QED BY <1>4, <4>1, <4>2, <4>3
    <3>2. CASE s[j] = "'"
      <4>1. PieceAt(s, j + 1, "'")
        BY <1>6, <1>10, <3>2 DEF Closes, PieceAt
      <4>2. next = j + 2 /\ r[j] = "quote"
        BY <1>8, <3>2, <4>1 DEF ReadInString
      <4>3. j + 1 \in 0..Len(s) /\ j + 1 # 0 /\ (j + 1) - 1 = j
        BY <1>1, <1>7, <4>1 DEF PieceAt
      <4>4. r[j + 1] = ReadPiece(s, j + 1, "quote")
        BY <4>2, <4>3 DEF Reads, ReadAt
      <4>5. r[j + 1] = "string"
        BY <4>4 DEF ReadPiece
      <4>6. \A q \in j..(next - 1) : q = j \/ q = j + 1
        BY <1>7, <4>2
      <4>7. next - 1 = j + 1
        BY <1>7, <4>2
      <4> HIDE DEF next
      <4> QED BY <1>4, <4>2, <4>3, <4>5, <4>6, <4>7
    <3> QED BY <3>1, <3>2
  <2> HIDE DEF next
  <2>4. f[j].end = f[next].end
    BY <2>1
  <2>5. Done(next)
    <3>1. OK(next)
      BY <1>5, <2>2
    <3> QED BY <1>4, <2>3, <2>4, <3>1
  <2>6. f[next].end \in Int
    <3>1. f[next].end \in (next + 1)..len
      BY <1>4, <2>2, <2>4, RestEnds
    <3> QED BY <1>1, <2>2, <3>1
  <2>7. ASSUME NEW q \in j..(f[next].end - 1)
        PROVE  r[q - 1] # "statement"
    <3>1. q \in j..(next - 1) \/ q \in next..(f[next].end - 1)
      BY <1>7, <2>2, <2>6
    <3> QED BY <2>3, <2>5, <3>1
  <2>8. Done(j)
    BY <2>4, <2>5, <2>7
  <2> QED BY <1>4, <2>8
<1> QED BY <1>9, <1>10

(* A token that is no string and no semicolon has none of their characters,  *)
(* and does not begin with a blank of the editor's.                          *)
LEMMA PlainToken ==
  ASSUME NEW S, NEW s \in Seq(S), NEW i \in Written(s), s[i] # "'",
         ScanToken(s, i).type # "error", s[i] # Semicolon
  PROVE  /\ s[i] \notin ModeBlanks
         /\ \A q \in i..(ScanToken(s, i).end - 1) : s[q] # "'" /\ s[q] # Semicolon
<1> DEFINE token == ScanToken(s, i)
           Plain(q) == s[q] # "'" /\ s[q] # Semicolon
<1>1. Len(s) \in Nat /\ i \in Nat /\ i <= Len(s) /\ i \in 1..Len(s) /\ s[i] \notin Blanks
  BY LenProperties DEF Written
<1>2. \A q : DigitAt(s, q) => Plain(q)
  BY Zenon DEF DigitAt, Digits, Semicolon
<1>3. \A q : LetterAt(s, q) => Plain(q)
  BY Zenon DEF LetterAt, Symbols, Semicolon
<1>4. CASE s[i] \in {">", "<", "!"} /\ PieceAt(s, i + 1, "=")
  <2>1. token = Token(s, i, WithEquals(s[i]), i + 2, NoLiteral)
    BY <1>1, <1>4, ScanCases
  <2>2. token.end = i + 2
    BY <2>1 DEF Token
  <2> HIDE DEF token
  <2>3. \A q \in i..((i + 2) - 1) : q = i \/ q = i + 1
    BY <1>1
  <2>4. Plain(i) /\ Plain(i + 1)
    <3>1. s[i + 1] = "="
      BY <1>4 DEF PieceAt
    <3>2. Plain(i + 1)
      BY <3>1, Zenon DEF Semicolon
    <3> QED BY <3>2
  <2>5. s[i] \notin ModeBlanks
    BY <1>1, <1>4 DEF ModeBlanks
  <2> QED BY <2>2, <2>3, <2>4, <2>5 DEF token
<1>5. CASE s[i] \in Symbols /\ ~(s[i] \in {">", "<", "!"} /\ PieceAt(s, i + 1, "="))
  <2>1. token = Token(s, i, s[i], i + 1, NoLiteral)
    BY <1>1, <1>5, ScanCases, Zenon
  <2>2. token.end = i + 1
    BY <2>1 DEF Token
  <2> HIDE DEF token
  <2>3. \A q \in i..((i + 1) - 1) : q = i
    BY <1>1
  <2>4. s[i] \notin ModeBlanks
    BY <1>1, <1>5 DEF ModeBlanks, Symbols
  <2> QED BY <2>2, <2>3, <2>4 DEF token
<1> DEFINE symbol == s[i] \in Symbols \/ (s[i] \in {">", "<", "!"} /\ PieceAt(s, i + 1, "="))
<1>6. CASE ~symbol /\ DigitAt(s, i)
  <2> DEFINE dot == RunEnd(s, i, DigitAt)
             decimal == PieceAt(s, dot, ".") /\ DigitAt(s, dot + 1)
             last == RunEnd(s, dot + 1, DigitAt)
  <2>1. token = Numeral(s, i)
    BY <1>1, <1>6, ScanCases, Zenon
  <2>2. token.end = IF decimal THEN last ELSE dot
    <3> DEFINE whole == NumberOf(SubSeq(s, i, dot - 1))
    <3>1. Numeral(s, i) = IF decimal THEN Token(s, i, "decimal", last, Number(whole))
                          ELSE Token(s, i, "integer", dot, Number(whole))
      BY DEF Numeral
    <3> HIDE DEF whole, decimal, dot, last
    <3>2. /\ Token(s, i, "decimal", last, Number(whole)).end = last
          /\ Token(s, i, "integer", dot, Number(whole)).end = dot
      BY DEF Token
    <3> QED BY <2>1, <3>1, <3>2
  <2> HIDE DEF token
  <2>3. dot \in i..(Len(s) + 1) /\ \A q \in i..(dot - 1) : DigitAt(s, q)
    <3>1. i \in 1..(Len(s) + 1)
      BY <1>1
    <3> QED BY <3>1, DigitRun
  <2> HIDE DEF dot
  <2>4. CASE decimal
    <3>1. dot + 1 \in 1..(Len(s) + 1) /\ dot \in Nat
      BY <1>1, <2>3, <2>4 DEF PieceAt
    <3>2. Plain(dot)
      <4>1. s[dot] = "."
        BY <2>4 DEF PieceAt
      <4> QED BY <4>1, Zenon DEF Semicolon
    <3>3. last \in (dot + 1)..(Len(s) + 1) /\ \A q \in (dot + 1)..(last - 1) : DigitAt(s, q)
      BY <3>1, DigitRun
    <3> HIDE DEF last
    <3>4. ASSUME NEW q \in i..(last - 1)
          PROVE  q \in i..(dot - 1) \/ q = dot \/ q \in (dot + 1)..(last - 1)
      BY <1>1, <2>3, <3>1, <3>3
    <3>5. \A q \in i..(last - 1) : Plain(q)
      BY <1>2, <2>3, <3>2, <3>3, <3>4
    <3> HIDE DEF decimal
    <3>6. token.end = last
      BY <2>2, <2>4
    <3>7. s[i] \notin ModeBlanks
      BY <1>1, <1>6 DEF ModeBlanks, DigitAt, Digits
    <3> QED BY <3>5, <3>6, <3>7 DEF token
  <2>5. CASE ~decimal
    <3> HIDE DEF decimal
    <3>1. token.end = dot
      BY <2>2, <2>5
    <3>2. s[i] \notin ModeBlanks
      BY <1>1, <1>6 DEF ModeBlanks, DigitAt, Digits
    <3>3. \A q \in i..(dot - 1) : Plain(q)
      BY <1>2, <2>3
    <3> QED BY <3>1, <3>2, <3>3 DEF token
  <2> QED BY <2>4, <2>5
<1>7. CASE ~symbol /\ ~DigitAt(s, i) /\ LetterAt(s, i)
  <2> DEFINE end == RunEnd(s, i, PartAt)
  <2>1. token = Word(s, i)
    BY <1>1, <1>7, ScanCases, Zenon
  <2>2. token.end = end
    BY <2>1 DEF Word, Token
  <2>3. \A q \in i..(end - 1) : PartAt(s, q)
    <3>1. i \in 1..(Len(s) + 1)
      BY <1>1
    <3> QED BY <3>1, WordRun
  <2>4. s[i] \notin ModeBlanks
    BY <1>1, <1>7 DEF ModeBlanks, LetterAt, Strangers
  <2> HIDE DEF token, end
  <2>5. \A q \in i..(end - 1) : Plain(q)
    BY <1>2, <1>3, <2>3 DEF PartAt
  <2> QED BY <2>2, <2>4, <2>5 DEF token
<1>8. CASE ~symbol /\ ~DigitAt(s, i) /\ ~LetterAt(s, i)
  <2>1. token = LexerError(s, i)
    BY <1>1, <1>8, ScanCases, Zenon
  <2>2. token.type = "error"
    BY <2>1 DEF LexerError, Token
  <2> QED BY <2>2
<1> QED BY <1>4, <1>5, <1>6, <1>7, <1>8

(* After the first of pieces that are neither quotes nor semicolons, and     *)
(* begin with none of the editor's blanks, the editor is in a statement.     *)
LEMMA PlainRead ==
  ASSUME NEW S, NEW s \in Seq(S), NEW r, Reads(s, r),
         NEW i \in 1..Len(s), NEW e \in (i + 1)..(Len(s) + 1),
         r[i - 1] \in {"between", "statement"}, s[i] \notin ModeBlanks,
         \A q \in i..(e - 1) : s[q] # "'" /\ s[q] # Semicolon
  PROVE  \A q \in i..(e - 1) : r[q] = "statement"
<1> DEFINE T == {k \in i..(e - 1) : r[k] # "statement"}
<1>1. Len(s) \in Nat
  BY LenProperties
<1>2. SUFFICES ASSUME T # {} PROVE FALSE
  OBVIOUS
<1>3. PICK k \in T : \A j \in T : k <= j
  <2>1. T \in SUBSET Nat
    BY <1>1
  <2> HIDE DEF T
  <2> QED BY <1>2, <2>1, LeastNumber
<1>4. k \in i..(e - 1) /\ r[k] # "statement"
  BY <1>3
<1>5. k \in 0..Len(s) /\ k # 0
  BY <1>1, <1>4
<1>6. s[k] # "'" /\ s[k] # Semicolon
  BY <1>4
<1>7. r[k] = ReadPiece(s, k, r[k - 1])
  BY <1>5 DEF Reads, ReadAt
<1>8. CASE k = i
  <2>1. ReadOutside(s[k], r[k - 1]) = "statement"
    BY <1>6, <1>8, Zenon DEF ReadOutside, Semicolon
  <2>2. ReadPiece(s, k, r[k - 1]) = ReadOutside(s[k], r[k - 1])
    BY <1>8 DEF ReadPiece
  <2> QED BY <1>4, <1>7, <2>1, <2>2
<1>9. CASE k # i
  <2>1. k - 1 \in i..(e - 1) /\ ~(k <= k - 1)
    BY <1>1, <1>4, <1>9
  <2>2. k - 1 \notin T
    <3> HIDE DEF T
    <3> QED BY <1>3, <2>1
  <2>3. r[k - 1] = "statement"
    BY <2>1, <2>2
  <2>4. ReadOutside(s[k], "statement") = "statement"
    BY <1>6, Zenon DEF ReadOutside, Semicolon
  <2>5. ReadPiece(s, k, "statement") = ReadOutside(s[k], "statement")
    BY DEF ReadPiece
  <2> QED BY <1>4, <1>7, <2>3, <2>4, <2>5
<1> QED BY <1>8, <1>9

(* The tokens that are semicolons.                                           *)
LEMMA SemicolonToken ==
  ASSUME NEW S, NEW s \in Seq(S), NEW i \in 1..Len(s)
  PROVE  /\ ScanToken(s, i).type = Semicolon <=> s[i] = Semicolon
         /\ s[i] = Semicolon => ScanToken(s, i).end = i + 1
<1> DEFINE token == ScanToken(s, i)
           two == s[i] \in {">", "<", "!"} /\ PieceAt(s, i + 1, "=")
<1>1. Len(s) \in Nat /\ i \in Nat /\ i <= Len(s)
  BY LenProperties
<1>2. CASE two
  <2>1. token.type = WithEquals(s[i])
    BY <1>1, <1>2, ScanCases DEF Token
  <2>2. WithEquals(s[i]) \in {">=", "<=", "!="}
    BY <1>2 DEF WithEquals
  <2>3. token.type # Semicolon /\ s[i] # Semicolon
    BY <1>2, <2>1, <2>2, Zenon DEF Semicolon
  <2> QED BY <2>3
<1>3. CASE ~two /\ s[i] \in Symbols
  <2>1. token = Token(s, i, s[i], i + 1, NoLiteral)
    BY <1>1, <1>3, ScanCases, Zenon
  <2>2. token.type = s[i] /\ token.end = i + 1
    BY <2>1 DEF Token
  <2> QED BY <2>2
<1>4. CASE ~two /\ s[i] \notin Symbols
  <2>1. s[i] # Semicolon
    BY <1>4, Zenon DEF Symbols, Semicolon
  <2>2. token.type # Semicolon
    <3>1. CASE s[i] = "'"
      <4>1. token = Quoted(s, i)
        BY <1>1, <1>4, <3>1, ScanCases, Zenon
      <4>2. token.type \in {"error", "string"}
        <5>1. PICK f : Quoted(s, i) = IF f[i + 1].end = 0 THEN LexerError(s, i)
                                      ELSE Token(s, i, "string", f[i + 1].end,
                                                 String(f[i + 1].value))
          BY QuotedIsRest
        <5> QED BY <4>1, <5>1 DEF LexerError, Token
      <4> QED BY <4>2, Zenon DEF Semicolon
    <3>2. CASE s[i] # "'" /\ DigitAt(s, i)
      <4>1. token = Numeral(s, i)
        BY <1>1, <1>4, <3>2, ScanCases, Zenon
      <4>2. token.type \in {"decimal", "integer"}
        BY <4>1 DEF Numeral, Token
      <4> QED BY <4>2, Zenon DEF Semicolon
    <3>3. CASE s[i] # "'" /\ ~DigitAt(s, i) /\ LetterAt(s, i)
      <4>1. token = Word(s, i)
        BY <1>1, <1>4, <3>3, ScanCases, Zenon
      <4>2. token.type \in Keywords \cup {"identifier"}
        <5> DEFINE isKeyword == RunEnd(s, i, PartAt) = i + 1 /\ Upper(s[i]) \in Keywords
                   type == IF isKeyword THEN Upper(s[i]) ELSE "identifier"
        <5>1. Word(s, i).type = type
          BY DEF Word, Token
        <5> QED BY <4>1, <5>1
      <4> QED BY <4>2, Zenon DEF Keywords, Semicolon
    <3>4. CASE s[i] # "'" /\ ~DigitAt(s, i) /\ ~LetterAt(s, i)
      <4>1. token = LexerError(s, i)
        BY <1>1, <1>4, <3>4, ScanCases, Zenon
      <4>2. token.type = "error"
        BY <4>1 DEF LexerError, Token
      <4> QED BY <4>2, Zenon DEF Semicolon
    <3> QED BY <3>1, <3>2, <3>3, <3>4
  <2> QED BY <2>1, <2>2
<1> QED BY <1>2, <1>3, <1>4

(* A token that is no semicolon is read to its end, and leaves the editor in *)
(* a statement that has not been counted.                                    *)
LEMMA TokenRead ==
  ASSUME NEW S, NEW s \in Seq(S), NEW r, Reads(s, r), NEW i \in Written(s),
         r[i - 1] \in {"between", "statement"},
         ScanToken(s, i).type # "error", ScanToken(s, i).type # Semicolon
  PROVE  LET e == ScanToken(s, i).end
         IN  /\ r[e - 1] = "statement"
             /\ \A q \in i..(e - 1) : ~(r[q - 1] = "statement" /\ s[q] = Semicolon)
<1> DEFINE e == ScanToken(s, i).end
<1>1. i \in 1..Len(s) /\ Len(s) \in Nat
  BY LenProperties DEF Written
<1>2. s[i] # Semicolon
  BY <1>1, SemicolonToken
<1>3. e \in (i + 1)..(Len(s) + 1)
  BY <1>1, TokenPlaces
<1>4. CASE s[i] # "'"
  <2>1. s[i] \notin ModeBlanks /\ \A q \in i..(e - 1) : s[q] # "'" /\ s[q] # Semicolon
    BY <1>2, <1>4, PlainToken
  <2> HIDE DEF e
  <2>2. \A q \in i..(e - 1) : r[q] = "statement"
    BY <1>1, <1>3, <2>1, PlainRead
  <2>3. e - 1 \in i..(e - 1)
    BY <1>1, <1>3
  <2> QED BY <2>1, <2>2, <2>3 DEF e
<1>5. CASE s[i] = "'"
  <2> DEFINE token == ScanToken(s, i)
  <2>1. token = Quoted(s, i)
    <3>1. s[i] \notin Symbols /\ s[i] \notin {">", "<", "!"}
      BY <1>5, Zenon DEF Symbols
    <3>2. i \in Nat /\ i <= Len(s)
      BY <1>1
    <3> QED BY <1>5, <3>1, <3>2, ScanCases, Zenon
  <2>2. PICK f : /\ \A j \in (i + 1)..(Len(s) + 1) : f[j] = RestAt(s, f, j)
                 /\ Quoted(s, i) = IF f[i + 1].end = 0 THEN LexerError(s, i)
                                   ELSE Token(s, i, "string", f[i + 1].end,
                                              String(f[i + 1].value))
    BY <1>1, QuotedIsRest
  <2>3. f[i + 1].end # 0 /\ e = f[i + 1].end
    <3>1. LexerError(s, i).type = "error"
      BY DEF LexerError, Token
    <3>2. f[i + 1].end # 0
      BY <2>1, <2>2, <3>1
    <3>3. token = Token(s, i, "string", f[i + 1].end, String(f[i + 1].value))
      BY <2>1, <2>2, <3>2
    <3> QED BY <3>2, <3>3 DEF Token
  <2> HIDE DEF e, token
  <2>4. r[i] = "string"
    <3>1. i \in 0..Len(s) /\ i # 0
      BY <1>1
    <3>2. r[i] = ReadPiece(s, i, r[i - 1])
      BY <3>1 DEF Reads, ReadAt
    <3>3. ReadPiece(s, i, r[i - 1]) = ReadOutside(s[i], r[i - 1])
      BY DEF ReadPiece
    <3>4. s[i] \notin ModeBlanks /\ s[i] # Semicolon
      BY <1>5, Zenon DEF ModeBlanks, Blanks, Semicolon
    <3>5. ReadOutside(s[i], r[i - 1]) = "string"
      BY <1>5, <3>4, Zenon DEF ReadOutside, Semicolon
    <3> QED BY <3>2, <3>3, <3>5
  <2> DEFINE low == i + 1
  <2>5. low \in 1..(Len(s) + 1) /\ low \in low..(Len(s) + 1) /\ low - 1 = i
    BY <1>1
  <2>6. /\ \A j \in low..(Len(s) + 1) : f[j] = RestAt(s, f, j)
        /\ f[low].end # 0 /\ e = f[low].end /\ r[low - 1] = "string"
    BY <2>2, <2>3, <2>4, <2>5
  <2> HIDE DEF low
  <2>7. r[e - 1] = "statement" /\ \A q \in low..(e - 1) : r[q - 1] # "statement"
    BY <2>5, <2>6, StringRead
  <2>8. \A q \in i..(e - 1) : q = i \/ q \in low..(e - 1)
    BY <1>1, <1>3 DEF low
  <2> QED BY <1>2, <2>7, <2>8 DEF e
<1> QED BY <1>4, <1>5

(* Where the tokens of a text stand that lexes.                              *)
LEMMA WhereTokensLie ==
  ASSUME NEW S, NEW s \in Seq(S), NEW ts, Tiles(s, 1, ts), ts[Len(ts)].type = "eof",
         NEW k \in 1..Len(ts)
  PROVE  /\ ts[k].start \in 1..(Len(s) + 1)
         /\ k = Len(ts) => ts[k].start = Len(s) + 1
         /\ k # Len(ts) =>
              /\ ts[k].start \in Written(s)
              /\ ts[k].end \in (ts[k].start + 1)..(Len(s) + 1)
              /\ ts[k] = ScanToken(s, ts[k].start)
              /\ ts[k].type # "error"
              /\ Follows(s, ts[k].end, ts[k + 1])
<1>1. Len(ts) \in Nat /\ Len(s) \in Nat
  BY LenProperties DEF Tiles
<1>2. CASE k = Len(ts)
  <2>1. ts[k] = EndOfText(s)
    BY <1>2, WhereTokensStand
  <2>2. ts[k].start = Len(s) + 1
    BY <2>1, TokenPlaces
  <2> QED BY <1>1, <1>2, <2>2
<1>3. CASE k # Len(ts)
  <2>1. k \in 1..(Len(ts) - 1)
    BY <1>1, <1>3
  <2>2. ts[k].type \notin Stops /\ Follows(s, ts[k].end, ts[k + 1])
    BY <2>1 DEF Tiles
  <2>3. ts[k].type # "error"
    BY <2>2 DEF Stops
  <2>4. /\ ts[k].start \in Written(s)
        /\ ts[k].end \in (ts[k].start + 1)..(Len(s) + 1)
        /\ ts[k] = ScanToken(s, ts[k].start)
    BY <2>2, WhereTokensStand
  <2>5. ts[k].start \in 1..(Len(s) + 1)
    BY <1>1, <2>4 DEF Written
  <2> QED BY <1>3, <2>2, <2>3, <2>4, <2>5
<1> QED BY <1>2, <1>3

(* The token before is of the same statement.                                *)
InStatement(ts, k) == k > 1 /\ Type(ts, k - 1) # Semicolon

ReadBefore(ts, k) == IF InStatement(ts, k) THEN "statement" ELSE "between"

(* Before every token, the editor is in a statement if the token before is   *)
(* no semicolon, and between statements otherwise.                           *)
LEMMA TokensRead ==
  ASSUME NEW S, NEW s \in Seq(S), NEW r, Reads(s, r),
         NEW ts, Tiles(s, 1, ts), ts[Len(ts)].type = "eof"
  PROVE  \A k \in 1..Len(ts) : r[ts[k].start - 1] = ReadBefore(ts, k)
<1> DEFINE T == {k \in 1..Len(ts) : r[ts[k].start - 1] # ReadBefore(ts, k)}
<1>1. Len(ts) \in Nat /\ Len(s) \in Nat
  BY LenProperties DEF Tiles
<1>2. SUFFICES ASSUME T # {} PROVE FALSE
  OBVIOUS
<1>3. PICK k \in T : \A j \in T : k <= j
  <2>1. T \in SUBSET Nat
    BY <1>1
  <2> HIDE DEF T
  <2> QED BY <1>2, <2>1, LeastNumber
<1>4. k \in 1..Len(ts) /\ r[ts[k].start - 1] # ReadBefore(ts, k)
  BY <1>3
<1>5. ASSUME NEW p \in 1..(Len(s) + 1), Follows(s, p, ts[k]),
             r[p - 1] \in {"between", "statement"}
      PROVE  r[ts[k].start - 1] = r[p - 1]
  <2> DEFINE e == ts[k].start
  <2>1. e \in 1..(Len(s) + 1)
    BY <1>4, WhereTokensLie
  <2>2. p <= e /\ \A q \in p..(e - 1) : s[q] \in Blanks
    BY <1>5 DEF Follows
  <2> HIDE DEF e
  <2>3. e \in p..(Len(s) + 1)
    BY <1>1, <2>1, <2>2
  <2>4. r[e - 1] = r[p - 1]
    BY <1>5, <2>2, <2>3, BlanksRead
  <2> QED BY <2>4 DEF e
<1>6. CASE k = 1
  <2>1. 0 \in 0..Len(s) /\ 1 \in 1..(Len(s) + 1) /\ 1 - 1 = 0
    BY <1>1
  <2>2. r[0] = "between"
    BY <2>1 DEF Reads, ReadAt
  <2>3. Follows(s, 1, ts[k])
    BY <1>6 DEF Tiles
  <2>4. r[ts[k].start - 1] = "between"
    BY <1>5, <2>1, <2>2, <2>3
  <2>5. ReadBefore(ts, k) = "between"
    BY <1>6 DEF ReadBefore, InStatement
  <2> QED BY <1>4, <2>4, <2>5
<1>7. CASE k # 1
  <2> DEFINE m == k - 1
             i == ts[m].start
             e == ts[m].end
  <2>1. m \in 1..Len(ts) /\ m # Len(ts) /\ m + 1 = k /\ ~(k <= m)
    BY <1>1, <1>4, <1>7
  <2>2. m \notin T
    <3> HIDE DEF T, m
    <3> QED BY <1>3, <2>1
  <2>3. r[i - 1] = ReadBefore(ts, m)
    BY <2>1, <2>2
  <2> HIDE DEF m, T
  <2>4. /\ i \in Written(s) /\ e \in (i + 1)..(Len(s) + 1)
        /\ ts[m] = ScanToken(s, i) /\ ts[m].type # "error" /\ Follows(s, e, ts[k])
    BY <2>1, WhereTokensLie
  <2>5. r[i - 1] \in {"between", "statement"}
    BY <2>3 DEF ReadBefore
  <2> HIDE DEF i
  <2>6. i \in 1..Len(s) /\ e = ScanToken(s, i).end /\ e \in 1..(Len(s) + 1)
    BY <1>1, <2>4 DEF Written
  <2> HIDE DEF e
  <2>7. r[e - 1] = ReadBefore(ts, k)
    <3>1. CASE ts[m].type = Semicolon
      <4>1. s[i] = Semicolon /\ e = i + 1
        BY <2>4, <2>6, <3>1, SemicolonToken
      <4>2. e - 1 = i /\ i \in 0..Len(s) /\ i # 0
        BY <2>6, <4>1
      <4>3. r[i] = ReadPiece(s, i, r[i - 1])
        BY <4>2 DEF Reads, ReadAt
      <4>4. ReadPiece(s, i, r[i - 1]) = ReadOutside(s[i], r[i - 1])
        BY <2>5 DEF ReadPiece
      <4>5. ReadOutside(s[i], r[i - 1]) = "between"
        <5>1. Semicolon # "'" /\ Semicolon \notin ModeBlanks
          BY Zenon DEF Semicolon, ModeBlanks, Blanks
        <5> QED BY <4>1, <5>1, Zenon DEF ReadOutside, Semicolon
      <4>6. ReadBefore(ts, k) = "between"
        BY <3>1 DEF ReadBefore, InStatement, Type, m
      <4> QED BY <4>2, <4>3, <4>4, <4>5, <4>6
    <3>2. CASE ts[m].type # Semicolon
      <4>1. r[e - 1] = "statement"
        BY <2>4, <2>5, <2>6, <3>2, TokenRead
      <4>2. k > 1
        BY <1>4, <1>7
      <4>3. ReadBefore(ts, k) = "statement"
        BY <3>2, <4>2 DEF ReadBefore, InStatement, Type, m
      <4> QED BY <4>1, <4>3
    <3> QED BY <3>1, <3>2
  <2>8. r[e - 1] \in {"between", "statement"}
    BY <2>7 DEF ReadBefore
  <2>9. r[ts[k].start - 1] = r[e - 1]
    BY <1>5, <2>4, <2>6, <2>8
  <2> QED BY <1>4, <2>7, <2>9
<1> QED BY <1>6, <1>7

(* What is not blank is in a token.                                          *)
LEMMA PiecesInTokens ==
  ASSUME NEW S, NEW s \in Seq(S), NEW ts, Tiles(s, 1, ts), ts[Len(ts)].type = "eof",
         NEW i \in Written(s)
  PROVE  \E k \in 1..Len(ts) : k # Len(ts) /\ i \in ts[k].start..(ts[k].end - 1)
<1> DEFINE T == {k \in 1..Len(ts) : ts[k].start <= i}
           n == Len(ts)
<1>1. n \in Nat /\ Len(s) \in Nat /\ i \in 1..Len(s) /\ s[i] \notin Blanks
  BY LenProperties DEF Tiles, Written
<1>2. n >= 1
  BY <1>1, LenProperties, EmptySeq DEF Tiles
<1>3. 1 \in T
  <2> DEFINE first == ts[1].start
  <2>1. 1 \in 1..n
    BY <1>1, <1>2
  <2>2. first \in 1..(Len(s) + 1)
    BY <2>1, WhereTokensLie
  <2>3. \A j \in 1..(first - 1) : s[j] \in Blanks
    BY DEF Tiles, Follows
  <2> HIDE DEF first
  <2>4. first <= i
    BY <1>1, <2>2, <2>3
  <2> QED BY <2>1, <2>4 DEF first
<1>4. PICK k \in T : \A j \in T : j <= k
  <2>1. T \in SUBSET (0..n)
    BY <1>1
  <2> HIDE DEF T, n
  <2> QED BY <1>1, <1>3, <2>1, GreatestNumber
<1>5. k \in 1..n /\ ts[k].start <= i
  BY <1>4
<1>6. k # n
  <2>1. k = n => ts[k].start = Len(s) + 1
    BY <1>5, WhereTokensLie
  <2> QED BY <1>1, <1>5, <2>1
<1> DEFINE start == ts[k].start
           end == ts[k].end
           next == ts[k + 1].start
<1>7. /\ start \in 1..(Len(s) + 1) /\ end \in (start + 1)..(Len(s) + 1)
      /\ Follows(s, end, ts[k + 1])
  BY <1>5, <1>6, WhereTokensLie
<1>8. k + 1 \in 1..n /\ ~(k + 1 <= k)
  BY <1>1, <1>5, <1>6
<1>9. next \in 1..(Len(s) + 1)
  BY <1>8, WhereTokensLie
<1>10. ~(next <= i)
  <2>1. k + 1 \notin T
    <3> HIDE DEF T
    <3> QED BY <1>4, <1>8
  <2> QED BY <1>8, <2>1
<1>11. \A j \in end..(next - 1) : s[j] \in Blanks
  BY <1>7 DEF Follows
<1>12. start <= i
  BY <1>5
<1> HIDE DEF start, end, next
<1>13. i \in start..(end - 1)
  BY <1>1, <1>7, <1>9, <1>10, <1>11, <1>12
<1> QED BY <1>5, <1>6, <1>13 DEF start, end

(* The last tokens of statements: what follows ends one.                     *)
LastTokens(ts) ==
  {k \in 1..(Len(ts) - 1) : Type(ts, k) # Semicolon /\ EndsStatement(ts, k + 1)}

(* The editor counts a statement where the token begins that ends it.        *)
LEMMA CountedWhereEnded ==
  ASSUME NEW S, NEW s \in Seq(S), NEW r, Reads(s, r),
         NEW ts, Tiles(s, 1, ts), ts[Len(ts)].type = "eof"
  PROVE  CountedAt(s, r) = {ts[k + 1].start : k \in LastTokens(ts)}
<1> DEFINE n == Len(ts)
           Ended == {ts[k + 1].start : k \in LastTokens(ts)}
<1>1. n \in Nat /\ Len(s) \in Nat /\ n >= 1 /\ n \in 1..n
  BY LenProperties, EmptySeq DEF Tiles
<1>2. ASSUME NEW k \in 1..n, k > 1, Type(ts, k - 1) # Semicolon, EndsStatement(ts, k)
      PROVE  ts[k].start \in Ended
  <2> DEFINE m == k - 1
  <2>1. m \in 1..(n - 1) /\ m + 1 = k
    BY <1>1, <1>2
  <2>2. m \in LastTokens(ts)
    BY <1>2, <2>1 DEF LastTokens
  <2> HIDE DEF m
  <2> QED BY <2>1, <2>2
<1>3. ASSUME NEW i \in CountedAt(s, r)
      PROVE  i \in Ended
  <2>1. i \in 1..(Len(s) + 1)
    BY DEF CountedAt
  <2>2. CASE i > Len(s)
    <3>1. i = Len(s) + 1 /\ r[i - 1] # "between"
      BY <1>1, <2>1, <2>2 DEF CountedAt
    <3>2. ts[n].start = i
      BY <1>1, <3>1, WhereTokensLie
    <3>3. ReadBefore(ts, n) # "between"
      BY <1>1, <3>1, <3>2, TokensRead
    <3>4. n > 1 /\ Type(ts, n - 1) # Semicolon
      BY <3>3 DEF ReadBefore, InStatement
    <3>5. EndsStatement(ts, n)
      BY Zenon DEF EndsStatement, Type
    <3> QED BY <1>1, <1>2, <3>2, <3>4, <3>5
  <2>3. CASE ~(i > Len(s))
    <3>1. i \in 1..Len(s) /\ r[i - 1] = "statement" /\ s[i] = Semicolon
      BY <1>1, <2>1, <2>3 DEF CountedAt
    <3>2. i \in Written(s)
      <4>1. Semicolon \notin Blanks
        BY Zenon DEF Semicolon, Blanks
      <4> QED BY <3>1, <4>1 DEF Written
    <3>3. PICK k \in 1..n : k # n /\ i \in ts[k].start..(ts[k].end - 1)
      BY <3>2, PiecesInTokens
    <3> DEFINE start == ts[k].start
    <3>4. /\ start \in Written(s) /\ ts[k] = ScanToken(s, start) /\ ts[k].type # "error"
      BY <3>3, WhereTokensLie
    <3>5. r[start - 1] = ReadBefore(ts, k)
      BY TokensRead
    <3>6. r[start - 1] \in {"between", "statement"}
      BY <3>5 DEF ReadBefore
    <3> HIDE DEF start
    <3>7. ts[k].type = Semicolon
      <4>1. SUFFICES ASSUME ts[k].type # Semicolon PROVE FALSE
        OBVIOUS
      <4>2. i \in start..(ScanToken(s, start).end - 1)
        BY <3>3, <3>4 DEF start
      <4> QED BY <3>1, <3>4, <3>6, <4>1, <4>2, TokenRead
    <3>8. i = start
      <4>1. start \in 1..Len(s)
        BY <3>4 DEF Written
      <4>2. ScanToken(s, start).end = start + 1
        BY <3>4, <3>7, <4>1, SemicolonToken
      <4>3. i \in start..((start + 1) - 1)
        BY <3>3, <3>4, <4>2 DEF start
      <4> QED BY <4>1, <4>3
    <3>9. k > 1 /\ Type(ts, k - 1) # Semicolon
      <4>1. ReadBefore(ts, k) = "statement"
        BY <3>1, <3>5, <3>8
      <4> QED BY <4>1 DEF ReadBefore, InStatement
    <3>10. EndsStatement(ts, k)
      BY <3>7, Zenon DEF EndsStatement, Type, Semicolon
    <3> QED BY <1>2, <3>8, <3>9, <3>10 DEF start
  <2> QED BY <2>2, <2>3
<1>4. ASSUME NEW m \in LastTokens(ts)
      PROVE  ts[m + 1].start \in CountedAt(s, r)
  <2> DEFINE k == m + 1
             i == ts[k].start
  <2>1. m \in 1..(n - 1) /\ Type(ts, m) # Semicolon /\ EndsStatement(ts, k)
    BY DEF LastTokens
  <2>2. k \in 1..n /\ k > 1 /\ k - 1 = m
    BY <1>1, <2>1
  <2> HIDE DEF k
  <2>3. r[i - 1] = "statement"
    <3>1. ReadBefore(ts, k) = "statement"
      BY <2>1, <2>2 DEF ReadBefore, InStatement
    <3> QED BY <2>2, <3>1, TokensRead
  <2>4. i \in 1..(Len(s) + 1)
    BY <2>2, WhereTokensLie
  <2>5. ~(i > Len(s)) => s[i] = Semicolon
    <3>1. SUFFICES ASSUME ~(i > Len(s)) PROVE s[i] = Semicolon
      OBVIOUS
    <3>2. k # n
      <4>1. k = n => i = Len(s) + 1
        BY <2>2, WhereTokensLie
      <4> QED BY <1>1, <3>1, <4>1
    <3>3. i \in Written(s) /\ ts[k] = ScanToken(s, i)
      BY <2>2, <3>2, WhereTokensLie
    <3>4. i \in 1..Len(s)
      BY <3>3 DEF Written
    <3>5. ts[k].type # "eof"
      BY <3>3, <3>4, TokenPlaces
    <3>6. ts[k].type = Semicolon
      BY <2>1, <3>5, Zenon DEF EndsStatement, Type, Semicolon
    <3> QED BY <3>3, <3>4, <3>6, SemicolonToken
  <2> HIDE DEF i
  <2>6. i \in CountedAt(s, r)
    BY <2>3, <2>4, <2>5 DEF CountedAt
  <2> QED BY <2>6 DEF i, k
<1>5. \A i : i \in Ended => i \in CountedAt(s, r)
  BY <1>4
<1> QED BY <1>3, <1>5

(* The editor counts the statements of a text, character by character, that  *)
(* the lexer separates: it picks the mode for none, one or more.             *)
THEOREM ModeCountsStatements ==
  ASSUME NEW S, NEW s \in Seq(S), Lexes(Tokenize(s))
  PROVE  DetectStatementMode(s) = ModeOf(LastTokens(Tokenize(s)))
<1> DEFINE ts == Tokenize(s)
           n == Len(ts)
           K == LastTokens(ts)
<1>1. Tiles(s, 1, ts) /\ ts[n].type = "eof"
  <2>1. ts[n].type = "eof"
    BY DEF Lexes, Last
  <2> QED BY <2>1, TokensTileText
<1> HIDE DEF ts
<1>2. n \in Nat
  BY <1>1, LenProperties DEF Tiles
<1>3. PICK r : Reads(s, r) /\ DetectStatementMode(s) = ModeOf(CountedAt(s, r))
  BY ModeIsCounted
<1> DEFINE C == CountedAt(s, r)
           f == [k \in K |-> ts[k + 1].start]
<1>4. C = {ts[k + 1].start : k \in K}
  BY <1>1, <1>3, CountedWhereEnded
<1>5. IsFiniteSet(K)
  <2>1. K \subseteq 1..(n - 1)
    BY DEF LastTokens
  <2>2. IsFiniteSet(1..(n - 1))
    BY <1>2, FS_Interval
  <2> QED BY <2>1, <2>2, FS_Subset
<1>6. ASSUME NEW j \in K, NEW k \in K, j < k
      PROVE  f[j] # f[k]
  <2> DEFINE a == ts[j + 1]
             b == ts[k + 1]
  <2>1. j + 1 \in 1..n /\ k + 1 \in 1..n /\ j + 1 < k + 1 /\ j + 1 # n
    BY <1>2, <1>6 DEF LastTokens
  <2>2. a.end <= b.start
    BY <1>1, <2>1, TokensInOrder
  <2>3. a.start \in 1..(Len(s) + 1) /\ a.end \in (a.start + 1)..(Len(s) + 1)
    BY <1>1, <2>1, WhereTokensLie
  <2>4. b.start \in 1..(Len(s) + 1) /\ Len(s) \in Nat
    BY <1>1, <2>1, WhereTokensLie, LenProperties
  <2>5. f[j] = a.start /\ f[k] = b.start
    OBVIOUS
  <2> DEFINE x == a.start
             y == a.end
             z == b.start
  <2> HIDE DEF x, y, z
  <2>6. x # z
    BY <2>2, <2>3, <2>4 DEF x, y, z
  <2> QED BY <2>5, <2>6 DEF x, z
<1>7. ASSUME NEW j \in K, NEW k \in K, f[j] = f[k]
      PROVE  j = k
  <2>1. j \in Int /\ k \in Int
    BY <1>2 DEF LastTokens
  <2> QED BY <1>6, <1>7, <2>1
<1> HIDE DEF K
<1>8. f \in Bijection(K, C)
  <2>1. f \in [K -> C]
    BY <1>4
  <2>2. \A c \in C : \E k \in K : f[k] = c
    BY <1>4
  <2> HIDE DEF f, C
  <2> QED BY <1>7, <2>1, <2>2 DEF Bijection, Injection, Surjection, IsInjective
<1>9. Cardinality(C) = Cardinality(K)
  BY <1>5, <1>8, FS_Bijection DEF ExistsBijection
<1>10. C = {} <=> K = {}
  BY <1>4
<1>11. ModeOf(C) = ModeOf(K)
  BY <1>9, <1>10 DEF ModeOf
<1> QED BY <1>3, <1>11 DEF K, ts

----------------------------------------------------------------------------
(* Predicates.                                                               *)

(* What a short-circuiting AND or OR makes of two truth values is what       *)
(* three-valued logic makes of them, and an error is the result unless it is *)
(* in the right operand and the left one decides whatever the right one is   *)
(* (expression-evaluator.ts, evaluateLogical).                               *)
THEOREM ShortCircuitsAreKleene ==
  ASSUME NEW op \in {"AND", "OR"},
         NEW v \in {"TRUE", "FALSE", "UNKNOWN", "ERROR"},
         NEW w \in {"TRUE", "FALSE", "UNKNOWN", "ERROR"}
  PROVE  EvaluateLogical(op, v, w) = ThreeValued(op, v, w)
<1>1. /\ Decides("AND", "FALSE") /\ ~Decides("AND", "TRUE") /\ ~Decides("AND", "UNKNOWN")
      /\ Decides("OR", "TRUE") /\ ~Decides("OR", "FALSE") /\ ~Decides("OR", "UNKNOWN")
  BY DEF Decides, TruthValues, Kleene
<1>2. CASE op = "AND"
  BY <1>1, <1>2 DEF ThreeValued, Kleene, EvaluateLogical, SqlAnd
<1>3. CASE op = "OR"
  BY <1>1, <1>3 DEF ThreeValued, Kleene, EvaluateLogical, SqlOr
<1> QED BY <1>2, <1>3

----------------------------------------------------------------------------
(* The columns of a new table.                                               *)

(* The columns that a statement declares, for any names, data types and      *)
(* references.                                                               *)
ColumnsOf(names, dataTypes, references) ==
  [type : {"column_definition"}, name : names, dataType : dataTypes,
   nullable : BOOLEAN, unique : BOOLEAN, primaryKey : BOOLEAN, references : references]

IsKey(constraint) == constraint.type = "primary_key"

IsFor(columns, constraint, k) ==
  Folded(columns[k].name) = Folded(constraint.columnName)

(* The constraints on column k among the first m.                            *)
KeysFor(columns, cs, m, k) ==
  {i \in 1..m : IsKey(cs[i]) /\ IsFor(columns, cs[i], k)}
ReferencesFor(columns, cs, m, k) ==
  {i \in 1..m : ~IsKey(cs[i]) /\ IsFor(columns, cs[i], k)}

(* Column k with all that the constraints say of it, whatever their order.   *)
DeclaredColumn(column, keyed, referring) ==
  [type |-> column.type, name |-> column.name, dataType |-> column.dataType,
   nullable |-> IF keyed = {} THEN column.nullable ELSE FALSE,
   unique |-> IF keyed = {} THEN column.unique ELSE TRUE,
   primaryKey |-> IF keyed = {} THEN column.primaryKey ELSE TRUE,
   references |-> IF referring = {} THEN column.references
                  ELSE Present((CHOOSE c \in referring : TRUE).references)]

ConstraintsAt(cs, I) == {cs[i] : i \in I}

Declared(columns, cs, m) ==
  [k \in DOMAIN columns |->
     DeclaredColumn(columns[k], KeysFor(columns, cs, m, k),
                    ConstraintsAt(cs, ReferencesFor(columns, cs, m, k)))]

(* The first m constraints are on columns of the table, one of them at most  *)
(* makes a primary key and none is there yet, and a column refers to one     *)
(* table at most.                                                            *)
OnColumns(columns, cs, m) ==
  \A i \in 1..m : \E k \in DOMAIN columns : IsFor(columns, cs[i], k)

OneKeyOnly(columns, cs, m) ==
  \A i \in 1..m : IsKey(cs[i]) =>
    PrimaryKeys(columns) = {} /\ \A j \in 1..m : IsKey(cs[j]) => i = j

ReferOnce(columns, cs, m) ==
  \A k \in DOMAIN columns : \A i, j \in ReferencesFor(columns, cs, m, k) :
    columns[k].references = Absent /\ i = j

Fit(columns, cs, m) ==
  OnColumns(columns, cs, m) /\ OneKeyOnly(columns, cs, m) /\ ReferOnce(columns, cs, m)

HasOwnNames(columns) ==
  \A k, l \in DOMAIN columns : Folded(columns[k].name) = Folded(columns[l].name) => k = l

HasOneKey(columns) ==
  \A k, l \in PrimaryKeys(columns) : k = l

(* The declaration of a table that can be created.                           *)
Sound(columns, cs) ==
  HasOwnNames(columns) /\ HasOneKey(columns) /\ Fit(columns, cs, Len(cs))

(* What is built after i constraints, by b.                                  *)
BuiltAt(columns, cs, b, i) ==
  IF i = 0 THEN Parsed(columns, 1) ELSE ApplyTableConstraint(b[i - 1], cs[i])

IsBuilt(columns, cs, n, b) == b = [i \in 0..n |-> BuiltAt(columns, cs, b, i)]

Builds(columns, cs, b) == \A i \in 0..Len(cs) : b[i] = BuiltAt(columns, cs, b, i)

(* There is such a function: what buildCreateTableColumns computes.          *)
LEMMA BuiltExists ==
  ASSUME NEW columns, NEW cs, NEW n \in Nat
  PROVE  \E b : IsBuilt(columns, cs, n, b)
<1> DEFINE T == {k \in Nat : ~\E b : IsBuilt(columns, cs, k, b)}
<1>1. SUFFICES ASSUME T # {} PROVE FALSE
  OBVIOUS
<1>2. PICK k \in T : \A j \in T : k <= j
  <2>1. T \in SUBSET Nat
    OBVIOUS
  <2> HIDE DEF T
  <2> QED BY <1>1, <2>1, LeastNumber
<1>3. CASE k = 0
  <2> DEFINE b == [i \in 0..0 |-> Parsed(columns, 1)]
  <2>1. \A i \in 0..0 : b[i] = BuiltAt(columns, cs, b, i)
    BY DEF BuiltAt
  <2>2. b = [i \in 0..0 |-> b[i]]
    OBVIOUS
  <2> HIDE DEF b
  <2>3. IsBuilt(columns, cs, 0, b)
    BY <2>1, <2>2 DEF IsBuilt
  <2> QED BY <1>2, <1>3, <2>3
<1>4. CASE k # 0
  <2> DEFINE m == k - 1
  <2>1. m \in Nat /\ m \notin T /\ k = m + 1
    BY <1>2, <1>4
  <2>2. PICK a : IsBuilt(columns, cs, m, a)
    BY <2>1
  <2> HIDE DEF m
  <2> DEFINE b == [i \in 0..k |-> IF i = k THEN ApplyTableConstraint(a[m], cs[k]) ELSE a[i]]
  <2>3. \A i \in 0..m : a[i] = BuiltAt(columns, cs, a, i)
    BY <2>2 DEF IsBuilt
  <2>4. \A i \in 0..m : b[i] = a[i]
    BY <2>1
  <2>5. b[k] = ApplyTableConstraint(a[m], cs[k])
    BY <2>1
  <2>6. b = [i \in 0..k |-> b[i]]
    OBVIOUS
  <2> HIDE DEF b
  <2>7. ASSUME NEW i \in 0..k
        PROVE  b[i] = BuiltAt(columns, cs, b, i)
    <3>1. CASE i = k
      <4>1. i - 1 = m /\ i # 0 /\ m \in 0..m
        BY <2>1, <3>1
      <4>2. b[i - 1] = a[m]
        BY <2>4, <4>1
      <4> QED BY <2>5, <3>1, <4>1, <4>2 DEF BuiltAt
    <3>2. CASE i # k /\ i # 0
      <4>1. i \in 0..m /\ i - 1 \in 0..m
        BY <2>1, <3>2
      <4>2. b[i] = a[i] /\ b[i - 1] = a[i - 1]
        BY <2>4, <4>1
      <4> QED BY <2>3, <3>2, <4>1, <4>2 DEF BuiltAt
    <3>3. CASE i = 0
      <4>1. 0 \in 0..m
        BY <2>1
      <4> QED BY <2>3, <2>4, <3>3, <4>1 DEF BuiltAt
    <3> QED BY <3>1, <3>2, <3>3
  <2>8. IsBuilt(columns, cs, k, b)
    BY <2>6, <2>7 DEF IsBuilt
  <2> QED BY <1>2, <2>8
<1> QED BY <1>3, <1>4

(* The columns are those of such a function.                                 *)
LEMMA ColumnsAreBuilt ==
  ASSUME NEW C, NEW statement, statement.constraints \in Seq(C)
  PROVE  \E b : /\ Builds(statement.columns, statement.constraints, b)
                /\ BuildCreateTableColumns(statement) = b[Len(statement.constraints)]
<1> DEFINE columns == statement.columns
           cs == statement.constraints
           b == CHOOSE a : IsBuilt(columns, cs, Len(cs), a)
<1>1. Len(cs) \in Nat
  BY LenProperties
<1>2. IsBuilt(columns, cs, Len(cs), b)
  BY <1>1, BuiltExists
<1>3. BuildCreateTableColumns(statement) = b[Len(cs)]
  BY Zenon DEF BuildCreateTableColumns, IsBuilt, BuiltAt
<1> HIDE DEF b
<1>4. Builds(columns, cs, b)
  BY <1>2 DEF IsBuilt, Builds
<1> QED BY <1>3, <1>4

(* What changes in a column that becomes a key, or refers.                   *)
LEMMA FieldsChanged ==
  ASSUME NEW names, NEW dataTypes, NEW references,
         NEW column \in ColumnsOf(names, dataTypes, references)
  PROVE  /\ KeyColumn(column) =
              [type |-> column.type, name |-> column.name, dataType |-> column.dataType,
               nullable |-> FALSE, unique |-> TRUE, primaryKey |-> TRUE,
               references |-> column.references]
         /\ \A r : ReferringColumn(column, r) =
              [type |-> column.type, name |-> column.name, dataType |-> column.dataType,
               nullable |-> column.nullable, unique |-> column.unique,
               primaryKey |-> column.primaryKey, references |-> Present(r)]
<1> DEFINE Fs == {"type", "name", "dataType", "nullable", "unique", "primaryKey", "references"}
<1>1. column = [f \in Fs |-> column[f]]
  BY DEF ColumnsOf
<1>2. KeyColumn(column) =
        [f \in Fs |-> IF f = "nullable" THEN FALSE
                      ELSE IF f \in {"unique", "primaryKey"} THEN TRUE ELSE column[f]]
  BY <1>1, Zenon DEF KeyColumn
<1>3. ASSUME NEW r
      PROVE  ReferringColumn(column, r) =
               [f \in Fs |-> IF f = "references" THEN Present(r) ELSE column[f]]
  BY <1>1 DEF ReferringColumn
<1>4. ASSUME NEW r
      PROVE ReferringColumn(column, r) =
              [type |-> column.type, name |-> column.name, dataType |-> column.dataType,
               nullable |-> column.nullable, unique |-> column.unique,
               primaryKey |-> column.primaryKey, references |-> Present(r)]
  BY <1>3
<1>5. KeyColumn(column) =
              [type |-> column.type, name |-> column.name, dataType |-> column.dataType,
               nullable |-> FALSE, unique |-> TRUE, primaryKey |-> TRUE,
               references |-> column.references]
  BY <1>2
<1> QED BY <1>4, <1>5

(* A column that is made a key, or to refer, as it is declared.              *)
LEMMA ColumnsChanged ==
  ASSUME NEW names, NEW dataTypes, NEW references,
         NEW column \in ColumnsOf(names, dataTypes, references), NEW keyed, NEW referring
  PROVE  /\ column = DeclaredColumn(column, {}, {})
         /\ KeyColumn(DeclaredColumn(column, keyed, referring))
              = DeclaredColumn(column, {1}, referring)
         /\ \A c : ReferringColumn(DeclaredColumn(column, keyed, {}), c.references)
                     = DeclaredColumn(column, keyed, {c})
<1>1. column = DeclaredColumn(column, {}, {})
  BY DEF ColumnsOf, DeclaredColumn
<1>2. ASSUME NEW refer
      PROVE  \E s : DeclaredColumn(column, keyed, refer) \in ColumnsOf(names, dataTypes, s)
  <2> WITNESS {DeclaredColumn(column, keyed, refer).references}
  <2> QED BY DEF ColumnsOf, DeclaredColumn
<1>3. KeyColumn(DeclaredColumn(column, keyed, referring))
        = DeclaredColumn(column, {1}, referring)
  <2> DEFINE d == DeclaredColumn(column, keyed, referring)
  <2>1. PICK s : d \in ColumnsOf(names, dataTypes, s)
    BY <1>2
  <2>2. KeyColumn(d) =
          [type |-> d.type, name |-> d.name, dataType |-> d.dataType, nullable |-> FALSE,
           unique |-> TRUE, primaryKey |-> TRUE, references |-> d.references]
    BY <2>1, FieldsChanged
  <2> QED BY <2>2 DEF DeclaredColumn
<1>4. ASSUME NEW c
      PROVE  ReferringColumn(DeclaredColumn(column, keyed, {}), c.references)
               = DeclaredColumn(column, keyed, {c})
  <2>1. (CHOOSE x \in {c} : TRUE) = c
    OBVIOUS
  <2> DEFINE d == DeclaredColumn(column, keyed, {})
  <2>2. PICK s : d \in ColumnsOf(names, dataTypes, s)
    BY <1>2
  <2>3. ReferringColumn(d, c.references) =
          [type |-> d.type, name |-> d.name, dataType |-> d.dataType,
           nullable |-> d.nullable, unique |-> d.unique, primaryKey |-> d.primaryKey,
           references |-> Present(c.references)]
    BY <2>2, FieldsChanged
  <2> QED BY <2>1, <2>3 DEF DeclaredColumn
<1> QED BY <1>1, <1>3, <1>4

(* The columns as declared keep their places and their names, and the keys.  *)
LEMMA DeclaredFields ==
  ASSUME NEW columns, NEW cs, NEW m \in Nat
  PROVE  LET d == Declared(columns, cs, m)
         IN  /\ DOMAIN d = DOMAIN columns
             /\ \A k \in DOMAIN columns : d[k].name = columns[k].name
             /\ \A name : Named(d, name) = Named(columns, name)
             /\ PrimaryKeys(d) = PrimaryKeys(columns)
                  \cup {k \in DOMAIN columns : KeysFor(columns, cs, m, k) # {}}
<1> DEFINE d == Declared(columns, cs, m)
<1>1. DOMAIN d = DOMAIN columns
  BY DEF Declared
<1>2. ASSUME NEW k \in DOMAIN columns
      PROVE  /\ d[k].name = columns[k].name
             /\ d[k].primaryKey =
                  IF KeysFor(columns, cs, m, k) = {} THEN columns[k].primaryKey ELSE TRUE
  BY DEF Declared, DeclaredColumn
<1> HIDE DEF d
<1>3. \A name : Named(d, name) = Named(columns, name)
  BY <1>1, <1>2 DEF Named
<1>4. ASSUME NEW k \in DOMAIN columns
      PROVE  d[k].primaryKey <=> (columns[k].primaryKey \/ KeysFor(columns, cs, m, k) # {})
  BY <1>2, Zenon
<1>5. PrimaryKeys(d) = PrimaryKeys(columns)
                  \cup {k \in DOMAIN columns : KeysFor(columns, cs, m, k) # {}}
  BY <1>1, <1>4, Zenon DEF PrimaryKeys
<1> QED BY <1>1, <1>2, <1>3, <1>5 DEF d

(* Which constraints are on a column, when there is one more.                *)
LEMMA OneMoreConstraint ==
  ASSUME NEW columns, NEW cs, NEW m \in Nat, NEW k
  PROVE  /\ KeysFor(columns, cs, m + 1, k) = KeysFor(columns, cs, m, k)
              \cup {i \in {m + 1} : IsKey(cs[i]) /\ IsFor(columns, cs[i], k)}
         /\ ReferencesFor(columns, cs, m + 1, k) = ReferencesFor(columns, cs, m, k)
              \cup {i \in {m + 1} : ~IsKey(cs[i]) /\ IsFor(columns, cs[i], k)}
<1>1. 1..(m + 1) = 1..m \cup {m + 1}
  OBVIOUS
<1> QED BY <1>1, Zenon DEF KeysFor, ReferencesFor

LEMMA OneMoreElsewhere ==
  ASSUME NEW columns, NEW cs, NEW m \in Nat, NEW k, ~IsFor(columns, cs[m + 1], k)
  PROVE  /\ KeysFor(columns, cs, m + 1, k) = KeysFor(columns, cs, m, k)
         /\ ReferencesFor(columns, cs, m + 1, k) = ReferencesFor(columns, cs, m, k)
BY OneMoreConstraint

LEMMA OneMoreForKey ==
  ASSUME NEW columns, NEW cs, NEW m \in Nat, NEW k, IsKey(cs[m + 1])
  PROVE  /\ ReferencesFor(columns, cs, m + 1, k) = ReferencesFor(columns, cs, m, k)
         /\ IsFor(columns, cs[m + 1], k) =>
              KeysFor(columns, cs, m + 1, k) = KeysFor(columns, cs, m, k) \cup {m + 1}
BY OneMoreConstraint

LEMMA OneMoreForReference ==
  ASSUME NEW columns, NEW cs, NEW m \in Nat, NEW k, ~IsKey(cs[m + 1])
  PROVE  /\ KeysFor(columns, cs, m + 1, k) = KeysFor(columns, cs, m, k)
         /\ IsFor(columns, cs[m + 1], k) =>
              ReferencesFor(columns, cs, m + 1, k)
                = ReferencesFor(columns, cs, m, k) \cup {m + 1}
BY OneMoreConstraint

(* Where the columns have names of their own, a constraint is on one.        *)
LEMMA WhereConstraintStands ==
  ASSUME NEW C, NEW columns \in Seq(C), HasOwnNames(columns), NEW constraint
  PROVE  \/ /\ Named(columns, constraint.columnName) = {}
            /\ \A k \in DOMAIN columns : ~IsFor(columns, constraint, k)
         \/ \E k \in DOMAIN columns :
              /\ Named(columns, constraint.columnName) = {k}
              /\ Min(Named(columns, constraint.columnName)) = k
              /\ \A l \in DOMAIN columns : IsFor(columns, constraint, l) <=> l = k
<1>1. CASE Named(columns, constraint.columnName) = {}
  BY <1>1 DEF Named, IsFor
<1>2. CASE Named(columns, constraint.columnName) # {}
  <2>1. PICK k \in DOMAIN columns : IsFor(columns, constraint, k)
    BY <1>2 DEF Named, IsFor
  <2>2. ASSUME NEW l \in DOMAIN columns, IsFor(columns, constraint, l)
        PROVE  l = k
    BY <2>1, <2>2 DEF HasOwnNames, IsFor
  <2>3. Named(columns, constraint.columnName) = {k}
    BY <2>1, <2>2 DEF Named, IsFor
  <2>4. Min({k}) = k
    <3>1. DOMAIN columns \subseteq Nat
      BY LenProperties
    <3>2. {k} \in SUBSET Nat /\ {k} # {}
      BY <3>1
    <3>3. Min({k}) \in {k}
      BY <3>2, MinIsLeast
    <3> QED BY <3>3
  <2> QED BY <2>1, <2>2, <2>3, <2>4
<1> QED BY <1>1, <1>2

(* What is built of m constraints.                                           *)
DeclaredOrWrong(columns, cs, m) ==
  IF Fit(columns, cs, m) THEN Parsed(Declared(columns, cs, m), 1) ELSE Wrong(1)

(* What does not fit does not fit with one constraint more.                  *)
LEMMA FitBefore ==
  ASSUME NEW columns, NEW cs, NEW m \in Nat, Fit(columns, cs, m + 1)
  PROVE  Fit(columns, cs, m)
<1>1. \A i \in 1..m : i \in 1..(m + 1)
  OBVIOUS
<1>2. \A k : ReferencesFor(columns, cs, m, k) \subseteq ReferencesFor(columns, cs, m + 1, k)
  BY <1>1 DEF ReferencesFor
<1>3. OnColumns(columns, cs, m) /\ OneKeyOnly(columns, cs, m)
  BY <1>1, Zenon DEF Fit, OnColumns, OneKeyOnly
<1>4. ReferOnce(columns, cs, m)
  BY <1>2, Zenon DEF Fit, ReferOnce
<1> QED BY <1>3, <1>4 DEF Fit

(* One constraint more: a key.                                               *)
LEMMA OneMoreKey ==
  ASSUME NEW names, NEW dataTypes, NEW references,
         NEW columns \in Seq(ColumnsOf(names, dataTypes, references)), HasOwnNames(columns),
         NEW cs, NEW m \in Nat, Fit(columns, cs, m), IsKey(cs[m + 1]),
         NEW k \in DOMAIN columns,
         \A l \in DOMAIN columns : IsFor(columns, cs[m + 1], l) <=> l = k
  PROVE  LET d == Declared(columns, cs, m)
         IN  /\ PrimaryKeys(d) = {} <=> Fit(columns, cs, m + 1)
             /\ Fit(columns, cs, m + 1) =>
                  [d EXCEPT ![k] = KeyColumn(@)] = Declared(columns, cs, m + 1)
<1> DEFINE d == Declared(columns, cs, m)
<1>a. 1..(m + 1) = 1..m \cup {m + 1} /\ m + 1 \notin 1..m
  OBVIOUS
<1>1. PrimaryKeys(d) = PrimaryKeys(columns)
                  \cup {l \in DOMAIN columns : KeysFor(columns, cs, m, l) # {}}
  BY DeclaredFields
<1>2. OnColumns(columns, cs, m + 1)
  BY <1>a, Zenon DEF Fit, OnColumns
<1>3. ReferOnce(columns, cs, m + 1)
  <2>1. ASSUME NEW l \in DOMAIN columns
        PROVE  ReferencesFor(columns, cs, m + 1, l) = ReferencesFor(columns, cs, m, l)
    BY OneMoreForKey
  <2> QED BY <2>1, Zenon DEF Fit, ReferOnce
<1>4. ASSUME PrimaryKeys(d) = {}
      PROVE  OneKeyOnly(columns, cs, m + 1)
  <2>1. ASSUME NEW i \in 1..m
        PROVE  ~IsKey(cs[i])
    <3>1. PICK l \in DOMAIN columns : IsFor(columns, cs[i], l)
      BY Zenon DEF Fit, OnColumns
    <3>2. KeysFor(columns, cs, m, l) = {}
      BY <1>1, <1>4
    <3> QED BY <3>1, <3>2 DEF KeysFor
  <2>2. PrimaryKeys(columns) = {}
    BY <1>1, <1>4
  <2> QED BY <2>1, <2>2, <1>a, Zenon DEF OneKeyOnly
<1>5. ASSUME OneKeyOnly(columns, cs, m + 1)
      PROVE  PrimaryKeys(d) = {}
  <2>1. PrimaryKeys(columns) = {} /\ \A i \in 1..m : ~IsKey(cs[i])
    BY <1>5, <1>a, Zenon DEF OneKeyOnly
  <2>2. \A l \in DOMAIN columns : KeysFor(columns, cs, m, l) = {}
    BY <2>1 DEF KeysFor
  <2> QED BY <2>1, <2>2, <1>1
<1>6. ASSUME Fit(columns, cs, m + 1)
      PROVE  [d EXCEPT ![k] = KeyColumn(@)] = Declared(columns, cs, m + 1)
  <2> DEFINE e == [d EXCEPT ![k] = KeyColumn(@)]
             g == Declared(columns, cs, m + 1)
  <2>1. DOMAIN d = DOMAIN columns /\ DOMAIN g = DOMAIN columns
    BY DEF Declared
  <2>2. e = [l \in DOMAIN columns |-> IF l = k THEN KeyColumn(d[l]) ELSE d[l]]
    BY <2>1
  <2>3. g = [l \in DOMAIN columns |-> g[l]]
    BY DEF Declared
  <2>4. ASSUME NEW l \in DOMAIN columns, l # k
        PROVE  d[l] = g[l]
    <3>1. /\ KeysFor(columns, cs, m + 1, l) = KeysFor(columns, cs, m, l)
          /\ ReferencesFor(columns, cs, m + 1, l) = ReferencesFor(columns, cs, m, l)
      BY <2>4, OneMoreElsewhere
    <3> QED BY <3>1 DEF Declared
  <2>5. KeyColumn(d[k]) = g[k]
    <3> DEFINE referring == ConstraintsAt(cs, ReferencesFor(columns, cs, m, k))
    <3>1. /\ KeysFor(columns, cs, m + 1, k) = KeysFor(columns, cs, m, k) \cup {m + 1}
          /\ ReferencesFor(columns, cs, m + 1, k) = ReferencesFor(columns, cs, m, k)
      BY OneMoreForKey
    <3>2. d[k] = DeclaredColumn(columns[k], KeysFor(columns, cs, m, k), referring)
      BY DEF Declared
    <3>3. g[k] = DeclaredColumn(columns[k], KeysFor(columns, cs, m + 1, k), referring)
      BY <3>1 DEF Declared
    <3>4. g[k] = DeclaredColumn(columns[k], {1}, referring)
      BY <3>1, <3>3 DEF DeclaredColumn
    <3>5. columns[k] \in ColumnsOf(names, dataTypes, references)
      BY ElementOfSeq
    <3> HIDE DEF d, g, referring
    <3>6. KeyColumn(DeclaredColumn(columns[k], KeysFor(columns, cs, m, k), referring))
            = DeclaredColumn(columns[k], {1}, referring)
      BY <3>5, ColumnsChanged
    <3> QED BY <3>2, <3>4, <3>6
  <2> HIDE DEF d, g
  <2>6. e = g
    BY <2>2, <2>3, <2>4, <2>5
  <2> QED BY <2>6 DEF d, g
<1> QED BY <1>2, <1>3, <1>4, <1>5, <1>6 DEF Fit

(* One constraint more: a reference.                                         *)
LEMMA OneMoreReference ==
  ASSUME NEW names, NEW dataTypes, NEW references,
         NEW columns \in Seq(ColumnsOf(names, dataTypes, references)), HasOwnNames(columns),
         NEW cs, NEW m \in Nat, Fit(columns, cs, m), ~IsKey(cs[m + 1]),
         NEW k \in DOMAIN columns,
         \A l \in DOMAIN columns : IsFor(columns, cs[m + 1], l) <=> l = k
  PROVE  LET d == Declared(columns, cs, m)
         IN  /\ d[k].references = Absent <=> Fit(columns, cs, m + 1)
             /\ Fit(columns, cs, m + 1) =>
                  [d EXCEPT ![k] = ReferringColumn(@, cs[m + 1].references)]
                    = Declared(columns, cs, m + 1)
<1> DEFINE d == Declared(columns, cs, m)
<1>a. 1..(m + 1) = 1..m \cup {m + 1} /\ m + 1 \notin 1..m
  OBVIOUS
<1>b. ReferencesFor(columns, cs, m, k) \subseteq 1..m
  BY DEF ReferencesFor
<1>1. OnColumns(columns, cs, m + 1)
  BY <1>a, Zenon DEF Fit, OnColumns
<1>2. OneKeyOnly(columns, cs, m + 1)
  BY <1>a, Zenon DEF Fit, OneKeyOnly
<1>3. /\ KeysFor(columns, cs, m + 1, k) = KeysFor(columns, cs, m, k)
      /\ ReferencesFor(columns, cs, m + 1, k) = ReferencesFor(columns, cs, m, k) \cup {m + 1}
  <2>1. IsFor(columns, cs[m + 1], k)
    OBVIOUS
  <2> QED BY <2>1, OneMoreForReference
<1>4. ASSUME NEW l \in DOMAIN columns, l # k
      PROVE  /\ KeysFor(columns, cs, m + 1, l) = KeysFor(columns, cs, m, l)
             /\ ReferencesFor(columns, cs, m + 1, l) = ReferencesFor(columns, cs, m, l)
  BY <1>4, OneMoreElsewhere
<1>5. ReferencesFor(columns, cs, m, k) = {} \/
      \E i : i \in ReferencesFor(columns, cs, m, k)
  OBVIOUS
<1>6. d[k].references = Absent <=>
        ReferencesFor(columns, cs, m, k) = {} /\ columns[k].references = Absent
  <2>1. \A r : Present(r) # Absent
    BY DEF Present, Absent
  <2>2. ReferencesFor(columns, cs, m, k) = {} <=>
          ConstraintsAt(cs, ReferencesFor(columns, cs, m, k)) = {}
    BY DEF ConstraintsAt
  <2>3. d[k] = DeclaredColumn(columns[k], KeysFor(columns, cs, m, k),
                               ConstraintsAt(cs, ReferencesFor(columns, cs, m, k)))
    BY DEF Declared
  <2> HIDE DEF d
  <2> QED BY <2>1, <2>2, <2>3 DEF DeclaredColumn
<1>7. ReferOnce(columns, cs, m + 1) <=>
        ReferencesFor(columns, cs, m, k) = {} /\ columns[k].references = Absent
  <2>1. ASSUME ReferOnce(columns, cs, m + 1)
        PROVE  ReferencesFor(columns, cs, m, k) = {} /\ columns[k].references = Absent
    <3>1. \A i, j \in ReferencesFor(columns, cs, m, k) \cup {m + 1} :
            columns[k].references = Absent /\ i = j
      BY <2>1, <1>3, Zenon DEF ReferOnce
    <3>2. m + 1 \in ReferencesFor(columns, cs, m, k) \cup {m + 1}
      OBVIOUS
    <3>3. columns[k].references = Absent
      BY <3>1, <3>2, Zenon
    <3>4. ASSUME NEW i \in ReferencesFor(columns, cs, m, k)
          PROVE  FALSE
      <4>1. i = m + 1
        BY <3>1, <3>2, <3>4, Zenon
      <4> QED BY <4>1, <1>a, <1>b, <3>4
    <3> QED BY <3>3, <3>4
  <2>2. ASSUME ReferencesFor(columns, cs, m, k) = {}, columns[k].references = Absent
        PROVE  ReferOnce(columns, cs, m + 1)
    <3>1. \A i, j \in ReferencesFor(columns, cs, m + 1, k) :
            columns[k].references = Absent /\ i = j
      BY <2>2, <1>3
    <3>2. ASSUME NEW l \in DOMAIN columns, l # k,
                 NEW i \in ReferencesFor(columns, cs, m + 1, l),
                 NEW j \in ReferencesFor(columns, cs, m + 1, l)
          PROVE  columns[l].references = Absent /\ i = j
      BY <3>2, <1>4, Zenon DEF Fit, ReferOnce
    <3> QED BY <3>1, <3>2, Zenon DEF ReferOnce
  <2> QED BY <2>1, <2>2
<1>8. ASSUME Fit(columns, cs, m + 1)
      PROVE  [d EXCEPT ![k] = ReferringColumn(@, cs[m + 1].references)]
               = Declared(columns, cs, m + 1)
  <2> DEFINE c == cs[m + 1]
             e == [d EXCEPT ![k] = ReferringColumn(@, c.references)]
             g == Declared(columns, cs, m + 1)
  <2>1. DOMAIN d = DOMAIN columns
    BY DEF Declared
  <2>2. e = [l \in DOMAIN columns |-> IF l = k THEN ReferringColumn(d[l], c.references)
                                      ELSE d[l]]
    BY <2>1
  <2>3. g = [l \in DOMAIN columns |-> g[l]]
    BY DEF Declared
  <2>4. ASSUME NEW l \in DOMAIN columns, l # k
        PROVE  d[l] = g[l]
    BY <2>4, <1>4 DEF Declared
  <2>5. ReferringColumn(d[k], c.references) = g[k]
    <3>1. ReferencesFor(columns, cs, m, k) = {}
      BY <1>7, <1>8 DEF Fit
    <3>2. ConstraintsAt(cs, {}) = {} /\ ConstraintsAt(cs, {m + 1}) = {c}
      BY DEF ConstraintsAt
    <3>3. ReferencesFor(columns, cs, m + 1, k) = {m + 1}
      BY <3>1, <1>3
    <3>4. d[k] = DeclaredColumn(columns[k], KeysFor(columns, cs, m, k), {})
      BY <3>1, <3>2 DEF Declared
    <3>5. g[k] = DeclaredColumn(columns[k], KeysFor(columns, cs, m, k), {c})
      BY <3>2, <3>3, <1>3 DEF Declared
    <3>6. columns[k] \in ColumnsOf(names, dataTypes, references)
      BY ElementOfSeq
    <3> HIDE DEF d, g, c
    <3> QED BY <3>4, <3>5, <3>6, ColumnsChanged
  <2> HIDE DEF d, g, c
  <2>6. e = g
    BY <2>2, <2>3, <2>4, <2>5
  <2> QED BY <2>6 DEF c, d, g
<1> QED BY <1>1, <1>2, <1>6, <1>7, <1>8 DEF Fit

(* One constraint more, applied to what is built.                            *)
LEMMA BuildsMore ==
  ASSUME NEW names, NEW dataTypes, NEW references,
         NEW columns \in Seq(ColumnsOf(names, dataTypes, references)), HasOwnNames(columns),
         NEW cs, NEW m \in Nat
  PROVE  ApplyTableConstraint(DeclaredOrWrong(columns, cs, m), cs[m + 1])
           = DeclaredOrWrong(columns, cs, m + 1)
<1> DEFINE c == cs[m + 1]
           d == Declared(columns, cs, m)
<1>1. CASE ~Fit(columns, cs, m)
  <2>1. ~Fit(columns, cs, m + 1)
    BY <1>1, FitBefore
  <2>2. DeclaredOrWrong(columns, cs, m) = Wrong(1)
    BY <1>1 DEF DeclaredOrWrong
  <2>3. ApplyTableConstraint(Wrong(1), c) = Wrong(1)
    BY DEF ApplyTableConstraint, Wrong
  <2> QED BY <2>1, <2>2, <2>3 DEF DeclaredOrWrong
<1>2. CASE Fit(columns, cs, m)
  <2>1. DeclaredOrWrong(columns, cs, m) = Parsed(d, 1)
    BY <1>2 DEF DeclaredOrWrong
  <2>2. Named(d, c.columnName) = Named(columns, c.columnName)
    BY DeclaredFields
  <2>3. Parsed(d, 1).ok = TRUE /\ Parsed(d, 1).node = d /\ Parsed(d, 1).at = 1
    BY DEF Parsed
  <2>4. CASE Named(columns, c.columnName) = {}
    <3>1. \A k \in DOMAIN columns : ~IsFor(columns, c, k)
      BY <2>4 DEF Named, IsFor
    <3>2. ~Fit(columns, cs, m + 1)
      <4>1. m + 1 \in 1..(m + 1)
        OBVIOUS
      <4> QED BY <3>1, <4>1, Zenon DEF Fit, OnColumns
    <3>3. ApplyTableConstraint(Parsed(d, 1), c) = Wrong(1)
      <4> HIDE DEF d, c
      <4> QED BY <2>2, <2>3, <2>4 DEF ApplyTableConstraint
    <3> QED BY <2>1, <3>2, <3>3 DEF DeclaredOrWrong
  <2>5. ASSUME NEW k \in DOMAIN columns,
               Named(columns, c.columnName) = {k},
               Min(Named(columns, c.columnName)) = k,
               \A l \in DOMAIN columns : IsFor(columns, c, l) <=> l = k
        PROVE  ApplyTableConstraint(DeclaredOrWrong(columns, cs, m), c)
                 = DeclaredOrWrong(columns, cs, m + 1)
    <3>1. CASE IsKey(c)
      <4>1. ApplyTableConstraint(Parsed(d, 1), c) =
              IF PrimaryKeys(d) # {} THEN Wrong(1)
              ELSE Parsed([d EXCEPT ![k] = KeyColumn(@)], 1)
        <5> HIDE DEF d, c
        <5> QED BY <2>2, <2>3, <2>5, <3>1, Zenon DEF ApplyTableConstraint, IsKey
      <4>2. /\ PrimaryKeys(d) = {} <=> Fit(columns, cs, m + 1)
            /\ Fit(columns, cs, m + 1) =>
                 [d EXCEPT ![k] = KeyColumn(@)] = Declared(columns, cs, m + 1)
        BY <1>2, <2>5, <3>1, OneMoreKey
      <4> HIDE DEF d, c
      <4> QED BY <2>1, <4>1, <4>2, Zenon DEF DeclaredOrWrong
    <3>2. CASE ~IsKey(c)
      <4>1. ApplyTableConstraint(Parsed(d, 1), c) =
              IF d[k].references # Absent THEN Wrong(1)
              ELSE Parsed([d EXCEPT ![k] = ReferringColumn(@, c.references)], 1)
        <5> HIDE DEF d, c
        <5> QED BY <2>2, <2>3, <2>5, <3>2, Zenon DEF ApplyTableConstraint, IsKey
      <4>2. /\ d[k].references = Absent <=> Fit(columns, cs, m + 1)
            /\ Fit(columns, cs, m + 1) =>
                 [d EXCEPT ![k] = ReferringColumn(@, c.references)]
                   = Declared(columns, cs, m + 1)
        BY <1>2, <2>5, <3>2, OneMoreReference
      <4> HIDE DEF d, c
      <4> QED BY <2>1, <4>1, <4>2, Zenon DEF DeclaredOrWrong
    <3> QED BY <3>1, <3>2
  <2>6. CASE Named(columns, c.columnName) # {}
    <3>1. PICK k \in DOMAIN columns :
            /\ Named(columns, c.columnName) = {k}
            /\ Min(Named(columns, c.columnName)) = k
            /\ \A l \in DOMAIN columns : IsFor(columns, c, l) <=> l = k
      <4>1. \/ /\ Named(columns, c.columnName) = {}
               /\ \A k \in DOMAIN columns : ~IsFor(columns, c, k)
            \/ \E k \in DOMAIN columns :
                 /\ Named(columns, c.columnName) = {k}
                 /\ Min(Named(columns, c.columnName)) = k
                 /\ \A l \in DOMAIN columns : IsFor(columns, c, l) <=> l = k
        BY WhereConstraintStands
      <4> QED BY <2>6, <4>1
    <3>2. ApplyTableConstraint(DeclaredOrWrong(columns, cs, m), c)
            = DeclaredOrWrong(columns, cs, m + 1)
      <4> HIDE DEF c, d
      <4> QED BY <3>1, <2>5
    <3> QED BY <3>2
  <2> QED BY <2>4, <2>6
<1> QED BY <1>1, <1>2

(* What is built of columns with names of their own is what is declared.     *)
LEMMA BuildsDeclared ==
  ASSUME NEW names, NEW dataTypes, NEW references,
         NEW columns \in Seq(ColumnsOf(names, dataTypes, references)), HasOwnNames(columns),
         NEW C, NEW cs \in Seq(C), NEW b, Builds(columns, cs, b)
  PROVE  \A m \in 0..Len(cs) : b[m] = DeclaredOrWrong(columns, cs, m)
<1>a. Len(cs) \in Nat
  BY LenProperties
<1> DEFINE T == {m \in 0..Len(cs) : b[m] # DeclaredOrWrong(columns, cs, m)}
<1>1. SUFFICES ASSUME T # {} PROVE FALSE
  OBVIOUS
<1>2. PICK m \in T : \A j \in T : m <= j
  <2>1. T \in SUBSET Nat
    BY <1>a
  <2> HIDE DEF T
  <2> QED BY <1>1, <2>1, LeastNumber
<1>3. CASE m = 0
  <2>1. b[0] = Parsed(columns, 1)
    BY <1>a DEF Builds, BuiltAt
  <2>2. Fit(columns, cs, 0)
    <3>1. \A i : i \notin 1..0
      OBVIOUS
    <3>2. \A k : ReferencesFor(columns, cs, 0, k) = {}
      BY <3>1 DEF ReferencesFor
    <3> QED BY <3>1, <3>2 DEF Fit, OnColumns, OneKeyOnly, ReferOnce
  <2>3. Declared(columns, cs, 0) = columns
    <3>1. \A k : KeysFor(columns, cs, 0, k) = {} /\ ReferencesFor(columns, cs, 0, k) = {}
      BY DEF KeysFor, ReferencesFor
    <3>2. ConstraintsAt(cs, {}) = {}
      BY DEF ConstraintsAt
    <3>3. ASSUME NEW k \in DOMAIN columns
          PROVE  DeclaredColumn(columns[k], {}, {}) = columns[k]
      <4>1. columns[k] \in ColumnsOf(names, dataTypes, references)
        BY ElementOfSeq
      <4> QED BY <4>1, ColumnsChanged
    <3>4. Declared(columns, cs, 0) =
            [k \in DOMAIN columns |-> DeclaredColumn(columns[k], {}, {})]
      BY <3>1, <3>2 DEF Declared
    <3>5. columns = [k \in DOMAIN columns |-> columns[k]]
      BY LenProperties
    <3> QED BY <3>3, <3>4, <3>5
  <2> QED BY <1>2, <1>3, <2>1, <2>2, <2>3 DEF DeclaredOrWrong
<1>4. CASE m # 0
  <2>1. m \in 0..Len(cs) /\ m - 1 \in 0..Len(cs) /\ m - 1 \in Nat /\ (m - 1) + 1 = m
    BY <1>2, <1>4, <1>a
  <2>2. b[m - 1] = DeclaredOrWrong(columns, cs, m - 1)
    BY <1>2, <2>1
  <2>3. b[m] = ApplyTableConstraint(b[m - 1], cs[m])
    BY <1>4, <2>1 DEF Builds, BuiltAt
  <2>4. ApplyTableConstraint(DeclaredOrWrong(columns, cs, m - 1), cs[(m - 1) + 1])
          = DeclaredOrWrong(columns, cs, (m - 1) + 1)
    BY <2>1, BuildsMore
  <2>5. b[m] = DeclaredOrWrong(columns, cs, m)
    BY <2>1, <2>2, <2>3, <2>4
  <2> QED BY <1>2, <2>5
<1> QED BY <1>3, <1>4

(* What is built keeps the places and the names of the columns, also where   *)
(* columns share one.                                                        *)
KeepsNames(names, dataTypes, columns, r) ==
  \/ r = Wrong(1)
  \/ \E d : /\ r = Parsed(d, 1)
            /\ DOMAIN d = DOMAIN columns
            /\ \A k \in DOMAIN columns :
                 /\ d[k].name = columns[k].name
                 /\ \E references : d[k] \in ColumnsOf(names, dataTypes, references)

LEMMA NamesAreKept ==
  ASSUME NEW names, NEW dataTypes, NEW references,
         NEW columns \in Seq(ColumnsOf(names, dataTypes, references)),
         NEW r, KeepsNames(names, dataTypes, columns, r), NEW c
  PROVE  KeepsNames(names, dataTypes, columns, ApplyTableConstraint(r, c))
<1>1. CASE r = Wrong(1)
  <2>1. ApplyTableConstraint(Wrong(1), c) = Wrong(1)
    BY DEF ApplyTableConstraint, Wrong
  <2> QED BY <1>1, <2>1 DEF KeepsNames
<1>2. ASSUME NEW d, r = Parsed(d, 1), DOMAIN d = DOMAIN columns,
             \A k \in DOMAIN columns :
               /\ d[k].name = columns[k].name
               /\ \E s : d[k] \in ColumnsOf(names, dataTypes, s)
      PROVE  KeepsNames(names, dataTypes, columns, ApplyTableConstraint(r, c))
  <2> DEFINE k == Min(Named(d, c.columnName))
  <2>1. r.ok = TRUE /\ r.node = d /\ r.at = 1
    BY <1>2 DEF Parsed
  <2>2. \/ ApplyTableConstraint(r, c) = Wrong(1)
        \/ /\ Named(d, c.columnName) # {}
           /\ \/ ApplyTableConstraint(r, c) = Parsed([d EXCEPT ![k] = KeyColumn(@)], 1)
              \/ ApplyTableConstraint(r, c)
                   = Parsed([d EXCEPT ![k] = ReferringColumn(@, c.references)], 1)
    BY <2>1, Zenon DEF ApplyTableConstraint
  <2>3. ASSUME NEW x, k \in DOMAIN columns, x.name = d[k].name,
               \E s : x \in ColumnsOf(names, dataTypes, s)
        PROVE  KeepsNames(names, dataTypes, columns, Parsed([d EXCEPT ![k] = x], 1))
    <3> DEFINE e == [d EXCEPT ![k] = x]
    <3>1. DOMAIN e = DOMAIN columns
      BY <1>2
    <3>2. e[k] = x /\ \A l \in DOMAIN columns : l # k => e[l] = d[l]
      BY <1>2, <2>3
    <3> HIDE DEF e, k
    <3>3. \A l \in DOMAIN columns :
            /\ e[l].name = columns[l].name
            /\ \E s : e[l] \in ColumnsOf(names, dataTypes, s)
      BY <1>2, <2>3, <3>2
    <3>4. KeepsNames(names, dataTypes, columns, Parsed(e, 1))
      BY <3>1, <3>3, Zenon DEF KeepsNames
    <3> QED BY <3>4 DEF e
  <2>4. CASE Named(d, c.columnName) # {}
    <3>1. k \in DOMAIN columns
      <4>1. DOMAIN columns \subseteq Nat
        BY LenProperties
      <4>2. Named(d, c.columnName) \subseteq DOMAIN columns
        BY <1>2 DEF Named
      <4> QED BY <2>4, <4>1, <4>2, MinIsLeast
    <3> HIDE DEF k
    <3>2. PICK s : d[k] \in ColumnsOf(names, dataTypes, s)
      BY <1>2, <3>1
    <3>3. /\ KeyColumn(d[k]).name = d[k].name
          /\ KeyColumn(d[k]) \in ColumnsOf(names, dataTypes, s)
      <4>1. KeyColumn(d[k]) =
              [type |-> d[k].type, name |-> d[k].name, dataType |-> d[k].dataType,
               nullable |-> FALSE, unique |-> TRUE, primaryKey |-> TRUE,
               references |-> d[k].references]
        <5> DEFINE x == d[k]
        <5>1. x \in ColumnsOf(names, dataTypes, s)
          BY <3>2
        <5> HIDE DEF x
        <5>2. KeyColumn(x) =
                [type |-> x.type, name |-> x.name, dataType |-> x.dataType,
                 nullable |-> FALSE, unique |-> TRUE, primaryKey |-> TRUE,
                 references |-> x.references]
          BY <5>1, FieldsChanged
        <5> QED BY <5>2 DEF x
      <4> QED BY <3>2, <4>1 DEF ColumnsOf
    <3>4. /\ ReferringColumn(d[k], c.references).name = d[k].name
          /\ ReferringColumn(d[k], c.references)
               \in ColumnsOf(names, dataTypes, {Present(c.references)})
      <4>1. ReferringColumn(d[k], c.references) =
              [type |-> d[k].type, name |-> d[k].name, dataType |-> d[k].dataType,
               nullable |-> d[k].nullable, unique |-> d[k].unique,
               primaryKey |-> d[k].primaryKey, references |-> Present(c.references)]
        BY <3>2, FieldsChanged
      <4> QED BY <3>2, <4>1 DEF ColumnsOf
    <3>5. KeepsNames(names, dataTypes, columns, Parsed([d EXCEPT ![k] = KeyColumn(@)], 1))
      BY <2>3, <3>1, <3>3, Zenon
    <3>6. KeepsNames(names, dataTypes, columns,
                     Parsed([d EXCEPT ![k] = ReferringColumn(@, c.references)], 1))
      BY <2>3, <3>1, <3>4, Zenon
    <3>7. KeepsNames(names, dataTypes, columns, Wrong(1))
      BY DEF KeepsNames
    <3>8. CASE ApplyTableConstraint(r, c) = Wrong(1)
      BY <3>7, <3>8
    <3>9. CASE ApplyTableConstraint(r, c) = Parsed([d EXCEPT ![k] = KeyColumn(@)], 1)
      BY <3>5, <3>9
    <3>10. CASE ApplyTableConstraint(r, c)
                  = Parsed([d EXCEPT ![k] = ReferringColumn(@, c.references)], 1)
      BY <3>6, <3>10
    <3> QED BY <2>2, <3>8, <3>9, <3>10 DEF k
  <2> QED BY <2>2, <2>4, Zenon DEF KeepsNames
<1> QED BY <1>1, <1>2, Zenon DEF KeepsNames

LEMMA BuiltNames ==
  ASSUME NEW names, NEW dataTypes, NEW references,
         NEW columns \in Seq(ColumnsOf(names, dataTypes, references)),
         NEW C, NEW cs \in Seq(C), NEW b, Builds(columns, cs, b)
  PROVE  \A m \in 0..Len(cs) : KeepsNames(names, dataTypes, columns, b[m])
<1>a. Len(cs) \in Nat
  BY LenProperties
<1> DEFINE T == {m \in 0..Len(cs) : ~KeepsNames(names, dataTypes, columns, b[m])}
<1>1. SUFFICES ASSUME T # {} PROVE FALSE
  OBVIOUS
<1>2. PICK m \in T : \A j \in T : m <= j
  <2>1. T \in SUBSET Nat
    BY <1>a
  <2> HIDE DEF T
  <2> QED BY <1>1, <2>1, LeastNumber
<1>3. CASE m = 0
  <2>1. b[0] = Parsed(columns, 1)
    BY <1>a DEF Builds, BuiltAt
  <2>2. \A k \in DOMAIN columns : columns[k] \in ColumnsOf(names, dataTypes, references)
    BY ElementOfSeq
  <2>3. KeepsNames(names, dataTypes, columns, b[0])
    BY <2>1, <2>2, Zenon DEF KeepsNames
  <2> QED BY <1>2, <1>3, <2>3
<1>4. CASE m # 0
  <2>1. m \in 0..Len(cs) /\ m - 1 \in 0..Len(cs)
    BY <1>2, <1>4, <1>a
  <2>2. KeepsNames(names, dataTypes, columns, b[m - 1])
    BY <1>2, <2>1
  <2>3. b[m] = ApplyTableConstraint(b[m - 1], cs[m])
    BY <1>4, <2>1 DEF Builds, BuiltAt
  <2>4. KeepsNames(names, dataTypes, columns, b[m])
    BY <2>2, <2>3, NamesAreKept
  <2> QED BY <1>2, <2>4
<1> QED BY <1>3, <1>4

(* The columns of a sound declaration can be stored, if one is the key.      *)
LEMMA DeclaredStorable ==
  ASSUME NEW columns, NEW cs, NEW m \in Nat, HasOwnNames(columns), Fit(columns, cs, m)
  PROVE  Storable(Declared(columns, cs, m)) <=> HasOneKey(columns)
<1> DEFINE d == Declared(columns, cs, m)
<1>1. /\ DOMAIN d = DOMAIN columns
      /\ \A k \in DOMAIN columns : d[k].name = columns[k].name
      /\ \A name : Named(d, name) = Named(columns, name)
      /\ PrimaryKeys(d) = PrimaryKeys(columns)
           \cup {k \in DOMAIN columns : KeysFor(columns, cs, m, k) # {}}
  BY DeclaredFields
<1> HIDE DEF d
<1>2. \A k \in DOMAIN d : Named(d, d[k].name) = {k}
  BY <1>1 DEF Named, HasOwnNames
<1>3. CASE \A k \in DOMAIN columns : KeysFor(columns, cs, m, k) = {}
  <2>1. PrimaryKeys(d) = PrimaryKeys(columns)
    BY <1>1, <1>3
  <2> QED BY <1>2, <2>1, Zenon DEF d, Storable, HasOneKey
<1>4. ASSUME NEW k \in DOMAIN columns, KeysFor(columns, cs, m, k) # {}
      PROVE  Storable(Declared(columns, cs, m)) <=> HasOneKey(columns)
  <2>1. PICK i \in 1..m : IsKey(cs[i]) /\ IsFor(columns, cs[i], k)
    BY <1>4 DEF KeysFor
  <2>2. PrimaryKeys(columns) = {} /\ \A j \in 1..m : IsKey(cs[j]) => i = j
    BY <2>1, Zenon DEF Fit, OneKeyOnly
  <2>3. ASSUME NEW l \in DOMAIN columns, KeysFor(columns, cs, m, l) # {}
        PROVE  l = k
    <3>1. IsFor(columns, cs[i], l)
      BY <2>2, <2>3 DEF KeysFor
    <3> QED BY <2>1, <3>1 DEF IsFor, HasOwnNames
  <2>4. \A l \in PrimaryKeys(d) : l = k
    BY <1>1, <2>2, <2>3
  <2>5. \A l, n \in PrimaryKeys(d) : l = n
    BY <2>4
  <2>6. Storable(d)
    BY <1>2, <2>5 DEF Storable
  <2>7. HasOneKey(columns)
    BY <2>2 DEF HasOneKey
  <2> QED BY <2>6, <2>7 DEF d
<1> QED BY <1>3, <1>4

(* A table is created with the columns that its declaration says, with what  *)
(* all of its constraints say of them; and it is refused for a name that is  *)
(* there twice, a constraint on no column, two keys or two references of one *)
(* column, and for nothing else that it says of itself (executor.ts,         *)
(* column.ts, table.ts).                                                     *)
THEOREM ColumnsAreDeclared ==
  ASSUME NEW names, NEW dataTypes, NEW references, NEW C, NEW statement,
         statement.columns \in Seq(ColumnsOf(names, dataTypes, references)),
         statement.constraints \in Seq(C)
  PROVE  LET columns == statement.columns
             cs == statement.constraints
         IN  CreatedColumns(statement) =
               IF Sound(columns, cs)
               THEN Parsed(StoredColumns(Declared(columns, cs, Len(cs))), 1)
               ELSE Wrong(1)
<1> DEFINE columns == statement.columns
           cs == statement.constraints
           d == Declared(columns, cs, Len(cs))
<1>1. PICK b : Builds(columns, cs, b) /\ BuildCreateTableColumns(statement) = b[Len(cs)]
  BY ColumnsAreBuilt
<1>2. Len(cs) \in Nat /\ Len(cs) \in 0..Len(cs)
  BY LenProperties
<1>3. CreatedColumns(statement) = Created(b[Len(cs)])
  BY <1>1 DEF CreatedColumns
<1>4. Created(Wrong(1)) = Wrong(1)
  BY DEF Created, Wrong
<1>5. \A x : Created(Parsed(x, 1)) =
               IF Storable(x) THEN Parsed(StoredColumns(x), 1) ELSE Wrong(1)
  BY DEF Created, Parsed
<1>6. CASE ~HasOwnNames(columns)
  <2>1. KeepsNames(names, dataTypes, columns, b[Len(cs)])
    <3> HIDE DEF columns, cs
    <3>1. columns \in Seq(ColumnsOf(names, dataTypes, references)) /\ cs \in Seq(C)
      BY DEF columns, cs
    <3> QED BY <1>1, <1>2, <3>1, BuiltNames, Zenon
  <2>2. ASSUME NEW x, DOMAIN x = DOMAIN columns,
               \A k \in DOMAIN columns : x[k].name = columns[k].name
        PROVE  ~Storable(x)
    <3>1. PICK k \in DOMAIN columns, l \in DOMAIN columns :
            Folded(columns[k].name) = Folded(columns[l].name) /\ k # l
      BY <1>6 DEF HasOwnNames
    <3>2. l \in Named(x, x[k].name)
      BY <2>2, <3>1 DEF Named
    <3> QED BY <2>2, <3>1, <3>2 DEF Storable
  <2>3. Created(b[Len(cs)]) = Wrong(1)
    <3> HIDE DEF columns, cs
    <3> QED BY <1>4, <1>5, <2>1, <2>2, Zenon DEF KeepsNames
  <2> QED BY <1>3, <1>6, <2>3 DEF Sound
<1>7. CASE HasOwnNames(columns)
  <2>1. b[Len(cs)] = DeclaredOrWrong(columns, cs, Len(cs))
    <3> HIDE DEF columns, cs
    <3>1. columns \in Seq(ColumnsOf(names, dataTypes, references)) /\ cs \in Seq(C)
      BY DEF columns, cs
    <3>2. \A m \in 0..Len(cs) : b[m] = DeclaredOrWrong(columns, cs, m)
      BY <1>1, <1>7, <3>1, BuildsDeclared
    <3> QED BY <1>2, <3>2
  <2>2. CASE Fit(columns, cs, Len(cs))
    <3>1. Storable(d) <=> HasOneKey(columns)
      BY <1>2, <1>7, <2>2, DeclaredStorable
    <3>2. b[Len(cs)] = Parsed(d, 1)
      BY <2>1, <2>2 DEF DeclaredOrWrong
    <3>3. Created(Parsed(d, 1)) =
            IF HasOneKey(columns) THEN Parsed(StoredColumns(d), 1) ELSE Wrong(1)
      BY <1>5, <3>1
    <3> HIDE DEF d
    <3>4. CreatedColumns(statement) =
            IF Sound(columns, cs) THEN Parsed(StoredColumns(d), 1) ELSE Wrong(1)
      BY <1>3, <1>7, <2>2, <3>2, <3>3 DEF Sound
    <3> QED BY <3>4 DEF d
  <2>3. CASE ~Fit(columns, cs, Len(cs))
    BY <1>3, <1>4, <2>1, <2>3 DEF DeclaredOrWrong, Sound
  <2> QED BY <2>2, <2>3
<1> QED BY <1>6, <1>7

(* The declaration with its columns in the order of q, and its constraints   *)
(* in that of p.                                                             *)
Reordered(f, p) == [i \in DOMAIN f |-> f[p[i]]]

Reorders(f, p) == p \in Bijection(DOMAIN f, DOMAIN f)

LEMMA OtherOrder ==
  ASSUME NEW f, NEW p, Reorders(f, p)
  PROVE  /\ \A i \in DOMAIN f : p[i] \in DOMAIN f /\ Reordered(f, p)[i] = f[p[i]]
         /\ DOMAIN Reordered(f, p) = DOMAIN f
         /\ \A i, j \in DOMAIN f : p[i] = p[j] => i = j
         /\ \A i \in DOMAIN f : \E j \in DOMAIN f : p[j] = i
<1>1. p \in [DOMAIN f -> DOMAIN f] /\ IsInjective(p)
  BY DEF Reorders, Bijection, Injection
<1>2. \A i \in DOMAIN f : \E j \in DOMAIN f : p[j] = i
  BY DEF Reorders, Bijection, Surjection
<1> QED BY <1>1, <1>2 DEF IsInjective, Reordered

LEMMA OtherOrderOfSeq ==
  ASSUME NEW S, NEW f \in Seq(S), NEW p, Reorders(f, p)
  PROVE  LET n == Len(f)
         IN  /\ \A i \in 1..n : p[i] \in 1..n /\ Reordered(f, p)[i] = f[p[i]]
             /\ \A i, j \in 1..n : p[i] = p[j] => i = j
             /\ \A i \in 1..n : \E j \in 1..n : p[j] = i
<1>1. DOMAIN f = 1..Len(f)
  BY LenProperties
<1> DEFINE D == DOMAIN f
<1>2. /\ \A i \in D : p[i] \in D /\ Reordered(f, p)[i] = f[p[i]]
      /\ \A i, j \in D : p[i] = p[j] => i = j
      /\ \A i \in D : \E j \in D : p[j] = i
  BY OtherOrder
<1>3. D = 1..Len(f)
  BY <1>1
<1> HIDE DEF D
<1> QED BY <1>2, <1>3

(* What is a list in one order is one in any.                                *)
LEMMA OtherOrderIsSeq ==
  ASSUME NEW S, NEW f \in Seq(S), NEW p, Reorders(f, p)
  PROVE  Reordered(f, p) \in Seq(S) /\ Len(Reordered(f, p)) = Len(f)
<1> DEFINE g == Reordered(f, p)
<1>1. DOMAIN f = 1..Len(f) /\ Len(f) \in Nat
  BY LenProperties
<1>2. g = [i \in 1..Len(f) |-> g[i]]
  BY <1>1 DEF Reordered
<1>3. \A i \in 1..Len(f) : p[i] \in 1..Len(f) /\ g[i] = f[p[i]]
  BY OtherOrderOfSeq
<1>4. \A i \in 1..Len(f) : f[i] \in S
  BY <1>1, ElementOfSeq
<1> HIDE DEF g
<1>5. \A i \in 1..Len(f) : g[i] \in S
  BY <1>3, <1>4
<1>6. g \in Seq(S)
  BY <1>1, <1>2, <1>5, IsASeq
<1>7. DOMAIN g = 1..Len(f)
  BY <1>2
<1>8. Len(g) = Len(f)
  BY <1>1, <1>6, <1>7, LenProperties
<1> QED BY <1>6, <1>8 DEF g

(* What is on a column in another order is on its column in this one.        *)
LEMMA ReorderedColumns ==
  ASSUME NEW columns, NEW C, NEW cs \in Seq(C), NEW q, Reorders(columns, q),
         NEW p, Reorders(cs, p)
  PROVE  LET columns2 == Reordered(columns, q)
             cs2 == Reordered(cs, p)
             n == Len(cs)
         IN  /\ DOMAIN columns2 = DOMAIN columns
             /\ \A k \in DOMAIN columns :
                  /\ q[k] \in DOMAIN columns
                  /\ columns2[k] = columns[q[k]]
                  /\ KeysFor(columns2, cs2, n, k)
                       = {i \in 1..n : p[i] \in KeysFor(columns, cs, n, q[k])}
                  /\ ReferencesFor(columns2, cs2, n, k)
                       = {i \in 1..n : p[i] \in ReferencesFor(columns, cs, n, q[k])}
<1> DEFINE columns2 == Reordered(columns, q)
           cs2 == Reordered(cs, p)
           n == Len(cs)
<1>1. DOMAIN cs = 1..n
  BY LenProperties
<1>2. \A i \in 1..n : p[i] \in 1..n /\ cs2[i] = cs[p[i]]
  BY OtherOrderOfSeq
<1>3. DOMAIN columns2 = DOMAIN columns
  BY DEF Reordered
<1>4. \A k \in DOMAIN columns : q[k] \in DOMAIN columns /\ columns2[k] = columns[q[k]]
  BY OtherOrder
<1> HIDE DEF columns2, cs2, n
<1>5. ASSUME NEW k \in DOMAIN columns, NEW i \in 1..n
      PROVE  IsFor(columns2, cs2[i], k) <=> IsFor(columns, cs[p[i]], q[k])
  BY <1>2, <1>4 DEF IsFor
<1>6. ASSUME NEW k \in DOMAIN columns
      PROVE  /\ KeysFor(columns2, cs2, n, k)
                  = {i \in 1..n : p[i] \in KeysFor(columns, cs, n, q[k])}
             /\ ReferencesFor(columns2, cs2, n, k)
                  = {i \in 1..n : p[i] \in ReferencesFor(columns, cs, n, q[k])}
  BY <1>2, <1>5 DEF KeysFor, ReferencesFor
<1> QED BY <1>3, <1>4, <1>6 DEF columns2, cs2, n

(* A declaration is sound in any order, or in none.                          *)
LEMMA SoundInAnyOrder ==
  ASSUME NEW columns, NEW C, NEW cs \in Seq(C), NEW q, Reorders(columns, q),
         NEW p, Reorders(cs, p)
  PROVE  Sound(Reordered(columns, q), Reordered(cs, p)) <=> Sound(columns, cs)
<1> DEFINE columns2 == Reordered(columns, q)
           cs2 == Reordered(cs, p)
           n == Len(cs)
<1>1. DOMAIN cs = 1..n /\ n \in Nat
  BY LenProperties
<1>2. \A i \in 1..n : p[i] \in 1..n /\ cs2[i] = cs[p[i]]
  BY OtherOrderOfSeq
<1>3. /\ \A i, j \in 1..n : p[i] = p[j] => i = j
      /\ \A i \in 1..n : \E j \in 1..n : p[j] = i
  BY OtherOrderOfSeq
<1>4. /\ \A k, l \in DOMAIN columns : q[k] = q[l] => k = l
      /\ \A k \in DOMAIN columns : \E l \in DOMAIN columns : q[l] = k
  BY OtherOrder
<1>5. /\ DOMAIN columns2 = DOMAIN columns
      /\ \A k \in DOMAIN columns : q[k] \in DOMAIN columns /\ columns2[k] = columns[q[k]]
  BY OtherOrder
<1>6. ASSUME NEW k \in DOMAIN columns
      PROVE  /\ KeysFor(columns2, cs2, n, k)
                  = {i \in 1..n : p[i] \in KeysFor(columns, cs, n, q[k])}
             /\ ReferencesFor(columns2, cs2, n, k)
                  = {i \in 1..n : p[i] \in ReferencesFor(columns, cs, n, q[k])}
  BY ReorderedColumns
<1>7. Len(cs2) = n
  BY OtherOrderIsSeq
<1> HIDE DEF columns2, cs2, n
<1>8. ASSUME NEW k \in DOMAIN columns, NEW i \in 1..n
      PROVE  IsFor(columns2, cs2[i], k) <=> IsFor(columns, cs[p[i]], q[k])
  BY <1>2, <1>5 DEF IsFor
<1>9. HasOwnNames(columns2) <=> HasOwnNames(columns)
  <2>1. ASSUME HasOwnNames(columns)
        PROVE  HasOwnNames(columns2)
    <3>1. SUFFICES ASSUME NEW k \in DOMAIN columns, NEW l \in DOMAIN columns,
                          Folded(columns2[k].name) = Folded(columns2[l].name)
                   PROVE  k = l
      BY <1>5 DEF HasOwnNames
    <3>2. q[k] = q[l]
      BY <1>5, <2>1, <3>1 DEF HasOwnNames
    <3> QED BY <1>4, <3>2
  <2>2. ASSUME HasOwnNames(columns2), NEW k \in DOMAIN columns, NEW l \in DOMAIN columns,
               Folded(columns[k].name) = Folded(columns[l].name)
        PROVE  k = l
    <3>1. PICK x \in DOMAIN columns : q[x] = k
      BY <1>4
    <3>2. PICK y \in DOMAIN columns : q[y] = l
      BY <1>4
    <3>3. Folded(columns2[x].name) = Folded(columns2[y].name)
      BY <1>5, <2>2, <3>1, <3>2
    <3>4. x = y
      BY <1>5, <2>2, <3>3, Zenon DEF HasOwnNames
    <3> QED BY <3>1, <3>2, <3>4
  <2> QED BY <2>1, <2>2, Zenon DEF HasOwnNames
<1>10. \A k : k \in PrimaryKeys(columns2) <=>
                k \in DOMAIN columns /\ q[k] \in PrimaryKeys(columns)
  BY <1>5, Zenon DEF PrimaryKeys
<1>11. \A k \in PrimaryKeys(columns) : \E l \in PrimaryKeys(columns2) : q[l] = k
  <2>1. PrimaryKeys(columns) \subseteq DOMAIN columns
    BY DEF PrimaryKeys
  <2> QED BY <2>1, <1>4, <1>10
<1>12. HasOneKey(columns2) <=> HasOneKey(columns)
  <2>1. ASSUME HasOneKey(columns), NEW k \in PrimaryKeys(columns2),
               NEW l \in PrimaryKeys(columns2)
        PROVE  k = l
    <3>1. /\ k \in DOMAIN columns /\ l \in DOMAIN columns
          /\ q[k] \in PrimaryKeys(columns) /\ q[l] \in PrimaryKeys(columns)
      BY <1>10, <2>1
    <3>2. q[k] = q[l]
      BY <2>1, <3>1, Zenon DEF HasOneKey
    <3> QED BY <1>4, <3>1, <3>2, Zenon
  <2>2. ASSUME HasOneKey(columns2), NEW k \in PrimaryKeys(columns),
               NEW l \in PrimaryKeys(columns)
        PROVE  k = l
    <3>1. PICK x \in PrimaryKeys(columns2) : q[x] = k
      BY <1>11
    <3>2. PICK y \in PrimaryKeys(columns2) : q[y] = l
      BY <1>11
    <3>3. x = y
      BY <2>2, Zenon DEF HasOneKey
    <3> QED BY <3>1, <3>2, <3>3, Zenon
  <2> QED BY <2>1, <2>2, Zenon DEF HasOneKey
<1>13. OnColumns(columns2, cs2, n) <=> OnColumns(columns, cs, n)
  <2>1. ASSUME OnColumns(columns, cs, n), NEW i \in 1..n
        PROVE  \E k \in DOMAIN columns2 : IsFor(columns2, cs2[i], k)
    <3>1. PICK k \in DOMAIN columns : IsFor(columns, cs[p[i]], k)
      BY <1>2, <2>1, Zenon DEF OnColumns
    <3>2. PICK x \in DOMAIN columns : q[x] = k
      BY <1>4
    <3> QED BY <1>5, <1>8, <3>1, <3>2
  <2>2. ASSUME OnColumns(columns2, cs2, n), NEW i \in 1..n
        PROVE  \E k \in DOMAIN columns : IsFor(columns, cs[i], k)
    <3>1. PICK j \in 1..n : p[j] = i
      BY <1>3
    <3>2. PICK k \in DOMAIN columns : IsFor(columns2, cs2[j], k)
      BY <1>5, <2>2, Zenon DEF OnColumns
    <3>3. IsFor(columns, cs[i], q[k])
      BY <1>8, <3>1, <3>2
    <3> QED BY <1>5, <3>3
  <2> QED BY <2>1, <2>2, Zenon DEF OnColumns
<1>14. \A i \in 1..n : IsKey(cs2[i]) <=> IsKey(cs[p[i]])
  BY <1>2 DEF IsKey
<1>15. OneKeyOnly(columns2, cs2, n) <=> OneKeyOnly(columns, cs, n)
  <2>1. PrimaryKeys(columns2) = {} <=> PrimaryKeys(columns) = {}
    BY <1>10, <1>11
  <2>2. ASSUME OneKeyOnly(columns, cs, n), NEW i \in 1..n, IsKey(cs2[i])
        PROVE  PrimaryKeys(columns2) = {} /\ \A j \in 1..n : IsKey(cs2[j]) => i = j
    <3>1. p[i] \in 1..n /\ IsKey(cs[p[i]])
      BY <1>2, <1>14, <2>2
    <3>2. PrimaryKeys(columns) = {} /\ \A j \in 1..n : IsKey(cs[j]) => p[i] = j
      BY <2>2, <3>1, Zenon DEF OneKeyOnly
    <3>3. ASSUME NEW j \in 1..n, IsKey(cs2[j])
          PROVE  i = j
      <4>1. p[j] \in 1..n /\ IsKey(cs[p[j]])
        BY <1>2, <1>14, <3>3
      <4>2. p[i] = p[j]
        BY <3>2, <4>1
      <4> QED BY <1>3, <4>2
    <3> QED BY <2>1, <3>2, <3>3
  <2>3. ASSUME OneKeyOnly(columns2, cs2, n), NEW i \in 1..n, IsKey(cs[i])
        PROVE  PrimaryKeys(columns) = {} /\ \A j \in 1..n : IsKey(cs[j]) => i = j
    <3>1. PICK x \in 1..n : p[x] = i
      BY <1>3
    <3>2. IsKey(cs2[x])
      BY <1>14, <2>3, <3>1
    <3>3. PrimaryKeys(columns2) = {} /\ \A j \in 1..n : IsKey(cs2[j]) => x = j
      BY <2>3, <3>2, Zenon DEF OneKeyOnly
    <3>4. ASSUME NEW j \in 1..n, IsKey(cs[j])
          PROVE  i = j
      <4>1. PICK y \in 1..n : p[y] = j
        BY <1>3
      <4> QED BY <1>14, <3>1, <3>3, <3>4, <4>1
    <3> QED BY <2>1, <3>3, <3>4
  <2> QED BY <2>2, <2>3, Zenon DEF OneKeyOnly
<1>16. ReferOnce(columns2, cs2, n) <=> ReferOnce(columns, cs, n)
  <2>1. ASSUME ReferOnce(columns, cs, n), NEW k \in DOMAIN columns2,
               NEW i \in ReferencesFor(columns2, cs2, n, k),
               NEW j \in ReferencesFor(columns2, cs2, n, k)
        PROVE  columns2[k].references = Absent /\ i = j
    <3>1. /\ i \in 1..n /\ j \in 1..n
          /\ p[i] \in ReferencesFor(columns, cs, n, q[k])
          /\ p[j] \in ReferencesFor(columns, cs, n, q[k])
      BY <1>5, <1>6, <2>1
    <3>2. columns[q[k]].references = Absent /\ p[i] = p[j]
      <4>1. q[k] \in DOMAIN columns
        BY <1>5, <2>1
      <4> QED BY <2>1, <3>1, <4>1, Zenon DEF ReferOnce
    <3> QED BY <1>3, <1>5, <2>1, <3>1, <3>2
  <2>2. ASSUME ReferOnce(columns2, cs2, n), NEW k \in DOMAIN columns,
               NEW i \in ReferencesFor(columns, cs, n, k),
               NEW j \in ReferencesFor(columns, cs, n, k)
        PROVE  columns[k].references = Absent /\ i = j
    <3>1. PICK x \in DOMAIN columns : q[x] = k
      BY <1>4
    <3>2. i \in 1..n /\ j \in 1..n
      BY DEF ReferencesFor
    <3>3. PICK y \in 1..n : p[y] = i
      BY <1>3, <3>2
    <3>4. PICK z \in 1..n : p[z] = j
      BY <1>3, <3>2
    <3>5. y \in ReferencesFor(columns2, cs2, n, x) /\ z \in ReferencesFor(columns2, cs2, n, x)
      BY <1>6, <2>2, <3>1, <3>3, <3>4
    <3>6. columns2[x].references = Absent /\ y = z
      BY <1>5, <2>2, <3>5, Zenon DEF ReferOnce
    <3> QED BY <1>5, <3>1, <3>3, <3>4, <3>6
  <2> QED BY <2>1, <2>2, Zenon DEF ReferOnce
<1>17. Sound(columns2, cs2) <=> Sound(columns, cs)
  BY <1>7, <1>9, <1>12, <1>13, <1>15, <1>16 DEF Sound, Fit, n
<1> QED BY <1>17 DEF columns2, cs2

(* The columns of a table, and its constraints, may come in any order: the   *)
(* table is refused in each, or has the same columns in each, in the order   *)
(* that they are written in (executor.ts, buildCreateTableColumns).          *)
THEOREM ConstraintsInEveryOrder ==
  ASSUME NEW names, NEW dataTypes, NEW references, NEW C, NEW statement, NEW other,
         statement.columns \in Seq(ColumnsOf(names, dataTypes, references)),
         statement.constraints \in Seq(C),
         NEW q, Reorders(statement.columns, q),
         NEW p, Reorders(statement.constraints, p),
         other.columns = Reordered(statement.columns, q),
         other.constraints = Reordered(statement.constraints, p)
  PROVE  /\ CreatedColumns(other).ok = CreatedColumns(statement).ok
         /\ CreatedColumns(statement).ok =>
              CreatedColumns(other).node = Reordered(CreatedColumns(statement).node, q)
<1> DEFINE columns == statement.columns
           cs == statement.constraints
           columns2 == other.columns
           cs2 == other.constraints
           d == Declared(columns, cs, Len(cs))
           d2 == Declared(columns2, cs2, Len(cs2))
<1>1. DOMAIN cs = 1..Len(cs) /\ Len(cs) \in Nat
  BY LenProperties
<1>2. cs2 \in Seq(C) /\ Len(cs2) = Len(cs)
  BY OtherOrderIsSeq
<1>3. columns2 \in Seq(ColumnsOf(names, dataTypes, references))
  BY OtherOrderIsSeq
<1>4. CreatedColumns(statement) =
        IF Sound(columns, cs) THEN Parsed(StoredColumns(d), 1) ELSE Wrong(1)
  BY ColumnsAreDeclared
<1>5. CreatedColumns(other) =
        IF Sound(columns2, cs2) THEN Parsed(StoredColumns(d2), 1) ELSE Wrong(1)
  BY <1>2, <1>3, ColumnsAreDeclared
<1>6. Sound(columns2, cs2) <=> Sound(columns, cs)
  BY SoundInAnyOrder
<1>7. d2 = Reordered(d, q)
  <2>1. DOMAIN d = DOMAIN columns /\ DOMAIN d2 = DOMAIN columns
    BY DEF Declared, Reordered
  <2>2. ASSUME NEW k \in DOMAIN columns
        PROVE  d2[k] = d[q[k]]
    <3> DEFINE keys == KeysFor(columns, cs, Len(cs), q[k])
               keys2 == KeysFor(columns2, cs2, Len(cs), k)
               refs == ReferencesFor(columns, cs, Len(cs), q[k])
               refs2 == ReferencesFor(columns2, cs2, Len(cs), k)
    <3>1. /\ q[k] \in DOMAIN columns
          /\ columns2[k] = columns[q[k]]
          /\ keys2 = {i \in 1..Len(cs) : p[i] \in keys}
          /\ refs2 = {i \in 1..Len(cs) : p[i] \in refs}
      <4>1. columns2 = Reordered(columns, q) /\ cs2 = Reordered(cs, p)
        OBVIOUS
      <4>2. Reorders(columns, q) /\ Reorders(cs, p) /\ cs \in Seq(C)
        OBVIOUS
      <4> HIDE DEF columns, columns2, cs, cs2
      <4> QED BY <4>1, <4>2, ReorderedColumns
    <3>2. \A i \in 1..Len(cs) : \E j \in 1..Len(cs) : p[j] = i
      BY OtherOrderOfSeq
    <3>3. \A i \in 1..Len(cs) : cs2[i] = cs[p[i]]
      BY OtherOrderOfSeq
    <3>4. keys \subseteq 1..Len(cs) /\ refs \subseteq 1..Len(cs)
      BY DEF KeysFor, ReferencesFor
    <3>5. d2[k] = DeclaredColumn(columns2[k], keys2, ConstraintsAt(cs2, refs2))
      BY <1>2, <2>1 DEF Declared
    <3>6. d[q[k]] = DeclaredColumn(columns[q[k]], keys, ConstraintsAt(cs, refs))
      BY <3>1 DEF Declared
    <3> HIDE DEF keys, keys2, refs, refs2, d, d2, columns, columns2, cs, cs2
    <3>7. keys2 = {} <=> keys = {}
      BY <3>1, <3>2, <3>4
    <3>8. ConstraintsAt(cs2, refs2) = ConstraintsAt(cs, refs)
      <4>1. ConstraintsAt(cs2, refs2) \subseteq ConstraintsAt(cs, refs)
        BY <3>1, <3>3 DEF ConstraintsAt
      <4>2. ASSUME NEW i \in refs
            PROVE  cs[i] \in ConstraintsAt(cs2, refs2)
        <5>1. PICK j \in 1..Len(cs) : p[j] = i
          BY <3>2, <3>4
        <5>2. j \in refs2 /\ cs2[j] = cs[i]
          BY <3>1, <3>3, <5>1
        <5> QED BY <5>2 DEF ConstraintsAt
      <4> QED BY <4>1, <4>2 DEF ConstraintsAt
    <3> QED BY <3>1, <3>5, <3>6, <3>7, <3>8 DEF DeclaredColumn
  <2>3. d2 = [k \in DOMAIN columns |-> d2[k]]
    BY <2>1 DEF Declared
  <2> HIDE DEF d, d2, columns, columns2, cs, cs2
  <2> QED BY <2>1, <2>2, <2>3 DEF Reordered
<1>8. \A x : Parsed(x, 1).ok = TRUE /\ Parsed(x, 1).node = x /\ Wrong(1).ok = FALSE
  BY DEF Parsed, Wrong
<1>9. StoredColumns(d2) = Reordered(StoredColumns(d), q)
  <2>1. DOMAIN d = DOMAIN columns
    BY DEF Declared
  <2>2. \A k \in DOMAIN d : q[k] \in DOMAIN d
    BY <2>1, OtherOrder
  <2> HIDE DEF d, d2
  <2> QED BY <1>7, <2>2 DEF StoredColumns, Reordered
<1> HIDE DEF d, d2, columns, columns2, cs, cs2
<1> QED BY <1>4, <1>5, <1>6, <1>8, <1>9
============================================================================
