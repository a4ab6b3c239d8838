---------------------------- MODULE QueryProofs ----------------------------
(***************************************************************************)
(* Proofs about queries, for every set of tables, statements and rows, and *)
(* whatever the expressions in them are worth: the rows of joins and of    *)
(* groups, and the rows that a mutation touches.                           *)
(***************************************************************************)
EXTENDS Query, ListsProofs

----------------------------------------------------------------------------
(* Lists.                                                                    *)

(* A function on positions is its own list.                                  *)
LEMMA ListedIsItself ==
  ASSUME NEW S, NEW n \in Nat, NEW f \in [1..n -> S]
  PROVE  Listed(f) = f /\ f \in Seq(S) /\ Len(f) = n
<1>1. f \in Seq(S)
  BY SeqDef
<1>2. Len(f) \in Nat /\ DOMAIN f = 1..Len(f)
  BY <1>1, LenProperties
<1>3. DOMAIN f = 1..n
  OBVIOUS
<1>4. Len(f) = n
  BY <1>2, <1>3
<1> QED BY <1>1, <1>4, ConcatEmptySeq DEF Listed

(* A list with no position is empty.                                         *)
LEMMA NoPosition ==
  ASSUME NEW S, NEW s \in Seq(S)
  PROVE  s = <<>> <=> DOMAIN s = {}
<1>1. Len(s) \in Nat /\ DOMAIN s = 1..Len(s)
  BY LenProperties
<1>2. Len(<<>>) = 0 /\ (s # <<>> => Len(s) \in Nat \ {0})
  BY EmptySeq
<1>3. s = <<>> => DOMAIN s = {}
  <2>1. s = <<>> => Len(s) = 0
    BY <1>2
  <2> QED BY <1>1, <2>1
<1>4. s # <<>> => 1 \in DOMAIN s
  BY <1>1, <1>2
<1> QED BY <1>3, <1>4

(* f[i] is the concatenation of the first i lists of ss.                     *)
Flattens(ss, n, f) ==
  f = [i \in 1..n |-> IF i = 1 THEN ss[i] ELSE f[i - 1] \o ss[i]]

(* There is such a function: what the definition of FlattenSeq computes.     *)
LEMMA FlattenExists ==
  ASSUME NEW ss, NEW n \in Nat
  PROVE  \E f : Flattens(ss, n, f)
<1> DEFINE T == {k \in Nat : ~\E f : Flattens(ss, k, f)}
<1>1. SUFFICES ASSUME T # {} PROVE FALSE
  OBVIOUS
<1>2. PICK k \in T : \A j \in T : k <= j
  BY <1>1, LeastNumber
<1>3. CASE k = 0
  <2> DEFINE g == [i \in 1..0 |-> <<>>]
  <2>1. g = [i \in 1..0 |-> IF i = 1 THEN ss[i] ELSE g[i - 1] \o ss[i]]
    OBVIOUS
  <2>2. Flattens(ss, k, g)
    BY <1>3, <2>1 DEF Flattens
  <2> QED BY <2>2
<1>4. CASE k # 0
  <2>1. k - 1 \in Nat /\ k - 1 \notin T
    BY <1>2, <1>4
  <2>2. PICK f : Flattens(ss, k - 1, f)
    BY <2>1
  <2> DEFINE last == IF k = 1 THEN ss[k] ELSE f[k - 1] \o ss[k]
             g == [i \in 1..k |-> IF i = k THEN last ELSE f[i]]
  <2>3. \A i \in 1..(k - 1) : f[i] = IF i = 1 THEN ss[i] ELSE f[i - 1] \o ss[i]
    BY <2>1, <2>2 DEF Flattens
  <2>4. \A i \in 1..k : g[i] = IF i = 1 THEN ss[i] ELSE g[i - 1] \o ss[i]
    BY <1>4, <2>1, <2>3
  <2>5. g = [i \in 1..k |-> g[i]]
    OBVIOUS
  <2> HIDE DEF g
  <2>6. Flattens(ss, k, g)
    BY <2>4, <2>5 DEF Flattens
  <2> QED BY <2>6
<1> QED BY <1>3, <1>4

(* The lists of ss are each in the order R, and their elements related by R  *)
(* to those of the later lists.                                              *)
BlocksInOrder(R, ss) ==
  /\ \A i \in DOMAIN ss : InOrderOf(R, ss[i])
  /\ \A i, j \in DOMAIN ss : i < j =>
       \A x \in ToSet(ss[i]), y \in ToSet(ss[j]) : <<x, y>> \in R

(* r is the concatenation of the first n lists of ss.                        *)
IsFlat(S, ss, n, r) ==
  /\ r \in Seq(S)
  /\ \A x : x \in ToSet(r) <=> \E i \in 1..n : x \in ToSet(ss[i])
  /\ \A R : BlocksInOrder(R, ss) => InOrderOf(R, r)

(* One list more.                                                            *)
LEMMA FlatMore ==
  ASSUME NEW S, NEW ss \in Seq(Seq(S)), NEW n \in Nat, n + 1 <= Len(ss),
         NEW r, IsFlat(S, ss, n, r)
  PROVE  IsFlat(S, ss, n + 1, r \o ss[n + 1])
<1> DEFINE b == ss[n + 1]
           c == r \o b
<1>1. n + 1 \in 1..Len(ss) /\ DOMAIN ss = 1..Len(ss)
  BY LenProperties
<1>2. b \in Seq(S) /\ r \in Seq(S)
  BY <1>1, ElementOfSeq DEF IsFlat
<1>3. /\ DOMAIN b = 1..Len(b) /\ Len(b) \in Nat
      /\ DOMAIN r = 1..Len(r) /\ Len(r) \in Nat
  BY <1>2, LenProperties
<1>4. /\ c \in Seq(S)
      /\ Len(c) = Len(r) + Len(b)
      /\ \A i \in 1..(Len(r) + Len(b)) : c[i] = IF i <= Len(r) THEN r[i] ELSE b[i - Len(r)]
  BY <1>2, ConcatProperties
<1>5. DOMAIN c = 1..(Len(r) + Len(b))
  BY <1>4, LenProperties
<1> HIDE DEF b, c
<1>6. \A i \in DOMAIN c : \/ i \in DOMAIN r /\ c[i] = r[i]
                          \/ i - Len(r) \in DOMAIN b /\ i > Len(r) /\ c[i] = b[i - Len(r)]
  BY <1>3, <1>4, <1>5
<1>7. \A i \in DOMAIN r : i \in DOMAIN c /\ c[i] = r[i]
  BY <1>3, <1>4, <1>5
<1>8. \A i \in DOMAIN b : i + Len(r) \in DOMAIN c /\ c[i + Len(r)] = b[i]
  <2> SUFFICES ASSUME NEW i \in DOMAIN b
               PROVE  i + Len(r) \in DOMAIN c /\ c[i + Len(r)] = b[i]
    OBVIOUS
  <2>1. i + Len(r) \in 1..(Len(r) + Len(b)) /\ ~(i + Len(r) <= Len(r))
    BY <1>3
  <2> DEFINE k == i + Len(r)
  <2>2. k - Len(r) = i /\ k \in 1..(Len(r) + Len(b)) /\ ~(k <= Len(r))
    BY <1>3, <2>1
  <2> HIDE DEF k
  <2>3. c[k] = b[k - Len(r)] /\ k \in DOMAIN c
    BY <1>4, <1>5, <2>2
  <2> QED BY <2>2, <2>3 DEF k
<1>9. ToSet(c) = ToSet(r) \cup ToSet(b)
  <2>1. ToSet(c) \subseteq ToSet(r) \cup ToSet(b)
    BY <1>6 DEF ToSet
  <2>2. ToSet(r) \subseteq ToSet(c)
    BY <1>7 DEF ToSet
  <2>3. ToSet(b) \subseteq ToSet(c)
    BY <1>8 DEF ToSet
  <2> QED BY <2>1, <2>2, <2>3
<1>10. \A x : x \in ToSet(c) <=> \E i \in 1..(n + 1) : x \in ToSet(ss[i])
  <2>1. \A i : i \in 1..(n + 1) <=> i \in 1..n \/ i = n + 1
    OBVIOUS
  <2>2. \A x : x \in ToSet(r) <=> \E i \in 1..n : x \in ToSet(ss[i])
    BY DEF IsFlat
  <2>3. \A x : x \in ToSet(b) <=> x \in ToSet(ss[n + 1])
    BY DEF b
  <2> QED BY <1>9, <2>1, <2>2, <2>3
<1>11. ASSUME NEW R, BlocksInOrder(R, ss)
       PROVE  InOrderOf(R, c)
  <2> SUFFICES ASSUME NEW i \in DOMAIN c, NEW j \in DOMAIN c, i < j
               PROVE  <<c[i], c[j]>> \in R
    BY DEF InOrderOf
  <2>1. InOrderOf(R, r) /\ InOrderOf(R, b)
    BY <1>1, <1>11 DEF IsFlat, BlocksInOrder, b
  <2>2. i \in Nat /\ j \in Nat
    BY <1>3, <1>5
  <2>3. CASE j \in DOMAIN r
    <3>1. i \in DOMAIN r
      BY <1>3, <1>5, <2>2, <2>3
    <3> QED BY <1>7, <2>1, <2>3, <3>1 DEF InOrderOf
  <2>4. CASE i \in DOMAIN r /\ j > Len(r)
    <3>1. c[j] \in ToSet(b)
      BY <1>3, <1>6, <2>2, <2>4 DEF ToSet
    <3>2. c[i] \in ToSet(r)
      BY <1>7, <2>4 DEF ToSet
    <3>3. PICK k \in 1..n : c[i] \in ToSet(ss[k])
      BY <3>2 DEF IsFlat
    <3>4. k \in DOMAIN ss /\ n + 1 \in DOMAIN ss /\ k < n + 1
      BY <1>1
    <3> QED BY <1>11, <3>1, <3>3, <3>4 DEF BlocksInOrder, b
  <2>5. CASE i > Len(r)
    <3>1. i - Len(r) \in DOMAIN b /\ j - Len(r) \in DOMAIN b /\ i - Len(r) < j - Len(r)
      BY <1>3, <1>5, <2>2, <2>5
    <3>2. c[i] = b[i - Len(r)] /\ c[j] = b[j - Len(r)]
      BY <1>3, <1>4, <1>5, <2>2, <2>5
    <3> QED BY <2>1, <3>1, <3>2 DEF InOrderOf
  <2> QED BY <1>3, <1>5, <2>2, <2>3, <2>4, <2>5
<1> QED BY <1>4, <1>10, <1>11 DEF IsFlat, b, c

(* So FlattenSeq has the elements of its lists, and keeps an order that they *)
(* are in.                                                                   *)
LEMMA FlattenElements ==
  ASSUME NEW S, NEW ss \in Seq(Seq(S))
  PROVE  IsFlat(S, ss, Len(ss), FlattenSeq(ss))
<1>1. Len(ss) \in Nat /\ DOMAIN ss = 1..Len(ss)
  BY LenProperties
<1>2. CASE Len(ss) = 0
  <2>1. FlattenSeq(ss) = ss /\ ss = <<>>
    BY <1>2, EmptySeq DEF FlattenSeq
  <2>2. ss \in Seq(S) /\ DOMAIN ss = {} /\ 1..Len(ss) = {}
    BY <1>1, <1>2, <2>1, EmptySeq
  <2>3. ToSet(ss) = {}
    BY <2>2 DEF ToSet
  <2>4. \A R : InOrderOf(R, ss)
    BY <2>2 DEF InOrderOf
  <2>5. \A x : x \notin ToSet(ss) /\ ~\E i \in 1..Len(ss) : x \in ToSet(ss[i])
    BY <2>2, <2>3
  <2> QED BY <2>1, <2>2, <2>3, <2>4, <2>5 DEF IsFlat
<1>3. CASE Len(ss) # 0
  <2> DEFINE f == CHOOSE g : Flattens(ss, Len(ss), g)
             T == {k \in Nat : k \in 1..Len(ss) /\ ~IsFlat(S, ss, k, f[k])}
  <2>1. Flattens(ss, Len(ss), f)
    BY <1>1, FlattenExists
  <2>2. FlattenSeq(ss) = f[Len(ss)]
    BY <1>3 DEF FlattenSeq, Flattens
  <2> HIDE DEF f
  <2>3. \A i \in 1..Len(ss) : f[i] = IF i = 1 THEN ss[i] ELSE f[i - 1] \o ss[i]
    BY <2>1 DEF Flattens
  <2>4. ASSUME T # {}
        PROVE  FALSE
    <3>1. PICK k \in T : \A j \in T : k <= j
      BY <2>4, LeastNumber
    <3>2. CASE k = 1
      <4>1. f[k] = ss[1] /\ ss[1] \in Seq(S) /\ 1 \in DOMAIN ss
        BY <1>1, <2>3, <3>1, <3>2, ElementOfSeq
      <4>2. 1..k = {1}
        BY <3>2
      <4>3. \A x : x \in ToSet(ss[1]) <=> \E i \in 1..k : x \in ToSet(ss[i])
        BY <4>2
      <4>4. \A R : BlocksInOrder(R, ss) => InOrderOf(R, ss[1])
        BY <4>1 DEF BlocksInOrder
      <4> QED BY <3>1, <4>1, <4>3, <4>4 DEF IsFlat
    <3>3. CASE k # 1
      <4>1. k - 1 \in 1..Len(ss) /\ k - 1 \in Nat /\ k - 1 \notin T
        BY <1>1, <3>1, <3>3
      <4>2. IsFlat(S, ss, k - 1, f[k - 1])
        BY <4>1
      <4>3. f[k] = f[k - 1] \o ss[k]
        BY <2>3, <3>1, <3>3
      <4> DEFINE n == k - 1
      <4>4. n \in Nat /\ n + 1 = k /\ n + 1 <= Len(ss)
        BY <1>1, <3>1, <4>1
      <4>5. IsFlat(S, ss, n, f[n]) /\ f[k] = f[n] \o ss[n + 1]
        BY <4>2, <4>3, <4>4
      <4> HIDE DEF n
      <4>6. IsFlat(S, ss, n + 1, f[k])
        BY <4>4, <4>5, FlatMore
      <4> QED BY <3>1, <4>4, <4>6
    <3> QED BY <3>2, <3>3
  <2>5. Len(ss) \in 1..Len(ss)
    BY <1>1, <1>3
  <2> QED BY <1>1, <2>2, <2>4, <2>5
<1> QED BY <1>2, <1>3

----------------------------------------------------------------------------
(* The rows of the tables.                                                   *)

(* A table is found by its folded name, and a column by its own.             *)
LEMMA TableFacts ==
  ASSUME NEW table \in TableNames
  PROVE  /\ IsList(Schema[table])
         /\ \A c \in ToSet(Schema[table]) :
              /\ Key(c.name) \in ColumnKeys[table]
              /\ ColumnOf[table][Key(c.name)] = c
              /\ c.dataType \in {"INTEGER", "DECIMAL", "TEXT", "BOOLEAN"}
         /\ \A key \in ColumnKeys[table] :
              ColumnOf[table][key] \in ToSet(Schema[table]) /\ Key(ColumnOf[table][key].name) = key
<1> DEFINE d == Definition[table]
           cs == Schema[table]
<1>1. \E t \in Tables : Key(t.tableName) = table
  BY DEF TableNames
<1>2. d \in Tables
  BY <1>1 DEF Definition
<1>3. cs = d.columns
  BY DEF Schema
<1> HIDE DEF d, cs
<1>4. /\ IsList(cs)
      /\ \A i, j \in DOMAIN cs : Key(cs[i].name) = Key(cs[j].name) => i = j
      /\ \A c \in ToSet(cs) : c.dataType \in {"INTEGER", "DECIMAL", "TEXT", "BOOLEAN"}
  BY <1>2, <1>3, QueryAssumption
<1>5. ColumnKeys[table] = {Key(c.name) : c \in ToSet(cs)}
  BY DEF ColumnKeys, cs
<1>6. \A key \in ColumnKeys[table] :
        ColumnOf[table][key] = CHOOSE c \in ToSet(cs) : Key(c.name) = key
  BY DEF ColumnOf, cs
<1>7. \A key \in ColumnKeys[table] :
        ColumnOf[table][key] \in ToSet(cs) /\ Key(ColumnOf[table][key].name) = key
  <2> SUFFICES ASSUME NEW key \in ColumnKeys[table]
               PROVE  ColumnOf[table][key] \in ToSet(cs) /\ Key(ColumnOf[table][key].name) = key
    OBVIOUS
  <2>1. \E c \in ToSet(cs) : Key(c.name) = key
    BY <1>5
  <2> QED BY <1>6, <2>1
<1>8. \A c, e \in ToSet(cs) : Key(c.name) = Key(e.name) => c = e
  BY <1>4 DEF ToSet
<1>9. \A c \in ToSet(cs) : Key(c.name) \in ColumnKeys[table] /\ ColumnOf[table][Key(c.name)] = c
  BY <1>5, <1>7, <1>8
<1> QED BY <1>4, <1>7, <1>9 DEF cs

(* The inductive invariant: every table is a list of rows of its schema.     *)
RowsInv ==
  /\ DOMAIN rows = TableNames
  /\ \A table \in TableNames :
       /\ IsList(rows[table])
       /\ \A row \in ToSet(rows[table]) : DOMAIN row = ColumnKeys[table] /\ ValidRow(table, row)

(* A sequence is a list: its elements are its own.                           *)
LEMMA ListIsList ==
  ASSUME NEW S, NEW s \in Seq(S)
  PROVE  IsList(s)
<1>1. Len(s) \in Nat /\ s \in [1..Len(s) -> S] /\ DOMAIN s = 1..Len(s)
  BY LenProperties
<1>2. s \in [1..Len(s) -> ToSet(s)]
  BY <1>1 DEF ToSet
<1> QED BY <1>1, <1>2, SeqDef DEF IsList

(* What a list is, in terms of its places.                                   *)
LEMMA IsListSays ==
  ASSUME NEW s, IsList(s)
  PROVE  /\ s \in Seq(ToSet(s))
         /\ Len(s) \in Nat
         /\ DOMAIN s = 1..Len(s)
  BY LenProperties DEF IsList

(* Empty tables satisfy the invariant.                                       *)
LEMMA InitRowsInv == Init => RowsInv
<1> SUFFICES ASSUME Init PROVE RowsInv
  OBVIOUS
<1>1. DOMAIN rows = TableNames /\ \A table \in TableNames : rows[table] = <<>>
  BY DEF Init
<1>2. <<>> \in Seq({}) /\ ToSet(<<>>) = {}
  BY EmptySeq DEF ToSet
<1>3. IsList(<<>>)
  BY <1>2, ListIsList
<1> QED BY <1>1, <1>2, <1>3 DEF RowsInv

(* A table whose new rows are a list of rows of its schema.                  *)
LEMMA ReplaceRowsOK ==
  ASSUME RowsInv, NEW m, NEW new, ReplaceRows(m, new),
         Key(m.tableName) \in TableNames, IsList(new),
         \A row \in ToSet(new) : /\ DOMAIN row = ColumnKeys[Key(m.tableName)]
                                 /\ ValidRow(Key(m.tableName), row)
  PROVE  RowsInv'
<1>1. /\ DOMAIN rows' = TableNames
      /\ \A table \in TableNames :
           rows'[table] = IF table = Key(m.tableName) THEN new ELSE rows[table]
  BY DEF ReplaceRows, RowsInv
<1>2. \A table \in TableNames :
        /\ IsList(rows'[table])
        /\ \A row \in ToSet(rows'[table]) :
             DOMAIN row = ColumnKeys[table] /\ ValidRow(table, row)
  BY <1>1 DEF RowsInv
<1> QED BY <1>1, <1>2 DEF RowsInv, ValidRow

(* INSERT keeps it: it validates the row that it adds.                       *)
LEMMA InsertOK ==
  ASSUME RowsInv, NEW m, ExecuteInsert(m)
  PROVE  RowsInv'
<1> DEFINE table == Key(m.tableName)
           old == rows[table]
           row == InsertedRow(m)
           new == Append(old, row)
<1>1. table \in TableNames /\ ValidRow(table, row)
  BY DEF ExecuteInsert, InsertAccepted
<1>2. DOMAIN row = ColumnKeys[table]
  BY DEF InsertedRow
<1>3. IsList(old)
  BY <1>1 DEF RowsInv
<1>4. \A x \in ToSet(old) : DOMAIN x = ColumnKeys[table] /\ ValidRow(table, x)
  BY <1>1 DEF RowsInv
<1> HIDE DEF row, old
<1>5. old \in Seq(ToSet(old) \cup {row})
  BY <1>3, SeqMonotonic DEF IsList
<1>6. new \in Seq(ToSet(old) \cup {row})
  BY <1>5, AppendProperties
<1>7. \A x \in ToSet(new) : x \in ToSet(old) \cup {row}
  BY <1>6, LenProperties, ElementOfSeq DEF ToSet
<1> HIDE DEF new
<1>8. IsList(new) /\ \A x \in ToSet(new) : DOMAIN x = ColumnKeys[table] /\ ValidRow(table, x)
  BY <1>1, <1>2, <1>4, <1>6, <1>7, ListIsList
<1>9. ReplaceRows(m, new)
  BY DEF ExecuteInsert, new, old, row
<1> QED BY <1>1, <1>8, <1>9, ReplaceRowsOK

(* UPDATE keeps it: it validates all rows before it replaces any.            *)
LEMMA UpdateOK ==
  ASSUME RowsInv, NEW m, ExecuteUpdate(m)
  PROVE  RowsInv'
<1> DEFINE table == Key(m.tableName)
           old == rows[table]
           Changed(i) == IF Touches(m, old[i]) THEN UpdatedRow(m, old[i]) ELSE old[i]
           f == [i \in DOMAIN old |-> Changed(i)]
           new == UpdatedRows(m)
<1>1. table \in TableNames /\ \A row \in ToSet(new) : ValidRow(table, row)
  BY DEF ExecuteUpdate, UpdateAccepted, WhereAccepted
<1>2. IsList(old) /\ \A x \in ToSet(old) : DOMAIN x = ColumnKeys[table]
  BY <1>1 DEF RowsInv
<1>3. new = Listed(f)
  BY DEF UpdatedRows
<1> HIDE DEF old
<1>4. \A i \in DOMAIN old : DOMAIN Changed(i) = ColumnKeys[table]
  <2> SUFFICES ASSUME NEW i \in DOMAIN old
               PROVE  DOMAIN Changed(i) = ColumnKeys[table]
    OBVIOUS
  <2>1. DOMAIN old[i] = ColumnKeys[table]
    BY <1>2 DEF ToSet
  <2>2. DOMAIN UpdatedRow(m, old[i]) = DOMAIN old[i]
    BY DEF UpdatedRow
  <2> QED BY <2>1, <2>2
<1> HIDE DEF Changed
<1>5. f \in [1..Len(old) -> ToSet(f)] /\ Len(old) \in Nat /\ DOMAIN f = DOMAIN old
  BY <1>2, IsListSays DEF ToSet
<1>6. \A x \in ToSet(f) : DOMAIN x = ColumnKeys[table]
  BY <1>4, <1>5 DEF ToSet
<1> HIDE DEF f, new
<1>7. new = f /\ f \in Seq(ToSet(f))
  BY <1>3, <1>5, ListedIsItself
<1>8. ReplaceRows(m, new)
  BY DEF ExecuteUpdate, new
<1>9. IsList(new)
  BY <1>7, ListIsList
<1> QED BY <1>1, <1>6, <1>7, <1>8, <1>9, ReplaceRowsOK

(* DELETE keeps it: what is left was there.                                  *)
LEMMA DeleteOK ==
  ASSUME RowsInv, NEW m, ExecuteDelete(m)
  PROVE  RowsInv'
<1> DEFINE table == Key(m.tableName)
           old == rows[table]
           kept == {i \in DOMAIN old : ~Touches(m, old[i])}
           new == Only(old, kept)
<1>1. table \in TableNames
  BY DEF ExecuteDelete, WhereAccepted
<1>2. /\ old \in Seq(ToSet(old))
      /\ \A x \in ToSet(old) : DOMAIN x = ColumnKeys[table] /\ ValidRow(table, x)
  BY <1>1 DEF RowsInv, IsList
<1>3. ReplaceRows(m, new)
  BY DEF ExecuteDelete, KeptRows
<1> HIDE DEF old, kept
<1>4. new \in Seq(ToSet(old)) /\ \A k \in DOMAIN new : \E i \in DOMAIN old \cap kept : new[k] = old[i]
  BY <1>2, OnlyElements
<1> HIDE DEF new
<1>5. \A x \in ToSet(new) : x \in ToSet(old)
  BY <1>4 DEF ToSet
<1>6. IsList(new)
  BY <1>4, ListIsList
<1> QED BY <1>1, <1>2, <1>3, <1>5, <1>6, ReplaceRowsOK

(* So it holds in every state.                                               *)
LEMMA AlwaysRowsInv == Spec => []RowsInv
<1>1. ASSUME RowsInv, UNCHANGED rows
      PROVE  RowsInv'
  BY <1>1 DEF RowsInv, ValidRow
<1>2. RowsInv /\ [Next]_rows => RowsInv'
  BY <1>1, InsertOK, UpdateOK, DeleteOK DEF Next
<1> QED BY <1>2, InitRowsInv, PTL DEF Spec

(* Every table keeps rows of its schema, whatever an UPDATE computes.        *)
THEOREM QueryTypeCorrect == Spec => []TypeOK
<1>1. RowsInv => TypeOK
  <2> SUFFICES ASSUME RowsInv, NEW table \in TableNames, NEW row \in ToSet(rows[table])
               PROVE  /\ DOMAIN row = ColumnKeys[table]
                      /\ \A c \in ToSet(Schema[table]) :
                           /\ row[Key(c.name)] = Null => c.nullable
                           /\ row[Key(c.name)] # Null => row[Key(c.name)][1] = TypeOf[c.dataType]
    BY DEF TypeOK, RowsInv
  <2>1. DOMAIN row = ColumnKeys[table] /\ ValidRow(table, row)
    BY DEF RowsInv
  <2>2. ASSUME NEW c \in ToSet(Schema[table])
        PROVE  ValidValue(c, row[Key(c.name)])
    BY <2>1, TableFacts DEF ValidRow
  <2> QED BY <2>1, <2>2 DEF ValidValue
<1> QED BY <1>1, AlwaysRowsInv, PTL

----------------------------------------------------------------------------
(* The order of joined rows: by the rows of the first relation, then by      *)
(* those of the second, and so on.                                           *)

Earlier == {pair \in Seq(Nat) \X Seq(Nat) : Precedes(pair[1], pair[2])}

LEMMA EarlierMeans ==
  ASSUME NEW p \in Seq(Nat), NEW q \in Seq(Nat)
  PROVE  <<p, q>> \in Earlier <=> Precedes(p, q)
  BY DEF Earlier

(* Rows that extend others are in the order of those,                        *)
LEMMA EarlierPrefix ==
  ASSUME NEW n \in Nat, NEW p \in Seq(Nat), NEW q \in Seq(Nat),
         Len(p) = n, Len(q) = n, <<p, q>> \in Earlier,
         NEW x \in Seq(Nat), NEW y \in Seq(Nat), Len(x) = n + 1, Len(y) = n + 1,
         \A k \in 1..n : x[k] = p[k] /\ y[k] = q[k]
  PROVE  <<x, y>> \in Earlier
<1>1. DOMAIN p = 1..n /\ DOMAIN x = 1..(n + 1)
  BY LenProperties
<1>2. PICK i \in DOMAIN p : p[i] < q[i] /\ \A j \in 1..(i - 1) : p[j] = q[j]
  BY EarlierMeans DEF Precedes
<1>3. i \in DOMAIN x /\ x[i] < y[i]
  BY <1>1, <1>2
<1>4. \A j \in 1..(i - 1) : j \in 1..n
  BY <1>1
<1>5. \A j \in 1..(i - 1) : x[j] = y[j]
  BY <1>2, <1>4
<1> QED BY <1>3, <1>5, EarlierMeans DEF Precedes

(* and those that extend one row in the order of what is added.              *)
LEMMA EarlierLast ==
  ASSUME NEW p \in Seq(Nat), NEW i \in Nat, NEW j \in Nat, i < j
  PROVE  <<Append(p, i), Append(p, j)>> \in Earlier
<1> DEFINE x == Append(p, i)
           y == Append(p, j)
           n == Len(p) + 1
<1>1. /\ x \in Seq(Nat) /\ Len(x) = n /\ x[n] = i /\ \A k \in 1..Len(p) : x[k] = p[k]
      /\ y \in Seq(Nat) /\ Len(y) = n /\ y[n] = j /\ \A k \in 1..Len(p) : y[k] = p[k]
  BY AppendProperties
<1>2. n \in 1..n /\ Len(p) = n - 1
  BY LenProperties
<1> HIDE DEF x, y, n
<1>3. n \in DOMAIN x
  BY <1>1, <1>2, LenProperties
<1>4. x[n] < y[n] /\ \A k \in 1..(n - 1) : x[k] = y[k]
  BY <1>1, <1>2
<1>5. Precedes(x, y)
  BY <1>3, <1>4 DEF Precedes
<1>6. <<x, y>> \in Earlier
  BY <1>1, <1>5, EarlierMeans
<1> QED BY <1>6 DEF x, y

(* A row is its prefix and its last place.                                   *)
LEMMA PrefixAndLast ==
  ASSUME NEW n \in Nat, NEW x \in Seq(Nat), Len(x) = n + 1,
         NEW p \in Seq(Nat), Len(p) = n
  PROVE  /\ x = Append(p, x[n + 1]) <=> \A k \in 1..n : x[k] = p[k]
         /\ IsPrefix(p, x) <=> \A k \in 1..n : x[k] = p[k]
         /\ x[n + 1] \in Nat
<1>1. DOMAIN x = 1..(n + 1) /\ \A k \in 1..(n + 1) : x[k] \in Nat
  BY LenProperties, ElementOfSeq
<1>2. DOMAIN p = 1..n /\ \A k \in 1..n : p[k] \in Nat
  BY LenProperties, ElementOfSeq
<1> DEFINE y == Append(p, x[n + 1])
<1>3. n + 1 \in 1..(n + 1) /\ x[n + 1] \in Nat
  BY <1>1
<1>4. y \in Seq(Nat) /\ Len(y) = n + 1 /\ y[n + 1] = x[n + 1] /\ \A k \in 1..n : y[k] = p[k]
  BY <1>3, AppendProperties
<1> HIDE DEF y
<1>5. ASSUME \A k \in 1..n : x[k] = p[k]
      PROVE  x = y
  <2>1. \A k \in 1..(n + 1) : k \in 1..n \/ k = n + 1
    OBVIOUS
  <2>2. \A k \in 1..Len(x) : x[k] = y[k]
    BY <1>4, <1>5, <2>1
  <2> QED BY <1>4, <2>2, SeqEqual
<1>6. x = y <=> \A k \in 1..n : x[k] = p[k]
  BY <1>4, <1>5
<1>7. SubSeq(p, 1, n) = p
  BY SubSeqFull
<1>8. /\ SubSeq(x, 1, n) \in Seq(Nat) /\ Len(SubSeq(x, 1, n)) = n
      /\ \A k \in 1..n : SubSeq(x, 1, n)[k] = x[k]
  <2>1. \A k \in 1..n : x[k] \in Nat
    BY <1>1
  <2>2. 1 \in Int /\ n \in Int
    OBVIOUS
  <2>3. /\ SubSeq(x, 1, n) \in Seq(Nat)
        /\ Len(SubSeq(x, 1, n)) = IF 1 <= n THEN n - 1 + 1 ELSE 0
        /\ \A k \in 1..(n - 1 + 1) : SubSeq(x, 1, n)[k] = x[1 + k - 1]
    BY <2>1, <2>2, SubSeqProperties
  <2>4. \A k \in 1..n : 1 + k - 1 = k /\ n - 1 + 1 = n
    OBVIOUS
  <2> QED BY <2>3, <2>4
<1>9. p = SubSeq(x, 1, n) <=> \A k \in 1..n : x[k] = p[k]
  <2>1. ASSUME \A k \in 1..n : x[k] = p[k]
        PROVE  p = SubSeq(x, 1, n)
    BY <1>8, <2>1, SeqEqual
  <2> QED BY <1>8, <2>1
<1>10. IsPrefix(p, x) <=> p = SubSeq(x, 1, n)
  BY <1>7 DEF IsPrefix
<1> QED BY <1>3, <1>6, <1>9, <1>10 DEF y

----------------------------------------------------------------------------
(* The nested loops.                                                         *)

(* How many rows the relation at a place has.                                *)
Size(relations, k) == Len(rows[relations[k].table])

(* One left row with each of n right ones.                                   *)
LEMMA OneLeftRow ==
  ASSUME NEW p \in Seq(Nat), NEW n \in Nat
  PROVE  LET b == Listed([i \in 1..n |-> Append(p, i)])
         IN  /\ b \in Seq(Seq(Nat))
             /\ \A x : x \in ToSet(b) <=> \E i \in 1..n : x = Append(p, i)
             /\ InOrderOf(Earlier, b)
<1> DEFINE f == [i \in 1..n |-> Append(p, i)]
<1>1. \A i \in 1..n : Append(p, i) \in Seq(Nat)
  BY AppendProperties
<1>2. f \in [1..n -> Seq(Nat)]
  BY <1>1
<1>3. Listed(f) = f /\ f \in Seq(Seq(Nat))
  BY <1>2, ListedIsItself
<1>4. \A x : x \in ToSet(f) <=> \E i \in 1..n : x = Append(p, i)
  BY DEF ToSet
<1>5. InOrderOf(Earlier, f)
  BY EarlierLast DEF InOrderOf
<1> QED BY <1>3, <1>4, <1>5

(* The left rows, each with every row of the next relation.                  *)
LEMMA ExtensionsOK ==
  ASSUME NEW relations, NEW n \in Nat, NEW lefts \in Seq(Seq(Nat)),
         \A p \in ToSet(lefts) : Len(p) = n,
         InOrderOf(Earlier, lefts),
         IsList(rows[relations[n + 1].table])
  PROVE  LET all == Extensions(relations, lefts)
         IN  /\ all \in Seq(Seq(Nat))
             /\ \A x : x \in ToSet(all) <=>
                  \E p \in ToSet(lefts), i \in 1..Size(relations, n + 1) : x = Append(p, i)
             /\ InOrderOf(Earlier, all)
<1> DEFINE all == Extensions(relations, lefts)
           m == Size(relations, n + 1)
           block(l) == Listed([i \in 1..m |-> Append(lefts[l], i)])
           f == [l \in DOMAIN lefts |-> block(l)]
           ss == Listed(f)
<1>1. /\ Len(lefts) \in Nat /\ DOMAIN lefts = 1..Len(lefts)
      /\ \A l \in DOMAIN lefts : lefts[l] \in Seq(Nat) /\ lefts[l] \in ToSet(lefts)
  BY LenProperties, ElementOfSeq DEF ToSet
<1>2. m \in Nat /\ DOMAIN rows[relations[n + 1].table] = 1..m
  BY IsListSays DEF Size
<1>3. CASE lefts = <<>>
  <2>1. all = <<>>
    BY <1>3 DEF Extensions
  <2>2. DOMAIN lefts = {} /\ ToSet(lefts) = {}
    BY <1>1, <1>3, EmptySeq DEF ToSet
  <2>3. all \in Seq(Seq(Nat)) /\ ToSet(all) = {} /\ InOrderOf(Earlier, all)
    BY <1>3, <2>1, <2>2 DEF InOrderOf
  <2> QED BY <2>2, <2>3
<1>4. CASE lefts # <<>>
  <2>1. 1 \in DOMAIN lefts
    BY <1>1, <1>4, EmptySeq
  <2>2. Len(lefts[1]) = n
    BY <1>1, <2>1
  <2>3. all = FlattenSeq(ss)
    BY <1>2, <1>4, <2>2 DEF Extensions
  <2>4. \A l \in DOMAIN lefts :
          /\ block(l) \in Seq(Seq(Nat))
          /\ \A x : x \in ToSet(block(l)) <=> \E i \in 1..m : x = Append(lefts[l], i)
          /\ InOrderOf(Earlier, block(l))
    BY <1>1, <1>2, OneLeftRow
  <2> HIDE DEF all, block, m
  <2>5. f \in [1..Len(lefts) -> Seq(Seq(Nat))]
    BY <1>1, <2>4
  <2>6. ss = f /\ f \in Seq(Seq(Seq(Nat))) /\ Len(f) = Len(lefts)
    BY <1>1, <2>5, ListedIsItself
  <2>7. \A l \in DOMAIN lefts : f[l] = block(l)
    OBVIOUS
  <2>8. DOMAIN f = DOMAIN lefts
    OBVIOUS
  <2> HIDE DEF f
  <2>9. IsFlat(Seq(Nat), f, Len(f), all)
    BY <2>3, <2>6, FlattenElements
  <2>10. \A x : x \in ToSet(all) <=> \E p \in ToSet(lefts), i \in 1..m : x = Append(p, i)
    <3>1. \A x : x \in ToSet(all) <=> \E l \in DOMAIN lefts : x \in ToSet(block(l))
      BY <1>1, <2>6, <2>7, <2>9 DEF IsFlat
    <3>2. \A x : x \in ToSet(all) <=>
                   \E l \in DOMAIN lefts : \E i \in 1..m : x = Append(lefts[l], i)
      BY <2>4, <3>1
    <3> QED BY <3>2 DEF ToSet
  <2>11. BlocksInOrder(Earlier, f)
    <3>1. ASSUME NEW k \in DOMAIN lefts, NEW l \in DOMAIN lefts, k < l,
                 NEW x \in ToSet(block(k)), NEW y \in ToSet(block(l))
          PROVE  <<x, y>> \in Earlier
      <4>1. PICK i \in 1..m : x = Append(lefts[k], i)
        BY <2>4
      <4>2. PICK j \in 1..m : y = Append(lefts[l], j)
        BY <2>4
      <4>3. <<lefts[k], lefts[l]>> \in Earlier
        BY <3>1 DEF InOrderOf
      <4>4. /\ lefts[k] \in Seq(Nat) /\ Len(lefts[k]) = n
            /\ lefts[l] \in Seq(Nat) /\ Len(lefts[l]) = n
        BY <1>1
      <4>5. /\ x \in Seq(Nat) /\ Len(x) = n + 1 /\ \A h \in 1..n : x[h] = lefts[k][h]
            /\ y \in Seq(Nat) /\ Len(y) = n + 1 /\ \A h \in 1..n : y[h] = lefts[l][h]
        BY <1>2, <4>1, <4>2, <4>4, AppendProperties
      <4>6. PICK p \in Seq(Nat) : p = lefts[k]
        BY <4>4
      <4>7. PICK q \in Seq(Nat) : q = lefts[l]
        BY <4>4
      <4>8. /\ Len(p) = n /\ Len(q) = n /\ <<p, q>> \in Earlier
            /\ \A h \in 1..n : x[h] = p[h] /\ y[h] = q[h]
        BY <4>3, <4>4, <4>5, <4>6, <4>7
      <4> QED BY <4>5, <4>8, EarlierPrefix
    <3> QED BY <2>4, <2>7, <2>8, <3>1 DEF BlocksInOrder
  <2> QED BY <2>9, <2>10, <2>11 DEF IsFlat, all, m
<1> QED BY <1>3, <1>4

(* A filter of joined rows.                                                  *)
LEMMA FilterOK ==
  ASSUME NEW all \in Seq(Seq(Nat)), NEW kept, InOrderOf(Earlier, all)
  PROVE  LET few == Only(all, kept)
         IN  /\ few \in Seq(Seq(Nat))
             /\ \A x : x \in ToSet(few) <=> \E i \in DOMAIN all : i \in kept /\ all[i] = x
             /\ InOrderOf(Earlier, few)
<1> DEFINE few == Only(all, kept)
<1>1. /\ few \in Seq(Seq(Nat))
      /\ \A k \in DOMAIN few : \E i \in DOMAIN all \cap kept : few[k] = all[i]
      /\ \A i \in DOMAIN all \cap kept : \E k \in DOMAIN few : few[k] = all[i]
      /\ \A R : InOrderOf(R, all) => InOrderOf(R, few)
  BY OnlyElements
<1> HIDE DEF few
<1>2. \A x : x \in ToSet(few) <=> \E i \in DOMAIN all : i \in kept /\ all[i] = x
  BY <1>1 DEF ToSet
<1> QED BY <1>1, <1>2 DEF few

(* What one left row becomes in a LEFT JOIN.                                 *)
OwnMatches(matched, p) == Only(matched, {i \in DOMAIN matched : IsPrefix(p, matched[i])})
LeftJoined(matched, p) ==
  IF OwnMatches(matched, p) = <<>> THEN <<Append(p, 0)>> ELSE OwnMatches(matched, p)

(* A row of it extends the left row: by a match, or by nulls for want of one.*)
ExtendsLeft(matched, p, x) ==
  \/ x \in ToSet(matched) /\ IsPrefix(p, x)
  \/ x = Append(p, 0) /\ \A y \in ToSet(matched) : ~IsPrefix(p, y)

LEMMA OneLeftJoined ==
  ASSUME NEW n \in Nat, NEW p \in Seq(Nat), Len(p) = n,
         NEW matched \in Seq(Seq(Nat)),
         \A x \in ToSet(matched) : Len(x) = n + 1,
         InOrderOf(Earlier, matched)
  PROVE  LET b == LeftJoined(matched, p)
         IN  /\ b \in Seq(Seq(Nat))
             /\ \A x : x \in ToSet(b) <=> ExtendsLeft(matched, p, x)
             /\ \A x \in ToSet(b) : x \in Seq(Nat) /\ Len(x) = n + 1 /\ \A k \in 1..n : x[k] = p[k]
             /\ InOrderOf(Earlier, b)
<1> DEFINE kept == {i \in DOMAIN matched : IsPrefix(p, matched[i])}
           own == OwnMatches(matched, p)
           b == LeftJoined(matched, p)
<1>1. /\ own \in Seq(Seq(Nat))
      /\ \A x : x \in ToSet(own) <=> \E i \in DOMAIN matched : i \in kept /\ matched[i] = x
      /\ InOrderOf(Earlier, own)
  BY FilterOK DEF OwnMatches
<1>2. \A x : x \in ToSet(own) <=> x \in ToSet(matched) /\ IsPrefix(p, x)
  BY <1>1 DEF ToSet
<1> HIDE DEF own
<1>3. own = <<>> <=> ToSet(own) = {}
  <2>1. own = <<>> <=> DOMAIN own = {}
    BY <1>1, NoPosition
  <2> QED BY <2>1 DEF ToSet
<1>4. /\ Append(p, 0) \in Seq(Nat) /\ Len(Append(p, 0)) = n + 1
      /\ \A k \in 1..n : Append(p, 0)[k] = p[k]
  BY AppendProperties
<1>5. CASE own = <<>>
  <2> DEFINE z == Append(p, 0)
  <2>1. b = <<z>>
    BY <1>5 DEF LeftJoined, own
  <2>2. z \in Seq(Nat)
    BY <1>4
  <2> HIDE DEF b, z
  <2>3. b \in Seq(Seq(Nat)) /\ DOMAIN b = {1} /\ b[1] = z
    BY <2>1, <2>2
  <2>4. ToSet(b) = {z}
    BY <2>3 DEF ToSet
  <2>5. InOrderOf(Earlier, b)
    BY <2>3 DEF InOrderOf
  <2>6. \A y \in ToSet(matched) : ~IsPrefix(p, y)
    BY <1>2, <1>3, <1>5
  <2>7. \A x : x \in ToSet(b) <=> ExtendsLeft(matched, p, x)
    BY <2>4, <2>6 DEF ExtendsLeft, z
  <2>8. \A x \in ToSet(b) : x \in Seq(Nat) /\ Len(x) = n + 1 /\ \A k \in 1..n : x[k] = p[k]
    BY <1>4, <2>4 DEF z
  <2> QED BY <2>3, <2>5, <2>7, <2>8 DEF b
<1>6. CASE own # <<>>
  <2>1. b = own
    BY <1>6 DEF LeftJoined, own
  <2>2. \E y \in ToSet(matched) : IsPrefix(p, y)
    BY <1>2, <1>3, <1>6
  <2>3. ASSUME NEW x \in ToSet(own)
        PROVE  x \in Seq(Nat) /\ Len(x) = n + 1 /\ \A k \in 1..n : x[k] = p[k]
    <3>1. x \in ToSet(matched) /\ IsPrefix(p, x)
      BY <1>2
    <3>2. x \in Seq(Nat) /\ Len(x) = n + 1
      BY <3>1, LenProperties, ElementOfSeq DEF ToSet
    <3> QED BY <3>1, <3>2, PrefixAndLast
  <2>4. \A x : x \in ToSet(own) <=> ExtendsLeft(matched, p, x)
    BY <1>2, <2>2 DEF ExtendsLeft
  <2> HIDE DEF b
  <2> QED BY <1>1, <2>1, <2>3, <2>4 DEF b
<1> QED BY <1>5, <1>6

(* The null extension: each left row with its matches, or with none.         *)
LEMMA ExtendLeftOK ==
  ASSUME NEW relations, NEW n \in Nat, NEW lefts \in Seq(Seq(Nat)),
         \A p \in ToSet(lefts) : Len(p) = n,
         InOrderOf(Earlier, lefts),
         NEW matched \in Seq(Seq(Nat)),
         \A x \in ToSet(matched) : Len(x) = n + 1,
         InOrderOf(Earlier, matched)
  PROVE  LET all == ExtendLeftJoinRows(relations, lefts, matched)
         IN  /\ all \in Seq(Seq(Nat))
             /\ \A x : x \in ToSet(all) <=> \E p \in ToSet(lefts) : ExtendsLeft(matched, p, x)
             /\ InOrderOf(Earlier, all)
<1> DEFINE all == ExtendLeftJoinRows(relations, lefts, matched)
           block(p) == LeftJoined(matched, p)
           Extends(p, x) == ExtendsLeft(matched, p, x)
           f == [l \in DOMAIN lefts |-> block(lefts[l])]
<1>1. /\ Len(lefts) \in Nat /\ DOMAIN lefts = 1..Len(lefts)
      /\ \A l \in DOMAIN lefts : lefts[l] \in Seq(Nat) /\ Len(lefts[l]) = n
  BY LenProperties, ElementOfSeq DEF ToSet
<1>2. all = FlattenSeq(Listed(f))
  BY DEF ExtendLeftJoinRows, LeftJoined, OwnMatches
<1>3. ASSUME NEW p \in Seq(Nat), Len(p) = n
      PROVE  /\ block(p) \in Seq(Seq(Nat))
             /\ \A x : x \in ToSet(block(p)) <=> Extends(p, x)
             /\ \A x \in ToSet(block(p)) :
                  x \in Seq(Nat) /\ Len(x) = n + 1 /\ \A k \in 1..n : x[k] = p[k]
             /\ InOrderOf(Earlier, block(p))
  BY <1>3, OneLeftJoined
<1> HIDE DEF all, block, Extends
<1>4. f \in [1..Len(lefts) -> Seq(Seq(Nat))]
  BY <1>1, <1>3
<1>5. Listed(f) = f /\ f \in Seq(Seq(Seq(Nat))) /\ Len(f) = Len(lefts)
  BY <1>1, <1>4, ListedIsItself
<1>6. DOMAIN f = DOMAIN lefts /\ \A l \in DOMAIN lefts : f[l] = block(lefts[l])
  OBVIOUS
<1> HIDE DEF f
<1>7. IsFlat(Seq(Nat), f, Len(f), all)
  BY <1>2, <1>5, FlattenElements
<1>8. \A x : x \in ToSet(all) <=> \E p \in ToSet(lefts) : Extends(p, x)
  <2>1. \A x : x \in ToSet(all) <=> \E l \in DOMAIN lefts : x \in ToSet(block(lefts[l]))
    BY <1>1, <1>5, <1>6, <1>7 DEF IsFlat
  <2>2. \A x : x \in ToSet(all) <=> \E l \in DOMAIN lefts : Extends(lefts[l], x)
    BY <1>1, <1>3, <2>1
  <2> QED BY <2>2 DEF ToSet
<1>9. BlocksInOrder(Earlier, f)
  <2>1. ASSUME NEW k \in DOMAIN lefts, NEW l \in DOMAIN lefts, k < l,
               NEW x \in ToSet(block(lefts[k])), NEW y \in ToSet(block(lefts[l]))
        PROVE  <<x, y>> \in Earlier
    <3>1. PICK p \in Seq(Nat) : p = lefts[k]
      BY <1>1
    <3>2. PICK q \in Seq(Nat) : q = lefts[l]
      BY <1>1
    <3>3. <<p, q>> \in Earlier /\ Len(p) = n /\ Len(q) = n
      BY <1>1, <2>1, <3>1, <3>2 DEF InOrderOf
    <3>4. x \in ToSet(block(p)) /\ y \in ToSet(block(q))
      BY <3>1, <3>2
    <3>5. /\ x \in Seq(Nat) /\ Len(x) = n + 1 /\ \A h \in 1..n : x[h] = p[h]
          /\ y \in Seq(Nat) /\ Len(y) = n + 1 /\ \A h \in 1..n : y[h] = q[h]
      BY <1>3, <3>3, <3>4
    <3>6. \A h \in 1..n : x[h] = p[h] /\ y[h] = q[h]
      BY <3>5
    <3> QED BY <3>3, <3>5, <3>6, EarlierPrefix
  <2>2. \A l \in DOMAIN lefts : InOrderOf(Earlier, f[l])
    BY <1>1, <1>3, <1>6
  <2> QED BY <1>6, <2>1, <2>2 DEF BlocksInOrder
<1> QED BY <1>7, <1>8, <1>9 DEF IsFlat, all, Extends

----------------------------------------------------------------------------
(* What the joins say.                                                       *)

(* A joined row meets a join: it has a row that meets the condition, or      *)
(* nulls where no row does.                                                  *)
Meets(relations, join, joined, left) ==
  IF Last(joined) # 0 THEN JoinConditionMatches(relations, join, joined)
  ELSE /\ join.joinType = "LEFT"
       /\ \A i \in DOMAIN rows[relations[Len(joined)].table] :
            ~JoinConditionMatches(relations, join, Append(left, i))

(* A row of each of the first n relations, or nulls.                         *)
Fits(relations, n, x) ==
  /\ x \in Seq(Nat) /\ Len(x) = n
  /\ x[1] # 0
  /\ \A k \in 1..n : x[k] <= Size(relations, k)

MeetsJoins(s, relations, n, x) ==
  \A j \in 1..n : Meets(relations, s.joins[j], SubSeq(x, 1, j + 1), SubSeq(x, 1, j))

(* all are the rows that the first n joins give.                             *)
JoinedOK(s, relations, n, all) ==
  /\ all \in Seq(Seq(Nat))
  /\ \A x : x \in ToSet(all) <=> Fits(relations, n + 1, x) /\ MeetsJoins(s, relations, n, x)
  /\ InOrderOf(Earlier, all)

(* A row that extends p has its prefixes.                                    *)
LEMMA SamePrefix ==
  ASSUME NEW n \in Nat, NEW p \in Seq(Nat), Len(p) = n, NEW x \in Seq(Nat), Len(x) = n + 1,
         \A k \in 1..n : x[k] = p[k],
         NEW m \in 0..n
  PROVE  SubSeq(x, 1, m) = SubSeq(p, 1, m)
<1>1. \A k \in 1..m : k \in 1..n /\ x[k] \in Nat /\ p[k] \in Nat
  BY ElementOfSeq
<1>2. 1 \in Int /\ m \in Int /\ m - 1 + 1 = m /\ \A k \in 1..m : 1 + k - 1 = k
  OBVIOUS
<1>3. /\ SubSeq(x, 1, m) \in Seq(Nat)
      /\ Len(SubSeq(x, 1, m)) = IF 1 <= m THEN m - 1 + 1 ELSE 0
      /\ \A k \in 1..(m - 1 + 1) : SubSeq(x, 1, m)[k] = x[1 + k - 1]
  BY <1>1, <1>2, SubSeqProperties
<1>4. /\ SubSeq(p, 1, m) \in Seq(Nat)
      /\ Len(SubSeq(p, 1, m)) = IF 1 <= m THEN m - 1 + 1 ELSE 0
      /\ \A k \in 1..(m - 1 + 1) : SubSeq(p, 1, m)[k] = p[1 + k - 1]
  BY <1>1, <1>2, SubSeqProperties
<1>5. Len(SubSeq(x, 1, m)) = Len(SubSeq(p, 1, m)) /\ Len(SubSeq(x, 1, m)) = m
  BY <1>3, <1>4
<1>6. \A k \in 1..Len(SubSeq(x, 1, m)) : SubSeq(x, 1, m)[k] = SubSeq(p, 1, m)[k]
  BY <1>1, <1>2, <1>3, <1>4, <1>5
<1> QED BY <1>3, <1>4, <1>5, <1>6, SeqEqual

(* What it takes to fit and to meet the joins, of a row that extends p.      *)
LEMMA OnePlaceMore ==
  ASSUME NEW s, NEW relations, NEW n \in Nat,
         NEW p \in Seq(Nat), Len(p) = n + 1, NEW x \in Seq(Nat), Len(x) = n + 2,
         \A k \in 1..(n + 1) : x[k] = p[k]
  PROVE  /\ Fits(relations, n + 2, x) <=>
              Fits(relations, n + 1, p) /\ x[n + 2] <= Size(relations, n + 2)
         /\ MeetsJoins(s, relations, n + 1, x) <=>
              MeetsJoins(s, relations, n, p) /\ Meets(relations, s.joins[n + 1], x, p)
<1> DEFINE N == n + 1
<1>1. N \in Nat /\ N >= 1 /\ N + 1 = n + 2
  OBVIOUS
<1>2. Len(p) = N /\ Len(x) = N + 1 /\ \A k \in 1..N : x[k] = p[k]
  BY <1>1
<1>3. \A k : k \in 1..(N + 1) <=> k \in 1..N \/ k = N + 1
  BY <1>1
<1>4. \A j : j \in 1..N <=> j \in 1..n \/ j = N
  OBVIOUS
<1>5. x[1] = p[1]
  BY <1>1, <1>2
<1>6. \A j \in 1..n : j \in 0..N /\ j + 1 \in 0..N
  <2> TAKE j \in 1..n
  <2>1. j \in Nat /\ j <= n
    OBVIOUS
  <2> QED BY <2>1
<1>7. N \in 0..N
  BY <1>1
<1> HIDE DEF N
<1>8. Fits(relations, N + 1, x) <=> Fits(relations, N, p) /\ x[N + 1] <= Size(relations, N + 1)
  BY <1>1, <1>2, <1>3, <1>5 DEF Fits
<1>9. \A m \in 0..N : SubSeq(x, 1, m) = SubSeq(p, 1, m)
  BY <1>1, <1>2, SamePrefix
<1>10. SubSeq(x, 1, N + 1) = x /\ SubSeq(p, 1, N) = p
  BY <1>2, SubSeqFull
<1>11. \A j \in 1..n : /\ SubSeq(x, 1, j + 1) = SubSeq(p, 1, j + 1)
                       /\ SubSeq(x, 1, j) = SubSeq(p, 1, j)
  BY <1>6, <1>9
<1>12. SubSeq(x, 1, N) = p
  BY <1>7, <1>9, <1>10
<1>13. MeetsJoins(s, relations, N, x) <=>
         MeetsJoins(s, relations, n, p) /\ Meets(relations, s.joins[N], x, p)
  BY <1>4, <1>10, <1>11, <1>12 DEF MeetsJoins
<1> QED BY <1>1, <1>8, <1>13 DEF N

(* What it takes for Append(left, i) to meet a join.                         *)
MeetsWith(relations, join, n, p, i) ==
  Meets(relations, join, Append(p, i), p) <=>
    IF i # 0 THEN JoinConditionMatches(relations, join, Append(p, i))
    ELSE /\ join.joinType = "LEFT"
         /\ \A k \in DOMAIN rows[relations[n + 1].table] :
              ~JoinConditionMatches(relations, join, Append(p, k))

LEMMA MeetsOne ==
  ASSUME NEW relations, NEW join, NEW n \in Nat, NEW p \in Seq(Nat), Len(p) = n, NEW i \in Nat
  PROVE  MeetsWith(relations, join, n, p, i)
<1> DEFINE x == Append(p, i)
<1>1. Len(x) = n + 1 /\ x[n + 1] = i
  BY AppendProperties
<1>2. Last(x) = i
  BY <1>1 DEF Last
<1> HIDE DEF x
<1>3. Meets(relations, join, x, p) <=>
        IF i # 0 THEN JoinConditionMatches(relations, join, x)
        ELSE /\ join.joinType = "LEFT"
             /\ \A k \in DOMAIN rows[relations[n + 1].table] :
                  ~JoinConditionMatches(relations, join, Append(p, k))
  BY <1>1, <1>2 DEF Meets
<1> QED BY <1>3 DEF x, MeetsWith

(* The rows that fit and meet one join more extend those of before.          *)
ExtendOneOf(s, relations, n, lefts, x) ==
  Fits(relations, n + 2, x) /\ MeetsJoins(s, relations, n + 1, x) <=>
    \E p \in ToSet(lefts), i \in 0..Size(relations, n + 2) :
      x = Append(p, i) /\ Meets(relations, s.joins[n + 1], Append(p, i), p)

LEMMA OneJoinMore ==
  ASSUME NEW s, NEW relations, NEW n \in Nat, NEW lefts, JoinedOK(s, relations, n, lefts),
         Size(relations, n + 2) \in Nat, NEW x
  PROVE  ExtendOneOf(s, relations, n, lefts, x)
<1>1. \A p : p \in ToSet(lefts) <=> Fits(relations, n + 1, p) /\ MeetsJoins(s, relations, n, p)
  BY DEF JoinedOK
<1>2. ASSUME Fits(relations, n + 2, x), MeetsJoins(s, relations, n + 1, x)
      PROVE  \E p \in ToSet(lefts), i \in 0..Size(relations, n + 2) :
               x = Append(p, i) /\ Meets(relations, s.joins[n + 1], Append(p, i), p)
  <2> DEFINE p == SubSeq(x, 1, n + 1)
             i == x[n + 2]
             N == n + 1
  <2>1. x \in Seq(Nat) /\ Len(x) = N + 1 /\ N \in Nat /\ N >= 1
    BY <1>2 DEF Fits
  <2>2. DOMAIN x = 1..(N + 1) /\ \A k \in 1..(N + 1) : x[k] \in Nat
    BY <2>1, LenProperties, ElementOfSeq
  <2>3. 1 \in Int /\ N \in Int /\ \A k \in 1..N : x[k] \in Nat /\ 1 + k - 1 = k
    BY <2>1, <2>2
  <2> HIDE DEF N
  <2>4. /\ SubSeq(x, 1, N) \in Seq(Nat)
        /\ Len(SubSeq(x, 1, N)) = IF 1 <= N THEN N - 1 + 1 ELSE 0
        /\ \A k \in 1..(N - 1 + 1) : SubSeq(x, 1, N)[k] = x[1 + k - 1]
    BY <2>3, SubSeqProperties
  <2>5. N - 1 + 1 = N
    BY <2>1
  <2>6. p \in Seq(Nat) /\ Len(p) = n + 1 /\ \A k \in 1..(n + 1) : x[k] = p[k]
    BY <2>1, <2>3, <2>4, <2>5 DEF N
  <2>7. Len(x) = n + 2 /\ n + 2 \in 1..(N + 1) /\ n + 1 + 1 = n + 2
    BY <2>1 DEF N
  <2> HIDE DEF p
  <2>8. p \in ToSet(lefts) /\ i <= Size(relations, n + 2)
        /\ Meets(relations, s.joins[n + 1], x, p)
    BY <1>1, <1>2, <2>1, <2>6, <2>7, OnePlaceMore
  <2>9. x = Append(p, i) /\ i \in Nat
    BY <2>1, <2>2, <2>6, <2>7, PrefixAndLast
  <2>10. i \in 0..Size(relations, n + 2)
    BY <2>8, <2>9
  <2> HIDE DEF i
  <2> QED BY <2>8, <2>9, <2>10
<1>3. ASSUME NEW p \in ToSet(lefts), NEW i \in 0..Size(relations, n + 2),
             x = Append(p, i), Meets(relations, s.joins[n + 1], Append(p, i), p)
      PROVE  Fits(relations, n + 2, x) /\ MeetsJoins(s, relations, n + 1, x)
  <2>1. p \in Seq(Nat) /\ Len(p) = n + 1
    BY <1>1 DEF Fits
  <2>2. i \in Nat /\ i <= Size(relations, n + 2)
    OBVIOUS
  <2>3. /\ x \in Seq(Nat) /\ Len(x) = n + 2 /\ x[n + 2] = i
        /\ \A k \in 1..(n + 1) : x[k] = p[k]
    <3>1. /\ Append(p, i) \in Seq(Nat) /\ Len(Append(p, i)) = Len(p) + 1
          /\ Append(p, i)[Len(p) + 1] = i
          /\ \A k \in 1..Len(p) : Append(p, i)[k] = p[k]
      BY <2>1, <2>2, AppendProperties
    <3>2. Len(p) + 1 = n + 2
      BY <2>1
    <3> QED BY <1>3, <2>1, <3>1, <3>2
  <2>4. Meets(relations, s.joins[n + 1], x, p)
    BY <1>3
  <2> QED BY <1>1, <2>1, <2>2, <2>3, <2>4, OnePlaceMore
<1> QED BY <1>2, <1>3 DEF ExtendOneOf

(* Each join has the rows of the joins so far, and those of one more.        *)
LEMMA JoinRowsOK ==
  ASSUME NEW s, NEW relations, NEW n \in Nat, NEW lefts, JoinedOK(s, relations, n, lefts),
         IsList(rows[relations[n + 2].table])
  PROVE  JoinedOK(s, relations, n + 1, JoinRows(relations, lefts, s.joins[n + 1]))
<1> DEFINE N == n + 1
           join == s.joins[N]
           size == Size(relations, N + 1)
           Condition(x) == JoinConditionMatches(relations, join, x)
           candidates == Extensions(relations, lefts)
           kept == {i \in DOMAIN candidates : Condition(candidates[i])}
           matched == Only(candidates, kept)
           all == JoinRows(relations, lefts, join)
           MeetsIt(p, i) == Meets(relations, join, Append(p, i), p)
<1>1. /\ lefts \in Seq(Seq(Nat)) /\ InOrderOf(Earlier, lefts)
      /\ \A p \in ToSet(lefts) : p \in Seq(Nat) /\ Len(p) = N
  BY DEF JoinedOK, Fits
<1>2. N \in Nat /\ n + 2 = N + 1 /\ IsList(rows[relations[N + 1].table])
  BY DEF N
<1>3. size \in Nat /\ DOMAIN rows[relations[N + 1].table] = 1..size
  BY <1>2, IsListSays DEF Size
<1>4. all = IF join.joinType = "LEFT" THEN ExtendLeftJoinRows(relations, lefts, matched)
            ELSE matched
  BY DEF JoinRows, MatchedRows
<1> HIDE DEF N
<1>5. /\ candidates \in Seq(Seq(Nat))
      /\ \A x : x \in ToSet(candidates) <=>
           \E p \in ToSet(lefts), i \in 1..size : x = Append(p, i)
      /\ InOrderOf(Earlier, candidates)
  BY <1>1, <1>2, ExtensionsOK
<1> HIDE DEF candidates, size, all
<1>6. /\ matched \in Seq(Seq(Nat))
      /\ \A x : x \in ToSet(matched) <=> \E i \in DOMAIN candidates : i \in kept /\ candidates[i] = x
      /\ InOrderOf(Earlier, matched)
  BY <1>5, FilterOK
<1>7. \A x : x \in ToSet(matched) <=> x \in ToSet(candidates) /\ Condition(x)
  BY <1>6 DEF ToSet
<1> HIDE DEF matched, kept, Condition
<1>8. \A x : x \in ToSet(matched) <=>
        \E p \in ToSet(lefts), i \in 1..size : x = Append(p, i) /\ Condition(x)
  BY <1>5, <1>7
<1>9. ASSUME NEW p \in ToSet(lefts), NEW i \in 0..size
      PROVE  MeetsIt(p, i) <=>
               IF i # 0 THEN Condition(Append(p, i))
               ELSE join.joinType = "LEFT" /\ \A k \in 1..size : ~Condition(Append(p, k))
  <2>1. p \in Seq(Nat) /\ Len(p) = N /\ i \in Nat
    BY <1>1, <1>3
  <2> HIDE DEF join
  <2>2. MeetsIt(p, i) <=>
          IF i # 0 THEN Condition(Append(p, i))
          ELSE /\ join.joinType = "LEFT"
               /\ \A k \in DOMAIN rows[relations[N + 1].table] : ~Condition(Append(p, k))
    <3>1. MeetsWith(relations, join, N, p, i)
      BY <1>2, <2>1, MeetsOne
    <3> QED BY <3>1 DEF MeetsWith, Condition
  <2> HIDE DEF MeetsIt
  <2> QED BY <1>3, <2>2
<1> HIDE DEF MeetsIt
<1>10. ASSUME NEW x
       PROVE  Fits(relations, N + 1, x) /\ MeetsJoins(s, relations, N, x) <=>
                \E p \in ToSet(lefts), i \in 0..size : x = Append(p, i) /\ MeetsIt(p, i)
  <2>1. Size(relations, n + 2) \in Nat
    BY <1>2, <1>3 DEF size
  <2>2. Fits(relations, n + 2, x) /\ MeetsJoins(s, relations, n + 1, x) <=>
          \E p \in ToSet(lefts), i \in 0..Size(relations, n + 2) :
            x = Append(p, i) /\ Meets(relations, s.joins[n + 1], Append(p, i), p)
    <3>1. ExtendOneOf(s, relations, n, lefts, x)
      BY <2>1, OneJoinMore
    <3> QED BY <3>1 DEF ExtendOneOf
  <2> QED BY <1>2, <2>2 DEF N, size, MeetsIt
<1>11. \A i : i \in 0..size <=> i = 0 \/ i \in 1..size
  BY <1>3
<1>12. CASE join.joinType # "LEFT"
  <2>1. all = matched
    BY <1>4, <1>12
  <2>2. \A p \in ToSet(lefts), i \in 0..size :
          MeetsIt(p, i) <=> i \in 1..size /\ Condition(Append(p, i))
    BY <1>9, <1>11, <1>12
  <2>3. \A x : x \in ToSet(all) <=>
          \E p \in ToSet(lefts), i \in 0..size : x = Append(p, i) /\ MeetsIt(p, i)
    BY <1>8, <1>11, <2>1, <2>2
  <2>4. \A x : x \in ToSet(all) <=> Fits(relations, N + 1, x) /\ MeetsJoins(s, relations, N, x)
    BY <1>10, <2>3
  <2> QED BY <1>6, <2>1, <2>4 DEF JoinedOK, N, all, join
<1>13. CASE join.joinType = "LEFT"
  <2>1. all = ExtendLeftJoinRows(relations, lefts, matched)
    BY <1>4, <1>13
  <2>2. \A p \in ToSet(lefts), i \in 0..size :
          /\ Append(p, i) \in Seq(Nat) /\ Len(Append(p, i)) = N + 1 /\ Append(p, i)[N + 1] = i
          /\ \A k \in 1..N : Append(p, i)[k] = p[k]
    BY <1>1, AppendProperties
  <2>3. \A x \in ToSet(matched) : Len(x) = N + 1
    BY <1>8, <1>11, <2>2
  <2>4. /\ all \in Seq(Seq(Nat))
        /\ \A x : x \in ToSet(all) <=> \E p \in ToSet(lefts) : ExtendsLeft(matched, p, x)
        /\ InOrderOf(Earlier, all)
    BY <1>1, <1>2, <1>6, <2>1, <2>3, ExtendLeftOK
  <2>5. ASSUME NEW p \in ToSet(lefts), NEW q \in ToSet(lefts), NEW i \in 1..size
        PROVE  IsPrefix(p, Append(q, i)) <=> p = q
    <3> DEFINE x == Append(q, i)
    <3>1. /\ x \in Seq(Nat) /\ Len(x) = N + 1 /\ \A k \in 1..N : x[k] = q[k]
      <4>1. i \in 0..size
        BY <1>11
      <4> QED BY <2>2, <4>1
    <3> HIDE DEF x
    <3>2. IsPrefix(p, x) <=> \A k \in 1..N : x[k] = p[k]
      BY <1>1, <1>2, <3>1, PrefixAndLast
    <3>3. p \in Seq(Nat) /\ q \in Seq(Nat) /\ Len(p) = N /\ Len(q) = N
      BY <1>1
    <3>4. (\A k \in 1..N : q[k] = p[k]) => p = q
      BY <3>3, SeqEqual
    <3>5. IsPrefix(p, x) <=> p = q
      BY <3>1, <3>2, <3>4
    <3> QED BY <3>5 DEF x
  <2>6. ASSUME NEW p \in ToSet(lefts)
        PROVE  (\A y \in ToSet(matched) : ~IsPrefix(p, y)) <=>
                 \A k \in 1..size : ~Condition(Append(p, k))
    <3>1. ASSUME NEW y \in ToSet(matched), IsPrefix(p, y)
          PROVE  \E k \in 1..size : Condition(Append(p, k))
      <4>1. PICK q \in ToSet(lefts), k \in 1..size : y = Append(q, k) /\ Condition(y)
        BY <1>8, <3>1
      <4>2. p = q
        BY <2>5, <3>1, <4>1
      <4> QED BY <4>1, <4>2
    <3>2. ASSUME NEW k \in 1..size, Condition(Append(p, k))
          PROVE  \E y \in ToSet(matched) : IsPrefix(p, y)
      <4>1. Append(p, k) \in ToSet(matched)
        BY <1>8, <3>2
      <4>2. IsPrefix(p, Append(p, k))
        BY <2>5
      <4> QED BY <4>1, <4>2
    <3> QED BY <3>1, <3>2
  <2>7. ASSUME NEW x, NEW p \in ToSet(lefts), ExtendsLeft(matched, p, x)
        PROVE  \E q \in ToSet(lefts), i \in 0..size : x = Append(q, i) /\ MeetsIt(q, i)
    <3>1. CASE x \in ToSet(matched)
      <4>1. PICK q \in ToSet(lefts), i \in 1..size : x = Append(q, i) /\ Condition(x)
        BY <1>8, <3>1
      <4>2. i \in 0..size /\ i # 0
        BY <1>11
      <4>3. MeetsIt(q, i)
        BY <1>9, <4>1, <4>2
      <4> QED BY <4>1, <4>2, <4>3
    <3>2. CASE x = Append(p, 0) /\ \A y \in ToSet(matched) : ~IsPrefix(p, y)
      <4>1. MeetsIt(p, 0) /\ 0 \in 0..size
        BY <1>9, <1>11, <1>13, <2>6, <3>2
      <4> QED BY <3>2, <4>1
    <3> QED BY <2>7, <3>1, <3>2 DEF ExtendsLeft
  <2>8. ASSUME NEW x, NEW p \in ToSet(lefts), NEW i \in 0..size, x = Append(p, i), MeetsIt(p, i)
        PROVE  ExtendsLeft(matched, p, x)
    <3>1. CASE i = 0
      <4>1. \A y \in ToSet(matched) : ~IsPrefix(p, y)
        BY <1>9, <2>6, <2>8, <3>1
      <4> QED BY <2>8, <3>1, <4>1 DEF ExtendsLeft
    <3>2. CASE i # 0
      <4>1. i \in 1..size /\ Condition(x)
        BY <1>9, <1>11, <2>8, <3>2
      <4>2. x \in ToSet(matched) /\ IsPrefix(p, x)
        BY <1>8, <2>5, <2>8, <4>1
      <4> QED BY <4>2 DEF ExtendsLeft
    <3> QED BY <3>1, <3>2
  <2>9. \A x : x \in ToSet(all) <=> Fits(relations, N + 1, x) /\ MeetsJoins(s, relations, N, x)
    <3>1. \A x : x \in ToSet(all) <=>
            \E p \in ToSet(lefts), i \in 0..size : x = Append(p, i) /\ MeetsIt(p, i)
      BY <2>4, <2>7, <2>8
    <3> QED BY <1>10, <3>1
  <2> QED BY <2>4, <2>9 DEF JoinedOK, N, all, join
<1> QED BY <1>12, <1>13

(* Before any join, each row of the first relation.                          *)
LEMMA BaseRowsOK ==
  ASSUME NEW s, NEW relations, IsList(rows[relations[1].table])
  PROVE  JoinedOK(s, relations, 0, BaseRows(relations))
<1> DEFINE m == Size(relations, 1)
           b == Listed([i \in 1..m |-> Append(<<>>, i)])
<1>1. m \in Nat /\ DOMAIN rows[relations[1].table] = 1..m
  BY IsListSays DEF Size
<1>2. <<>> \in Seq(Nat)
  BY EmptySeq
<1>3. /\ b \in Seq(Seq(Nat))
      /\ \A x : x \in ToSet(b) <=> \E i \in 1..m : x = Append(<<>>, i)
      /\ InOrderOf(Earlier, b)
  BY <1>1, <1>2, OneLeftRow
<1>4. [i \in 1..m |-> <<i>>] = [i \in 1..m |-> Append(<<>>, i)]
  <2>1. \A i \in 1..m : <<i>> = Append(<<>>, i)
    OBVIOUS
  <2> QED BY <2>1
<1>5. BaseRows(relations) = b
  BY <1>1, <1>4 DEF BaseRows
<1> HIDE DEF b, m
<1>6. \A i \in Nat : /\ Append(<<>>, i) \in Seq(Nat) /\ Len(Append(<<>>, i)) = 1
                     /\ Append(<<>>, i)[1] = i
  <2> TAKE i \in Nat
  <2>1. /\ Append(<<>>, i) \in Seq(Nat) /\ Len(Append(<<>>, i)) = Len(<<>>) + 1
        /\ Append(<<>>, i)[Len(<<>>) + 1] = i
    BY <1>2, AppendProperties
  <2>2. Len(<<>>) + 1 = 1
    OBVIOUS
  <2> QED BY <2>1, <2>2
<1>7. ASSUME NEW x
      PROVE  x \in ToSet(b) <=> Fits(relations, 1, x)
  <2>1. ASSUME x \in ToSet(b)
        PROVE  Fits(relations, 1, x)
    <3>1. PICK i \in 1..m : x = Append(<<>>, i)
      BY <1>3, <2>1
    <3>2. i \in Nat /\ i # 0 /\ i <= m
      BY <1>1
    <3>3. x \in Seq(Nat) /\ Len(x) = 1 /\ x[1] = i
      BY <1>6, <3>1, <3>2
    <3>4. \A k \in 1..1 : k = 1
      OBVIOUS
    <3> QED BY <3>2, <3>3, <3>4 DEF Fits, m
  <2>2. ASSUME Fits(relations, 1, x)
        PROVE  x \in ToSet(b)
    <3>1. x \in Seq(Nat) /\ Len(x) = 1 /\ x[1] # 0 /\ \A k \in 1..1 : x[k] <= Size(relations, k)
      BY <2>2 DEF Fits
    <3>2. 1 \in 1..1 /\ x[1] \in Nat
      BY <3>1, ElementOfSeq
    <3>3. x[1] \in 1..m
      BY <1>1, <3>1, <3>2 DEF m
    <3> DEFINE y == Append(<<>>, x[1])
    <3>4. y \in Seq(Nat) /\ Len(y) = 1 /\ y[1] = x[1]
      BY <1>6, <3>2
    <3> HIDE DEF y
    <3>5. \A k \in 1..1 : x[k] = y[k]
      BY <3>4
    <3>6. x = y
      BY <3>1, <3>4, <3>5, SeqEqual
    <3> QED BY <1>3, <3>3, <3>6 DEF y
  <2> QED BY <2>1, <2>2
<1>8. \A x : MeetsJoins(s, relations, 0, x)
  BY DEF MeetsJoins
<1>9. JoinedOK(s, relations, 0, b)
  <2>1. 0 + 1 = 1
    OBVIOUS
  <2> QED BY <1>3, <1>7, <1>8, <2>1 DEF JoinedOK
<1> QED BY <1>5, <1>9

(* f[k] is what the first k joins give.                                      *)
JoinsUpTo(s, relations, n, f) ==
  f = [k \in 0..n |-> IF k = 0 THEN BaseRows(relations)
                      ELSE JoinRows(relations, f[k - 1], s.joins[k])]

(* There is such a function: what the definition of JoinedRows computes.     *)
LEMMA JoinsExist ==
  ASSUME NEW s, NEW relations, NEW n \in Nat
  PROVE  \E f : JoinsUpTo(s, relations, n, f)
<1> DEFINE T == {k \in Nat : ~\E f : JoinsUpTo(s, relations, k, f)}
<1>1. SUFFICES ASSUME T # {} PROVE FALSE
  OBVIOUS
<1>2. PICK k \in T : \A j \in T : k <= j
  BY <1>1, LeastNumber
<1>3. CASE k = 0
  <2> DEFINE g == [i \in 0..0 |-> BaseRows(relations)]
  <2>1. g = [i \in 0..0 |-> IF i = 0 THEN BaseRows(relations)
                            ELSE JoinRows(relations, g[i - 1], s.joins[i])]
    OBVIOUS
  <2>2. JoinsUpTo(s, relations, k, g)
    BY <1>3, <2>1 DEF JoinsUpTo
  <2> QED BY <2>2
<1>4. CASE k # 0
  <2>1. k - 1 \in Nat /\ k - 1 \notin T
    BY <1>2, <1>4
  <2>2. PICK f : JoinsUpTo(s, relations, k - 1, f)
    BY <2>1
  <2> DEFINE last == JoinRows(relations, f[k - 1], s.joins[k])
             g == [i \in 0..k |-> IF i = k THEN last ELSE f[i]]
  <2>3. \A i \in 0..(k - 1) :
          f[i] = IF i = 0 THEN BaseRows(relations) ELSE JoinRows(relations, f[i - 1], s.joins[i])
    BY <2>1, <2>2 DEF JoinsUpTo
  <2>4. /\ \A i \in 0..(k - 1) : i \in 0..k /\ g[i] = f[i]
        /\ k \in 0..k /\ g[k] = last
    BY <2>1
  <2>5. g = [i \in 0..k |-> g[i]]
    OBVIOUS
  <2> HIDE DEF g
  <2>6. \A i \in 0..k : i # 0 => i - 1 \in 0..(k - 1)
    BY <2>1
  <2>7. \A i \in 0..k : i = k \/ i \in 0..(k - 1)
    BY <2>1
  <2>8. \A i \in 0..k :
          g[i] = IF i = 0 THEN BaseRows(relations) ELSE JoinRows(relations, g[i - 1], s.joins[i])
    BY <1>4, <2>3, <2>4, <2>6, <2>7
  <2>9. JoinsUpTo(s, relations, k, g)
    BY <2>5, <2>8 DEF JoinsUpTo
  <2> QED BY <2>9
<1> QED BY <1>3, <1>4

(* The relations of a statement: one more than its joins, each a table.      *)
LEMMA RelationsAre ==
  ASSUME NEW s \in Selects, RelationsExist(s)
  PROVE  LET relations == Relations(s)
         IN  /\ Len(s.joins) \in Nat /\ DOMAIN s.joins = 1..Len(s.joins)
             /\ DOMAIN relations = 1..(Len(s.joins) + 1)
             /\ \A k \in DOMAIN relations : relations[k].table \in TableNames
<1> DEFINE Relation(reference) ==
             [table |-> Key(reference.name),
              visible |-> IF reference.alias # Absent THEN reference.alias[1]
                          ELSE Definition[Key(reference.name)].tableName]
           n == Len(s.joins)
           f == [j \in DOMAIN s.joins |-> Relation(s.joins[j].table)]
           All == {Relation(s.from)} \cup ToSet(f)
           relations == Relations(s)
<1>1. n \in Nat /\ DOMAIN s.joins = 1..n
  BY QueryAssumption, IsListSays
<1>2. Key(s.from.name) \in TableNames /\ \A j \in 1..n : Key(s.joins[j].table.name) \in TableNames
  BY <1>1 DEF RelationsExist, ToSet
<1>3. Relation(s.from).table \in TableNames
  BY <1>2
<1>4. \A j \in 1..n : Relation(s.joins[j].table).table \in TableNames
  BY <1>2
<1>5. relations = <<Relation(s.from)>> \o Listed(f)
  BY DEF Relations
<1> HIDE DEF Relation, n, relations
<1>6. f \in [1..n -> All] /\ DOMAIN f = 1..n /\ \A j \in 1..n : f[j].table \in TableNames
  BY <1>1, <1>4 DEF ToSet
<1> HIDE DEF f
<1>7. \A x \in All : x.table \in TableNames
  BY <1>3, <1>6 DEF ToSet
<1> HIDE DEF All
<1>8. Listed(f) = f /\ f \in Seq(All) /\ Len(f) = n
  BY <1>1, <1>6, ListedIsItself
<1>9. <<Relation(s.from)>> \in Seq(All) /\ Len(<<Relation(s.from)>>) = 1
  BY DEF All
<1>10. relations \in Seq(All) /\ Len(relations) = 1 + n
  BY <1>5, <1>8, <1>9, ConcatProperties
<1>11. DOMAIN relations = 1..(n + 1) /\ \A k \in DOMAIN relations : relations[k] \in All
  BY <1>1, <1>10, LenProperties, ElementOfSeq
<1> QED BY <1>1, <1>7, <1>11 DEF n, relations

(* So the joined rows are those that meet all joins.                         *)
LEMMA JoinedRowsOK ==
  ASSUME RowsInv, NEW s \in Selects, RelationsExist(s)
  PROVE  JoinedOK(s, Relations(s), Len(s.joins), JoinedRows(s))
<1> DEFINE relations == Relations(s)
           n == Len(s.joins)
           f == CHOOSE g : JoinsUpTo(s, relations, n, g)
           T == {k \in Nat : k <= n /\ ~JoinedOK(s, relations, k, f[k])}
<1>1. /\ n \in Nat
      /\ DOMAIN relations = 1..(n + 1)
      /\ \A k \in DOMAIN relations : relations[k].table \in TableNames
  BY RelationsAre
<1>2. JoinsUpTo(s, relations, n, f)
  BY <1>1, JoinsExist
<1>3. JoinedRows(s) = f[n]
  BY DEF JoinedRows, JoinsUpTo
<1> HIDE DEF f, relations, n
<1>4. \A k \in 0..n :
        f[k] = IF k = 0 THEN BaseRows(relations) ELSE JoinRows(relations, f[k - 1], s.joins[k])
  BY <1>1, <1>2 DEF JoinsUpTo
<1>5. \A k \in 1..(n + 1) : IsList(rows[relations[k].table])
  BY <1>1 DEF RowsInv
<1>6. ASSUME T # {}
      PROVE  FALSE
  <2>1. PICK k \in T : \A j \in T : k <= j
    BY <1>6, LeastNumber
  <2>2. CASE k = 0
    <3>1. f[0] = BaseRows(relations) /\ 1 \in 1..(n + 1)
      BY <1>1, <1>4
    <3> QED BY <1>5, <2>1, <2>2, <3>1, BaseRowsOK
  <2>3. CASE k # 0
    <3> DEFINE m == k - 1
    <3>1. m \in Nat /\ m + 1 = k /\ m \notin T /\ m <= n /\ m + 2 \in 1..(n + 1)
      BY <1>1, <2>1, <2>3
    <3>2. f[k] = JoinRows(relations, f[m], s.joins[k])
      BY <1>1, <1>4, <2>1, <2>3
    <3> HIDE DEF m
    <3>3. JoinedOK(s, relations, m, f[m]) /\ IsList(rows[relations[m + 2].table])
      BY <1>5, <3>1
    <3>4. JoinedOK(s, relations, m + 1, JoinRows(relations, f[m], s.joins[m + 1]))
      BY <3>1, <3>3, JoinRowsOK
    <3> QED BY <2>1, <3>1, <3>2, <3>4
  <2> QED BY <2>2, <2>3
<1> QED BY <1>1, <1>3, <1>6 DEF relations, n

(* One of n numbers is the greatest, and Max finds it.                       *)
LEMMA GreatestExists ==
  ASSUME NEW n \in Nat, n # 0, NEW f \in [1..n -> Nat]
  PROVE  \E i \in 1..n : \A j \in 1..n : f[j] <= f[i]
<1> DEFINE Greatest(k) == \E i \in 1..k : \A j \in 1..k : f[j] <= f[i]
           T == {k \in Nat : k \in 1..n /\ ~Greatest(k)}
<1>1. ASSUME T # {}
      PROVE  FALSE
  <2>1. PICK k \in T : \A j \in T : k <= j
    BY <1>1, LeastNumber
  <2>2. k \in 1..n /\ k \in 1..k /\ f[k] \in Nat /\ \A j \in 1..k : j \in 1..n /\ f[j] \in Nat
    BY <2>1
  <2>3. CASE k = 1
    <3>1. \A j \in 1..k : j = k
      BY <2>3
    <3>2. \A j \in 1..k : f[j] <= f[k]
      <4> TAKE j \in 1..k
      <4>1. f[j] = f[k]
        BY <3>1
      <4> QED BY <2>2, <4>1
    <3>3. Greatest(k)
      BY <2>2, <3>2
    <3> QED BY <2>1, <3>3
  <2>4. CASE k # 1
    <3>1. k - 1 \in 1..n /\ k - 1 \in Nat /\ ~(k <= k - 1)
      BY <2>1, <2>2, <2>4
    <3> HIDE DEF Greatest
    <3>2. Greatest(k - 1)
      BY <2>1, <3>1
    <3> USE DEF Greatest
    <3>3. PICK i \in 1..(k - 1) : \A j \in 1..(k - 1) : f[j] <= f[i]
      BY <3>2
    <3>4. i \in 1..k /\ f[i] \in Nat /\ \A j \in 1..k : j \in 1..(k - 1) \/ j = k
      BY <2>2
    <3>5. CASE f[k] <= f[i]
      <4>1. Greatest(k)
        BY <3>3, <3>4, <3>5
      <4> QED BY <2>1, <4>1
    <3>6. CASE ~(f[k] <= f[i])
      <4>1. \A j \in 1..k : f[j] <= f[k]
        BY <2>2, <3>3, <3>4, <3>6
      <4>2. Greatest(k)
        BY <2>2, <4>1
      <4> QED BY <2>1, <4>2
    <3> QED BY <3>5, <3>6
  <2> QED BY <2>3, <2>4
<1>2. n \in 1..n
  OBVIOUS
<1> HIDE DEF Greatest
<1>3. Greatest(n)
  BY <1>1, <1>2
<1> QED BY <1>3 DEF Greatest

(* Max of the lengths bounds each.                                           *)
LEMMA MaxBounds ==
  ASSUME NEW n \in Nat, n # 0, NEW f \in [1..n -> Nat]
  PROVE  Max(ToSet(f)) \in Nat /\ \A j \in 1..n : f[j] <= Max(ToSet(f))
<1>1. PICK i \in 1..n : \A j \in 1..n : f[j] <= f[i]
  BY GreatestExists
<1>2. ToSet(f) = {f[j] : j \in 1..n}
  BY DEF ToSet
<1>3. f[i] \in ToSet(f) /\ \A y \in ToSet(f) : f[i] >= y
  BY <1>1, <1>2
<1>4. Max(ToSet(f)) \in ToSet(f) /\ \A y \in ToSet(f) : Max(ToSet(f)) >= y
  BY <1>3 DEF Max
<1> QED BY <1>2, <1>4

(* What fits the tables, as positions in them.                               *)
LEMMA PositionsFit ==
  ASSUME NEW relations, NEW N \in Nat, N # 0, DOMAIN relations = 1..N,
         \A k \in 1..N : Size(relations, k) \in Nat, NEW x
  PROVE  LET lengths == Listed([k \in DOMAIN relations |-> Len(rows[relations[k].table])])
         IN  Fits(relations, N, x) <=>
               /\ x \in [DOMAIN lengths -> 0..Max(ToSet(lengths))]
               /\ x[1] # 0
               /\ \A k \in DOMAIN x : x[k] <= lengths[k]
<1> DEFINE f == [k \in 1..N |-> Size(relations, k)]
           lengths == Listed([k \in DOMAIN relations |-> Len(rows[relations[k].table])])
           M == Max(ToSet(f))
<1>1. [k \in DOMAIN relations |-> Len(rows[relations[k].table])] = f
  BY DEF Size
<1>2. f \in [1..N -> Nat]
  OBVIOUS
<1>3. lengths = f
  BY <1>1, <1>2, ListedIsItself
<1>4. DOMAIN f = 1..N /\ \A k \in 1..N : f[k] = Size(relations, k)
  OBVIOUS
<1> HIDE DEF f, lengths
<1>5. M \in Nat /\ \A k \in 1..N : f[k] <= M
  BY <1>2, MaxBounds
<1> HIDE DEF M
<1>6. ASSUME Fits(relations, N, x)
      PROVE  x \in [1..N -> 0..M] /\ x[1] # 0 /\ \A k \in DOMAIN x : x[k] <= f[k]
  <2>1. x \in Seq(Nat) /\ Len(x) = N /\ x[1] # 0 /\ \A k \in 1..N : x[k] <= Size(relations, k)
    BY <1>6 DEF Fits
  <2>2. x \in [1..N -> Nat]
    BY <2>1, LenProperties
  <2>3. \A k \in 1..N : x[k] \in Nat /\ x[k] <= f[k] /\ f[k] \in Nat /\ f[k] <= M
    BY <1>2, <1>4, <1>5, <2>1, <2>2
  <2>4. ASSUME NEW k \in 1..N
        PROVE  x[k] \in 0..M
    <3>1. x[k] \in Nat /\ x[k] <= f[k] /\ f[k] \in Nat /\ f[k] <= M /\ M \in Nat
      BY <1>5, <2>3
    <3> QED BY <3>1
  <2> QED BY <2>1, <2>2, <2>3, <2>4
<1>7. ASSUME x \in [1..N -> 0..M], x[1] # 0, \A k \in DOMAIN x : x[k] <= f[k]
      PROVE  Fits(relations, N, x)
  <2>1. x \in [1..N -> Nat]
    BY <1>5, <1>7
  <2>2. x \in Seq(Nat) /\ DOMAIN x = 1..N
    BY <2>1, SeqDef
  <2>3. Len(x) \in Nat /\ DOMAIN x = 1..Len(x)
    BY <2>2, LenProperties
  <2>4. Len(x) = N
    BY <2>2, <2>3
  <2> QED BY <1>4, <1>7, <2>2, <2>4 DEF Fits
<1>8. Fits(relations, N, x) <=>
        /\ x \in [DOMAIN lengths -> 0..Max(ToSet(lengths))]
        /\ x[1] # 0
        /\ \A k \in DOMAIN x : x[k] <= lengths[k]
  BY <1>3, <1>4, <1>6, <1>7 DEF M
<1> QED BY <1>8 DEF lengths

(* The nested loops and the null extension give what the joins say, in every *)
(* state, for every statement that is accepted.                              *)
THEOREM JoinsAlwaysComplete == Spec => []JoinsAreComplete
<1>1. ASSUME RowsInv, NEW s \in ValidSelects
      PROVE  LET relations == Relations(s)
                 lengths == Listed([k \in DOMAIN relations |-> Len(rows[relations[k].table])])
             IN  /\ ToSet(JoinedRows(s)) =
                      {x \in {y \in [DOMAIN lengths -> 0..Max(ToSet(lengths))] :
                                y[1] # 0 /\ \A k \in DOMAIN y : y[k] <= lengths[k]} :
                         \A j \in DOMAIN s.joins :
                           Meets(relations, s.joins[j], SubSeq(x, 1, j + 1), SubSeq(x, 1, j))}
                 /\ \A i \in 2..Len(JoinedRows(s)) :
                      Precedes(JoinedRows(s)[i - 1], JoinedRows(s)[i])
  <2> DEFINE relations == Relations(s)
             lengths == Listed([k \in DOMAIN relations |-> Len(rows[relations[k].table])])
             n == Len(s.joins)
             all == JoinedRows(s)
  <2>1. s \in Selects /\ RelationsExist(s)
    BY DEF ValidSelects, StatementValid
  <2>2. /\ n \in Nat /\ DOMAIN s.joins = 1..n
        /\ DOMAIN relations = 1..(n + 1)
        /\ \A k \in DOMAIN relations : relations[k].table \in TableNames
    BY <2>1, RelationsAre
  <2>3. JoinedOK(s, relations, n, all)
    BY <1>1, <2>1, JoinedRowsOK
  <2> HIDE DEF relations, n, all
  <2>4. \A k \in 1..(n + 1) : Size(relations, k) \in Nat
    <3> TAKE k \in 1..(n + 1)
    <3>1. IsList(rows[relations[k].table])
      BY <1>1, <2>2 DEF RowsInv
    <3> QED BY <3>1, IsListSays DEF Size
  <2>5. n + 1 \in Nat /\ n + 1 # 0
    BY <2>2
  <2>6. \A x : Fits(relations, n + 1, x) <=>
          /\ x \in [DOMAIN lengths -> 0..Max(ToSet(lengths))]
          /\ x[1] # 0
          /\ \A k \in DOMAIN x : x[k] <= lengths[k]
    BY <2>2, <2>4, <2>5, PositionsFit
  <2> HIDE DEF lengths
  <2>7. \A x : MeetsJoins(s, relations, n, x) <=>
          \A j \in DOMAIN s.joins :
            Meets(relations, s.joins[j], SubSeq(x, 1, j + 1), SubSeq(x, 1, j))
    BY <2>2 DEF MeetsJoins
  <2>8. \A x : x \in ToSet(all) <=> Fits(relations, n + 1, x) /\ MeetsJoins(s, relations, n, x)
    BY <2>3 DEF JoinedOK
  <2>9. ToSet(all) =
          {x \in {y \in [DOMAIN lengths -> 0..Max(ToSet(lengths))] :
                    y[1] # 0 /\ \A k \in DOMAIN y : y[k] <= lengths[k]} :
             \A j \in DOMAIN s.joins :
               Meets(relations, s.joins[j], SubSeq(x, 1, j + 1), SubSeq(x, 1, j))}
    BY <2>6, <2>7, <2>8
  <2>10. ASSUME NEW i \in 2..Len(all)
         PROVE  Precedes(all[i - 1], all[i])
    <3>1. all \in Seq(Seq(Nat)) /\ InOrderOf(Earlier, all)
      BY <2>3 DEF JoinedOK
    <3>2. Len(all) \in Nat /\ DOMAIN all = 1..Len(all)
      BY <3>1, LenProperties
    <3>3. i \in DOMAIN all /\ i - 1 \in DOMAIN all /\ i - 1 < i
      BY <3>2
    <3>4. <<all[i - 1], all[i]>> \in Earlier
      BY <3>1, <3>3 DEF InOrderOf
    <3> QED BY <3>4 DEF Earlier
  <2> QED BY <2>9, <2>10 DEF relations, lengths, all
<1>2. RowsInv => JoinsAreComplete
  BY <1>1 DEF JoinsAreComplete, Meets
<1> QED BY <1>2, AlwaysRowsInv, PTL

----------------------------------------------------------------------------
(* UPDATE and DELETE touch what SELECT shows.                                *)

(* Every index kept: the list itself.                                        *)
LEMMA OnlyAll ==
  ASSUME NEW S, NEW s \in Seq(S)
  PROVE  Only(s, DOMAIN s) = s
<1> DEFINE K == DOMAIN s \ (DOMAIN s \ DOMAIN s)
           g == [i \in 1..Len(s) |-> i]
<1>1. Len(s) \in Nat /\ DOMAIN s = 1..Len(s)
  BY LenProperties
<1>2. (1..Len(s)) \ (DOMAIN s \ DOMAIN s) = 1..Len(s)
  BY <1>1
<1>3. /\ g \in [1..Len(s) -> (1..Len(s)) \ (DOMAIN s \ DOMAIN s)]
      /\ \A j, k \in 1..Len(s) : j < k => g[j] < g[k]
      /\ \A i \in (1..Len(s)) \ (DOMAIN s \ DOMAIN s) : \E k \in 1..Len(s) : g[k] = i
      /\ \A k \in 1..Len(s) : s[k] = s[g[k]]
  BY <1>1, <1>2
<1>4. IsSelection(s, DOMAIN s \ DOMAIN s, Len(s), s)
  BY <1>3 DEF IsSelection
<1> QED BY <1>4, SelectionIsOnly

(* SELECT * FROM one table has the table for its one relation, and a row of  *)
(* it for each joined row.                                                   *)
OneTable(s, relations, table) ==
  /\ table \in TableNames
  /\ Len(relations) = 1 /\ DOMAIN relations = {1}
  /\ relations[1].table = table /\ Key(relations[1].visible) = table
  /\ relations = Relations(s)
  /\ JoinedRows(s) = [i \in 1..Len(rows[table]) |-> <<i>>]

LEMMA ShownOneTable ==
  ASSUME RowsInv, NEW m, RelationsExist(Shown(m))
  PROVE  OneTable(Shown(m), Relations(Shown(m)), Key(m.tableName))
<1> DEFINE s == Shown(m)
           table == Key(m.tableName)
           R == [table |-> table, visible |-> Definition[table].tableName]
           relations == Relations(s)
           n == Len(rows[table])
<1>1. /\ s.from = [name |-> m.tableName, alias |-> Absent]
      /\ s.joins = <<>> /\ DOMAIN s.joins = {} /\ Len(s.joins) = 0
  BY DEF Shown
<1>2. table \in TableNames
  BY <1>1 DEF RelationsExist
<1>3. s.from.name = m.tableName /\ s.from.alias = Absent
  BY <1>1
<1>4. relations = <<R>>
  <2> DEFINE Relation(reference) ==
               [table |-> Key(reference.name),
                visible |-> IF reference.alias # Absent THEN reference.alias[1]
                            ELSE Definition[Key(reference.name)].tableName]
             f == [j \in DOMAIN s.joins |-> Relation(s.joins[j].table)]
  <2>1. Relation(s.from) = R
    BY <1>3
  <2>2. relations = <<Relation(s.from)>> \o Listed(f)
    BY DEF Relations
  <2>3. f = <<>>
    <3>1. DOMAIN f = {}
      BY <1>1
    <3>2. f \in [1..0 -> {}]
      BY <3>1
    <3>3. f \in Seq({})
      BY <3>2, SeqDef
    <3> HIDE DEF f
    <3> QED BY <3>1, <3>3, NoPosition
  <2> HIDE DEF f, Relation, R, relations
  <2>4. <<>> \in Seq({R}) /\ <<R>> \in Seq({R})
    BY EmptySeq
  <2>5. <<>> \o <<>> = <<>> /\ <<R>> \o <<>> = <<R>>
    BY <2>4, ConcatEmptySeq
  <2> QED BY <2>1, <2>2, <2>3, <2>5 DEF Listed
<1>5. \E t \in Tables : Key(t.tableName) = table
  BY <1>2 DEF TableNames
<1>6. Key(Definition[table].tableName) = table
  BY <1>2, <1>5 DEF Definition
<1>7. Len(relations) = 1 /\ DOMAIN relations = {1} /\ relations[1] = R
  BY <1>4
<1>8. R.table = table /\ Key(R.visible) = table
  BY <1>6
<1> HIDE DEF relations, R, s
<1>9. JoinedRows(s) = BaseRows(relations)
  <2> DEFINE f == CHOOSE g : JoinsUpTo(s, relations, 0, g)
  <2>1. JoinsUpTo(s, relations, 0, f)
    BY JoinsExist
  <2>2. JoinedRows(s) = f[0]
    BY <1>1 DEF JoinedRows, JoinsUpTo, relations
  <2> QED BY <2>1, <2>2 DEF JoinsUpTo
<1>10. n \in Nat /\ DOMAIN rows[table] = 1..n
  BY <1>2, IsListSays DEF RowsInv
<1>11. BaseRows(relations) = [i \in 1..n |-> <<i>>]
  <2> DEFINE f == [i \in 1..n |-> <<i>>]
  <2>1. BaseRows(relations) = Listed(f)
    BY <1>7, <1>8, <1>10 DEF BaseRows
  <2> HIDE DEF n
  <2>2. f \in [1..n -> Seq(Nat)]
    OBVIOUS
  <2> HIDE DEF f
  <2>3. Listed(f) = f
    BY <1>10, <2>2, ListedIsItself
  <2> QED BY <2>1, <2>3 DEF f, n
<1> QED BY <1>2, <1>7, <1>8, <1>9, <1>11 DEF OneTable, relations, s

(* A column found by the scope of one table is that of the table.            *)
LEMMA OneTableResolves ==
  ASSUME NEW s, NEW relations, NEW table, OneTable(s, relations, table),
         NEW c, Resolves(relations, c)
  PROVE  /\ Resolve(relations, c) = <<1, Key(c.name)>>
         /\ Key(c.name) \in ColumnKeys[table]
         /\ Key(c.qualifier) \in {Unqualified, table}
<1> DEFINE K == {r \in DOMAIN relations :
                   /\ Key(c.name) \in ColumnKeys[relations[r].table]
                   /\ Key(c.qualifier) \in {Unqualified, Key(relations[r].visible)}}
           column == <<1, Key(c.name)>>
<1>1. Matches(relations, c) = {<<k, Key(c.name)>> : k \in K}
  BY DEF Matches
<1>2. K \subseteq {1}
  BY DEF OneTable
<1>3. Cardinality(Matches(relations, c)) # 0
  BY DEF Resolves
<1>4. Matches(relations, c) # {}
  BY <1>3, FS_EmptySet
<1>5. 1 \in K
  BY <1>1, <1>2, <1>4
<1>6. Matches(relations, c) = {column}
  BY <1>1, <1>2, <1>5
<1>7. Resolve(relations, c) = column
  BY <1>6 DEF Resolve
<1> QED BY <1>5, <1>7 DEF OneTable

(* So both evaluate an expression with the same values.                      *)
LEMMA SameContext ==
  ASSUME NEW s, NEW relations, NEW table, OneTable(s, relations, table),
         NEW e, ScalarValid(relations, e), NEW i \in Nat, i # 0
  PROVE  /\ Context(relations, <<i>>, e) = TableContext(table, rows[table][i], e)
         /\ ColumnsKnown(table, e)
<1>1. \A c \in ColumnsIn(e) : /\ Resolve(relations, c) = <<1, Key(c.name)>>
                              /\ Key(c.name) \in ColumnKeys[table]
                              /\ Key(c.qualifier) \in {Unqualified, table}
  BY OneTableResolves DEF ScalarValid
<1>2. ASSUME NEW c \in ColumnsIn(e)
      PROVE  Value(relations, <<i>>, Resolve(relations, c)) = rows[table][i][Key(c.name)]
  <2> DEFINE j == <<i>>
             column == <<1, Key(c.name)>>
  <2>1. Resolve(relations, c) = column
    BY <1>1
  <2>2. Len(j) = 1 /\ j[1] = i /\ column[1] = 1 /\ column[2] = Key(c.name)
    OBVIOUS
  <2>3. relations[1].table = table
    BY DEF OneTable
  <2> HIDE DEF j, column
  <2>4. ~(1 > Len(j) \/ j[1] = 0)
    BY <2>2
  <2>5. Value(relations, j, column) = rows[table][i][Key(c.name)]
    BY <2>2, <2>3, <2>4 DEF Value
  <2> QED BY <2>1, <2>5 DEF j
<1>3. Context(relations, <<i>>, e) = [c \in ColumnsIn(e) |-> rows[table][i][Key(c.name)]]
  BY <1>2 DEF Context
<1>4. {x \in ColumnsIn(e) : Key(x.qualifier) \in {Unqualified, table}} = ColumnsIn(e)
  BY <1>1
<1>5. TableContext(table, rows[table][i], e) =
        [c \in ColumnsIn(e) |-> rows[table][i][Key(c.name)]]
  BY <1>4 DEF TableContext
<1>6. ColumnsKnown(table, e)
  BY <1>1 DEF ScalarValid, ColumnsKnown
<1> QED BY <1>3, <1>5, <1>6

(* The values of a record are those of its row, and none is an error.        *)
LEMMA ShownValues ==
  ASSUME RowsInv, NEW m, OneTable(Shown(m), Relations(Shown(m)), Key(m.tableName)),
         NEW i \in DOMAIN rows[Key(m.tableName)]
  PROVE  LET record == Projected(Shown(m), <<<<i>>>>)
         IN  record.source[1][1] = i /\ Error \notin ToSet(record.values)
<1> DEFINE s == Shown(m)
           table == Key(m.tableName)
           relations == Relations(s)
           row == rows[table][i]
           schema == Schema[table]
           V == {row[key] : key \in ColumnKeys[table]}
           ValuesOf(k) ==
             LET columns == Schema[relations[k].table]
             IN  Listed([j \in DOMAIN columns |-> Value(relations, <<i>>, <<k, Key(columns[j].name)>>)])
           Items == [c \in DOMAIN s.columns |-> ItemValues(s, s.columns[c], <<<<i>>>>)]
           values == Projected(s, <<<<i>>>>).values
<1>1. /\ table \in TableNames /\ DOMAIN relations = {1} /\ relations[1].table = table
      /\ i \in DOMAIN rows[table]
  BY DEF OneTable
<1>2. IsList(rows[table]) /\ row \in ToSet(rows[table])
  BY <1>1 DEF RowsInv, ToSet
<1>3. ValidRow(table, row)
  BY <1>1, <1>2 DEF RowsInv
<1>4. i \in Nat /\ i # 0
  <2>1. Len(rows[table]) \in Nat /\ DOMAIN rows[table] = 1..Len(rows[table])
    BY <1>2, IsListSays
  <2> QED BY <1>1, <2>1
<1>5. ASSUME NEW key \in ColumnKeys[table]
      PROVE  row[key] # Error
  <2> DEFINE column == ColumnOf[table][key]
  <2>1. ValidValue(column, row[key])
    BY <1>3 DEF ValidRow
  <2>2. column \in ToSet(Schema[table])
    BY <1>1, TableFacts
  <2>3. column.dataType \in {"INTEGER", "DECIMAL", "TEXT", "BOOLEAN"}
    BY <1>1, <2>2, TableFacts
  <2> HIDE DEF column
  <2>4. TypeOf[column.dataType] \in {"number", "string", "boolean"}
    BY <2>3 DEF TypeOf
  <2>5. Error # Null /\ Error[1] = "error"
    BY DEF Error, Null
  <2> HIDE DEF row
  <2>6. row[key] = Null \/ row[key][1] \in {"number", "string", "boolean"}
    BY <2>1, <2>4 DEF ValidValue
  <2> QED BY <2>5, <2>6
<1>6. Error \notin V
  BY <1>5
<1> HIDE DEF row
<1>7. ASSUME NEW c \in ToSet(schema)
      PROVE  Value(relations, <<i>>, <<1, Key(c.name)>>) \in V
  <2> DEFINE joined == <<i>>
             column == <<1, Key(c.name)>>
  <2>1. Len(joined) = 1 /\ joined[1] = i /\ column[1] = 1 /\ column[2] = Key(c.name)
    OBVIOUS
  <2> HIDE DEF joined, column
  <2>2. Value(relations, joined, column) = row[Key(c.name)]
    BY <1>1, <1>4, <2>1 DEF Value, row
  <2>3. Key(c.name) \in ColumnKeys[table]
    BY <1>1, TableFacts
  <2> QED BY <2>2, <2>3 DEF joined, column
<1> HIDE DEF V
<1>8. ValuesOf(1) \in Seq(V)
  <2> DEFINE f == [j \in DOMAIN schema |-> Value(relations, <<i>>, <<1, Key(schema[j].name)>>)]
  <2>1. ValuesOf(1) = Listed(f)
    BY <1>1
  <2>2. Len(schema) \in Nat /\ DOMAIN schema = 1..Len(schema)
    BY <1>1, TableFacts, IsListSays
  <2>3. \A j \in DOMAIN schema : schema[j] \in ToSet(schema)
    BY DEF ToSet
  <2>4. \A j \in DOMAIN schema : Value(relations, <<i>>, <<1, Key(schema[j].name)>>) \in V
    BY <1>7, <2>3
  <2>5. f \in [1..Len(schema) -> V]
    BY <2>2, <2>4
  <2> HIDE DEF f, ValuesOf, schema
  <2>6. Listed(f) \in Seq(V)
    BY <2>2, <2>5, ListedIsItself
  <2> QED BY <2>1, <2>6
<1> HIDE DEF ValuesOf
<1>9. WildcardValues(relations, <<i>>) \in Seq(V)
  <2> DEFINE f == [k \in DOMAIN relations |-> ValuesOf(k)]
  <2>1. WildcardValues(relations, <<i>>) = FlattenSeq(Listed(f))
    BY DEF WildcardValues, ValuesOf
  <2>2. f \in [1..1 -> Seq(V)]
    BY <1>1, <1>8
  <2> HIDE DEF f
  <2>3. Listed(f) \in Seq(Seq(V))
    BY <2>2, ListedIsItself
  <2>4. FlattenSeq(Listed(f)) \in Seq(V)
    BY <2>3, FlattenElements DEF IsFlat
  <2> QED BY <2>1, <2>4
<1>10. values \in Seq(V)
  <2>1. s.columns = <<Wildcard>>
    BY DEF Shown
  <2>2. DOMAIN s.columns = 1..1 /\ s.columns[1] = Wildcard
    BY <2>1
  <2>3. ItemValues(s, Wildcard, <<<<i>>>>) = WildcardValues(relations, <<i>>)
    BY DEF ItemValues
  <2>4. values = FlattenSeq(Listed(Items))
    BY DEF Projected
  <2>5. Items \in [1..1 -> Seq(V)]
    BY <1>9, <2>2, <2>3
  <2> HIDE DEF Items, values
  <2>6. Listed(Items) \in Seq(Seq(V))
    BY <2>5, ListedIsItself
  <2>7. FlattenSeq(Listed(Items)) \in Seq(V)
    BY <2>6, FlattenElements DEF IsFlat
  <2> QED BY <2>4, <2>7
<1>11. Error \notin ToSet(values)
  <2> HIDE DEF values
  <2>1. \A k \in DOMAIN values : values[k] \in V
    BY <1>10, LenProperties, ElementOfSeq
  <2> QED BY <1>6, <2>1 DEF ToSet, V
<1>12. Projected(s, <<<<i>>>>).source[1][1] = i
  BY DEF Projected
<1> QED BY <1>11, <1>12

(* An UPDATE or DELETE touches what SELECT with its WHERE shows.             *)
LEMMA ShownIsTouched ==
  ASSUME RowsInv, NEW m \in ShownMutations
  PROVE  LET s == Shown(m)
             old == rows[Key(m.tableName)]
             records == Result(s)
         IN  /\ RowsAccepted(s) <=> WhereAccepted(m)
             /\ Only(Listed([i \in DOMAIN old |-> i]), {i \in DOMAIN old : Touches(m, old[i])})
                  = Listed([i \in DOMAIN records |-> records[i].source[1][1]])
<1> DEFINE s == Shown(m)
           relations == Relations(s)
           table == Key(m.tableName)
           old == rows[table]
           n == Len(old)
           ids == [i \in 1..n |-> i]
           joineds == [i \in 1..n |-> <<i>>]
           kept == {i \in DOMAIN old : Touches(m, old[i])}
           filtered == Only(joineds, kept)
           touched == Only(ids, kept)
           L == Len(filtered)
           sources == [k \in 1..L |-> <<filtered[k]>>]
           records == [k \in 1..L |-> Projected(s, <<filtered[k]>>)]
           places == [k \in 1..L |-> records[k].source[1][1]]
<1>1. /\ m \in Mutations /\ m.type \in {"update", "delete"}
      /\ StatementValid(s)
  BY DEF ShownMutations, Updates, Deletes
<1>2. m.where = Absent \/ m.where = <<m.where[1]>>
  BY <1>1, QueryAssumption
<1>3. OneTable(s, relations, table)
  BY <1>1, ShownOneTable DEF StatementValid
<1>4. table \in TableNames /\ JoinedRows(s) = joineds
  BY <1>3 DEF OneTable
<1>5. s.where = m.where /\ s.columns = <<Wildcard>>
      /\ s.groupBy = Absent /\ s.orderBy = Absent /\ s.limit = Absent
  BY DEF Shown
<1>6. n \in Nat /\ DOMAIN old = 1..n
  BY <1>4, IsListSays DEF RowsInv
<1> HIDE DEF n
<1>7. /\ ids \in [1..n -> Nat] /\ joineds \in [1..n -> Seq(Nat)]
      /\ \A i \in 1..n : ids[i] = i /\ joineds[i] = <<i>>
  BY <1>6
<1>8. [i \in DOMAIN old |-> i] = ids
  BY <1>6
<1>9. DOMAIN ids = 1..n /\ DOMAIN joineds = 1..n
  BY <1>7
<1> HIDE DEF s, ids, joineds
<1>10. /\ Listed(ids) = ids /\ ids \in Seq(Nat) /\ Len(ids) = n
       /\ joineds \in Seq(Seq(Nat)) /\ Len(joineds) = n
  BY <1>6, <1>7, ListedIsItself
<1>11. ASSUME s.where # Absent
       PROVE  /\ \A e \in ToSet(s.where) : ColumnsKnown(table, e)
              /\ \A i \in 1..n : WhereTruth(s, relations, <<i>>) = RowTruth(m, old[i])
  <2> DEFINE e == m.where[1]
  <2>1. m.where = <<e>> /\ m.where # Absent
    BY <1>2, <1>5, <1>11
  <2> HIDE DEF e
  <2>2. ToSet(s.where) = {e} /\ s.where[1] = e /\ m.where[1] = e
    BY <1>5, <2>1 DEF ToSet
  <2>3. ScalarValid(relations, e)
    BY <1>1, <2>2 DEF StatementValid, ColumnsValid
  <2> HIDE DEF relations, table
  <2>4. ASSUME NEW i \in Nat, i # 0
        PROVE  /\ Context(relations, <<i>>, e) = TableContext(table, rows[table][i], e)
               /\ ColumnsKnown(table, e)
    BY <1>3, <2>3, <2>4, SameContext
  <2>5. ASSUME NEW i \in 1..n
        PROVE  WhereTruth(s, relations, <<i>>) = RowTruth(m, old[i])
    <3>1. i \in Nat /\ i # 0
      BY <1>6
    <3> QED BY <2>1, <2>2, <2>4, <3>1 DEF WhereTruth, RowTruth, table
  <2>6. ColumnsKnown(table, e)
    <3>1. 1 \in Nat /\ 1 # 0
      OBVIOUS
    <3> QED BY <2>4, <3>1
  <2> QED BY <2>2, <2>5, <2>6
<1>12. ASSUME s.where = Absent
       PROVE  \A i \in 1..n : RowTruth(m, old[i]) = "TRUE"
  BY <1>5, <1>12 DEF RowTruth
<1>13. FilteredRows(s) = filtered
  <2>1. CASE s.where = Absent
    <3>1. kept = DOMAIN joineds
      BY <1>6, <1>9, <1>12, <2>1 DEF Touches, PassesPredicate
    <3>2. filtered = joineds
      BY <1>10, <3>1, OnlyAll
    <3> QED BY <1>4, <2>1, <3>2 DEF FilteredRows, PassingRows
  <2>2. CASE s.where # Absent
    <3>1. {i \in DOMAIN joineds : PassesPredicate(WhereTruth(s, relations, joineds[i]))} = kept
      <4>1. \A i \in 1..n : WhereTruth(s, relations, joineds[i]) = RowTruth(m, old[i])
        BY <1>7, <1>11, <2>2
      <4> QED BY <1>6, <1>9, <4>1 DEF Touches
    <3> QED BY <1>4, <2>2, <3>1 DEF FilteredRows, PassingRows
  <2> QED BY <2>1, <2>2
<1> HIDE DEF kept
<1>14. /\ filtered \in Seq(Seq(Nat)) /\ touched \in Seq(Nat)
       /\ Len(touched) = L
       /\ \A k \in 1..L : \E i \in DOMAIN joineds \cap kept :
            filtered[k] = joineds[i] /\ touched[k] = ids[i]
  <2>1. filtered \in Seq(Seq(Nat)) /\ touched \in Seq(Nat)
    BY <1>10, OnlyElements
  <2>2. Len(joineds) = Len(ids)
    BY <1>10
  <2>3. /\ Len(filtered) = Len(touched)
        /\ \A k \in 1..Len(filtered) : \E i \in DOMAIN joineds \cap kept :
             filtered[k] = joineds[i] /\ touched[k] = ids[i]
    <3>1. SamePlaces(joineds, ids, kept)
      BY <1>10, <2>2, SameIndices
    <3> QED BY <3>1 DEF SamePlaces
  <2> QED BY <2>1, <2>3
<1> HIDE DEF filtered, touched
<1>15. L \in Nat /\ DOMAIN filtered = 1..L
  BY <1>14, LenProperties
<1> HIDE DEF L
<1>16. ~IsGrouped(s)
  <2>1. ToSet(s.columns) = {Wildcard}
    <3>1. DOMAIN s.columns = {1} /\ s.columns[1] = Wildcard
      BY <1>5
    <3> QED BY <3>1 DEF ToSet
  <2>2. {x \in ToSet(s.columns) : x # Wildcard} = {}
    BY <2>1
  <2> QED BY <1>5, <2>2 DEF IsGrouped, HasAggregates, SelectedExpressions
<1>17. Sources(s, filtered) = sources
  <2>1. sources \in [1..L -> {<<filtered[k]>> : k \in 1..L}]
    OBVIOUS
  <2>2. Sources(s, filtered) = Listed(sources)
    BY <1>15, <1>16 DEF Sources
  <2> HIDE DEF sources
  <2> QED BY <1>15, <2>1, <2>2, ListedIsItself
<1>18. Records(s) = records
  <2>1. DOMAIN sources = 1..L /\ \A k \in 1..L : sources[k] = <<filtered[k]>>
    OBVIOUS
  <2>2. records \in [1..L -> {Projected(s, <<filtered[k]>>) : k \in 1..L}]
    OBVIOUS
  <2> HIDE DEF sources
  <2>3. [k \in DOMAIN sources |-> Projected(s, sources[k])] = records
    BY <2>1
  <2> HIDE DEF records
  <2>4. Project(s, sources) = Listed(records)
    BY <2>3 DEF Project
  <2>5. Listed(records) = records
    BY <1>15, <2>2, ListedIsItself
  <2> QED BY <1>13, <1>17, <2>4, <2>5 DEF Records
<1>19. DOMAIN records = 1..L /\ \A k \in 1..L : records[k] = Projected(s, <<filtered[k]>>)
  OBVIOUS
<1> HIDE DEF records
<1>20. Result(s) = records
  BY <1>5, <1>18 DEF Result, Limited, InOrder
<1>21. ASSUME NEW k \in 1..L
       PROVE  records[k].source[1][1] = touched[k] /\ Error \notin ToSet(records[k].values)
  <2>1. PICK i \in 1..n : filtered[k] = <<i>> /\ touched[k] = i
    BY <1>7, <1>9, <1>14
  <2>2. i \in DOMAIN rows[table]
    BY <1>6
  <2>3. /\ Projected(s, <<<<i>>>>).source[1][1] = i
        /\ Error \notin ToSet(Projected(s, <<<<i>>>>).values)
    BY <1>3, <2>2, ShownValues DEF s
  <2> QED BY <1>19, <2>1, <2>3
<1>22. touched = Listed([i \in DOMAIN records |-> records[i].source[1][1]])
  <2>1. \A k \in 1..L : places[k] = touched[k]
    BY <1>21
  <2>2. DOMAIN touched = 1..L /\ \A k \in 1..L : touched[k] \in Nat
    BY <1>14, LenProperties, ElementOfSeq
  <2>3. places \in [1..L -> Nat]
    BY <2>1, <2>2
  <2>4. [i \in DOMAIN records |-> records[i].source[1][1]] = places
    BY <1>19
  <2> HIDE DEF places
  <2>5. Listed(places) = places /\ places \in Seq(Nat) /\ Len(places) = L
    BY <1>15, <2>3, ListedIsItself
  <2>6. touched = places
    BY <1>14, <2>1, <2>5, SeqEqual
  <2> QED BY <2>4, <2>5, <2>6
<1>23. RecordsAccepted(s, records)
  <2>1. \A record \in ToSet(records) : Error \notin ToSet(record.values)
    BY <1>19, <1>21 DEF ToSet
  <2> QED BY <1>5, <2>1 DEF RecordsAccepted
<1>24. RowsAccepted(s) <=>
         (s.where # Absent => \A i \in 1..n : RowTruth(m, old[i]) # "ERROR")
  <2>1. \A joined : joined \in ToSet(joineds) <=> \E i \in 1..n : joined = <<i>>
    <3>1. ToSet(joineds) = {joineds[i] : i \in 1..n}
      BY <1>9 DEF ToSet
    <3>2. {joineds[i] : i \in 1..n} = {<<i>> : i \in 1..n}
      BY DEF joineds
    <3> QED BY <3>1, <3>2
  <2> QED BY <1>4, <1>11, <1>18, <1>23, <2>1 DEF RowsAccepted
<1>25. WhereAccepted(m) <=>
         (s.where # Absent => \A i \in 1..n : RowTruth(m, old[i]) # "ERROR")
  <2>1. \A row : row \in ToSet(old) <=> \E i \in 1..n : row = old[i]
    BY <1>6 DEF ToSet
  <2>2. CASE s.where = Absent
    <3>1. ToSet(m.where) = {}
      BY <1>5, <2>2 DEF ToSet, Absent
    <3> QED BY <1>4, <1>12, <2>1, <2>2, <3>1 DEF WhereAccepted
  <2>3. CASE s.where # Absent
    BY <1>4, <1>5, <1>11, <2>1, <2>3 DEF WhereAccepted
  <2> QED BY <2>2, <2>3
<1>26. Only(Listed([i \in DOMAIN old |-> i]), kept) = touched
  BY <1>8, <1>10 DEF touched
<1> QED BY <1>20, <1>22, <1>24, <1>25, <1>26 DEF s, kept

(* What SELECT shows for a WHERE is what UPDATE and DELETE touch for it, in  *)
(* every state and for every condition, although the two are evaluated in    *)
(* scopes of their own.                                                      *)
THEOREM MutationsAlwaysTouchWhatSelectShows == Spec => []MutationsTouchWhatSelectShows
<1>1. RowsInv => MutationsTouchWhatSelectShows
  <2> SUFFICES ASSUME RowsInv, NEW m \in ShownMutations
               PROVE  LET old == rows[Key(m.tableName)]
                          records == Result(Shown(m))
                      IN  /\ RowsAccepted(Shown(m)) = WhereAccepted(m)
                          /\ WhereAccepted(m) =>
                               Only(Listed([i \in DOMAIN old |-> i]),
                                    {i \in DOMAIN old : Touches(m, old[i])})
                                 = Listed([i \in DOMAIN records |-> records[i].source[1][1]])
    BY DEF MutationsTouchWhatSelectShows
  <2>1. RowsAccepted(Shown(m)) = WhereAccepted(m)
    <3>1. RowsAccepted(Shown(m)) <=> WhereAccepted(m)
      BY ShownIsTouched
    <3> QED BY <3>1 DEF RowsAccepted, WhereAccepted
  <2> QED BY <2>1, ShownIsTouched
<1> QED BY <1>1, AlwaysRowsInv, PTL

----------------------------------------------------------------------------
(* Groups.                                                                   *)

(* The places of the rows with another key.                                  *)
Others(s, F, key) == DOMAIN F \ {i \in DOMAIN F : GroupKey(s, F[i]) = key}

KeyOf(s, group) == GroupKey(s, group[1])

(* G are the groups of the first n rows of F: each is there, with all of its *)
(* rows, and in the order of their first rows.                               *)
Classes(s, F, n, G) ==
  \A g \in DOMAIN G : /\ G[g] # <<>>
                      /\ IsSelection(F, Others(s, F, KeyOf(s, G[g])), n, G[g])

EachHasGroup(s, F, n, G) ==
  \A i \in 1..n : \E g \in DOMAIN G : GroupKey(s, F[i]) = KeyOf(s, G[g])

FirstRows(F, n, G) == \A g \in DOMAIN G : \E i \in 1..n : G[g][1] = F[i]

FirstsInOrder(F, n, G) ==
  \A g, h \in DOMAIN G : g < h =>
    \E i, j \in 1..n : i < j /\ G[g][1] = F[i] /\ G[h][1] = F[j]

KeysDiffer(s, G) ==
  \A g, h \in DOMAIN G : KeyOf(s, G[g]) = KeyOf(s, G[h]) => g = h

GroupsOK(s, W, F, n, G) ==
  /\ G \in Seq(Seq(W))
  /\ Classes(s, F, n, G)
  /\ EachHasGroup(s, F, n, G)
  /\ FirstRows(F, n, G)
  /\ FirstsInOrder(F, n, G)
  /\ KeysDiffer(s, G)

(* A group that the next row is not in.                                      *)
LEMMA KeepsGroup ==
  ASSUME NEW s, NEW W, NEW F \in Seq(W), NEW n \in Nat, n + 1 <= Len(F),
         NEW group \in Seq(W), NEW key, GroupKey(s, F[n + 1]) # key,
         IsSelection(F, Others(s, F, key), n, group)
  PROVE  IsSelection(F, Others(s, F, key), n + 1, group)
<1> DEFINE others == Others(s, F, key)
<1>1. n + 1 \in DOMAIN F
  BY LenProperties
<1>2. n + 1 \in others
  BY <1>1 DEF Others
<1> HIDE DEF others
<1>3. IsSelection(F, others, n, group)
  BY DEF others
<1>4. IsSelection(F, others, n + 1, group)
  BY <1>2, <1>3, SelectsMore
<1> QED BY <1>4 DEF others

(* A group that the next row is put in.                                      *)
LEMMA GrowsGroup ==
  ASSUME NEW s, NEW W, NEW F \in Seq(W), NEW n \in Nat, n + 1 <= Len(F),
         NEW group \in Seq(W), NEW key, GroupKey(s, F[n + 1]) = key,
         IsSelection(F, Others(s, F, key), n, group)
  PROVE  /\ Append(group, F[n + 1]) \in Seq(W)
         /\ IsSelection(F, Others(s, F, key), n + 1, Append(group, F[n + 1]))
<1> DEFINE others == Others(s, F, key)
<1>1. n + 1 \in DOMAIN F
  BY LenProperties
<1>2. n + 1 \notin others
  BY <1>1 DEF Others
<1> HIDE DEF others
<1>3. IsSelection(F, others, n, group)
  BY DEF others
<1>4. /\ Append(group, F[n + 1]) \in Seq(W)
      /\ IsSelection(F, others, n + 1, Append(group, F[n + 1]))
  BY <1>2, <1>3, SelectsMore
<1> QED BY <1>4 DEF others

(* The next row begins a group.                                              *)
LEMMA NewGroupOK ==
  ASSUME NEW s, NEW W, NEW F \in Seq(W), NEW n \in Nat, n + 1 <= Len(F),
         NEW G, GroupsOK(s, W, F, n, G),
         \A g \in DOMAIN G : GroupKey(s, F[n + 1]) # KeyOf(s, G[g])
  PROVE  GroupsOK(s, W, F, n + 1, Append(G, <<F[n + 1]>>))
<1> DEFINE x == F[n + 1]
           one == <<x>>
           H == Append(G, one)
           m == Len(G)
<1>1. DOMAIN F = 1..Len(F) /\ x \in W /\ n + 1 \in 1..(n + 1)
  BY LenProperties, ElementOfSeq
<1>2. G \in Seq(Seq(W)) /\ m \in Nat /\ DOMAIN G = 1..m
  BY LenProperties DEF GroupsOK
<1>3. one \in Seq(W) /\ one # <<>> /\ one[1] = x
  BY <1>1
<1> HIDE DEF one
<1>4. /\ H \in Seq(Seq(W)) /\ Len(H) = m + 1 /\ H[m + 1] = one
      /\ \A g \in 1..m : H[g] = G[g]
  BY <1>2, <1>3, AppendProperties
<1>5. DOMAIN H = 1..(m + 1)
  BY <1>4, LenProperties
<1> HIDE DEF H, m, x
<1>6. \A g \in DOMAIN H : \/ g \in DOMAIN G /\ H[g] = G[g]
                          \/ g = m + 1 /\ H[g] = one /\ H[g][1] = x
  BY <1>2, <1>3, <1>4, <1>5
<1>7. \A g \in DOMAIN G : g \in DOMAIN H /\ H[g] = G[g] /\ g < m + 1
  BY <1>2, <1>4, <1>5
<1>8. \A i \in 1..n : i \in 1..(n + 1) /\ i < n + 1
  OBVIOUS
<1>9. Classes(s, F, n + 1, H)
  <2>1. ASSUME NEW g \in DOMAIN G
        PROVE  G[g] # <<>> /\ IsSelection(F, Others(s, F, KeyOf(s, G[g])), n + 1, G[g])
    <3>1. G[g] \in Seq(W)
      BY <1>2, ElementOfSeq
    <3>2. G[g] # <<>> /\ IsSelection(F, Others(s, F, KeyOf(s, G[g])), n, G[g])
      BY DEF GroupsOK, Classes
    <3>3. PICK group \in Seq(W) : group = G[g]
      BY <3>1
    <3>4. PICK key : key = KeyOf(s, G[g])
      OBVIOUS
    <3>5. GroupKey(s, F[n + 1]) # key /\ IsSelection(F, Others(s, F, key), n, group)
      BY <3>2, <3>3, <3>4
    <3>6. IsSelection(F, Others(s, F, key), n + 1, group)
      BY <3>5, KeepsGroup
    <3> QED BY <3>2, <3>3, <3>4, <3>6
  <2>2. IsSelection(F, Others(s, F, KeyOf(s, one)), n + 1, one)
    <3> DEFINE key == GroupKey(s, x)
               others == Others(s, F, key)
    <3>1. KeyOf(s, one) = key
      BY <1>3 DEF KeyOf
    <3>2. \A i \in 1..n : GroupKey(s, F[i]) # key
      BY DEF GroupsOK, EachHasGroup, x
    <3>3. \A i \in 1..n : i \in others
      BY <1>1, <3>2 DEF Others
    <3>4. <<>> \in Seq(W) /\ Append(<<>>, x) = one
      BY <1>1, EmptySeq DEF one
    <3>5. IsSelection(F, others, n, <<>>)
      <4> DEFINE g == [k \in 1..0 |-> 0]
                 r == <<>>
      <4>1. Len(r) = 0
        BY <3>4, EmptySeq
      <4>2. (1..n) \ others = {}
        BY <3>3
      <4> HIDE DEF others, r
      <4>3. g \in [1..Len(r) -> (1..n) \ others]
        BY <4>1
      <4>4. IsSelection(F, others, n, r)
        BY <4>1, <4>2, <4>3 DEF IsSelection
      <4> QED BY <4>4 DEF r
    <3>6. GroupKey(s, F[n + 1]) = key
      BY DEF x
    <3> HIDE DEF key
    <3>7. IsSelection(F, others, n + 1, Append(<<>>, F[n + 1]))
      BY <3>4, <3>5, <3>6, GrowsGroup
    <3> QED BY <3>1, <3>4, <3>7 DEF x
  <2> QED BY <1>3, <1>6, <2>1, <2>2 DEF Classes
<1>10. EachHasGroup(s, F, n + 1, H)
  <2>1. \A i \in 1..(n + 1) : i \in 1..n \/ i = n + 1
    OBVIOUS
  <2>2. m + 1 \in DOMAIN H /\ GroupKey(s, F[n + 1]) = KeyOf(s, H[m + 1])
    BY <1>2, <1>3, <1>4, <1>5 DEF KeyOf, x
  <2>3. \A i \in 1..n : \E g \in DOMAIN H : GroupKey(s, F[i]) = KeyOf(s, H[g])
    BY <1>7 DEF GroupsOK, EachHasGroup
  <2> QED BY <2>1, <2>2, <2>3 DEF EachHasGroup
<1>11. FirstRows(F, n + 1, H)
  BY <1>1, <1>6, <1>8 DEF GroupsOK, FirstRows, x
<1>12. FirstsInOrder(F, n + 1, H)
  <2> SUFFICES ASSUME NEW g \in DOMAIN H, NEW h \in DOMAIN H, g < h
               PROVE  \E i, j \in 1..(n + 1) : i < j /\ H[g][1] = F[i] /\ H[h][1] = F[j]
    BY DEF FirstsInOrder
  <2>1. g \in DOMAIN G /\ H[g] = G[g]
    BY <1>2, <1>5, <1>6
  <2>2. CASE h \in DOMAIN G
    <3>1. H[h] = G[h]
      BY <1>7, <2>2
    <3>2. PICK i \in 1..n, j \in 1..n : i < j /\ G[g][1] = F[i] /\ G[h][1] = F[j]
      BY <2>1, <2>2 DEF GroupsOK, FirstsInOrder
    <3> QED BY <1>8, <2>1, <3>1, <3>2
  <2>3. CASE h \notin DOMAIN G
    <3>1. H[h][1] = F[n + 1]
      BY <1>6, <2>3 DEF x
    <3>2. PICK i \in 1..n : G[g][1] = F[i]
      BY <2>1 DEF GroupsOK, FirstRows
    <3> QED BY <1>1, <1>8, <2>1, <3>1, <3>2
  <2> QED BY <2>2, <2>3
<1>13. KeysDiffer(s, H)
  <2>1. \A g \in DOMAIN H : g \in DOMAIN G => KeyOf(s, H[g]) = KeyOf(s, G[g])
    BY <1>7
  <2>2. \A g \in DOMAIN H : g \notin DOMAIN G => g = m + 1 /\ KeyOf(s, H[g]) = GroupKey(s, F[n + 1])
    BY <1>6 DEF KeyOf, x
  <2>3. KeysDiffer(s, G)
    BY DEF GroupsOK
  <2> QED BY <2>1, <2>2, <2>3 DEF KeysDiffer
<1>14. GroupsOK(s, W, F, n + 1, H)
  BY <1>4, <1>9, <1>10, <1>11, <1>12, <1>13 DEF GroupsOK
<1> QED BY <1>14 DEF H, one, x

(* The next row is put in the group that has its key.                        *)
LEMMA OldGroupOK ==
  ASSUME NEW s, NEW W, NEW F \in Seq(W), NEW n \in Nat, n + 1 <= Len(F),
         NEW G, GroupsOK(s, W, F, n, G),
         NEW own \in DOMAIN G, GroupKey(s, F[n + 1]) = KeyOf(s, G[own])
  PROVE  GroupsOK(s, W, F, n + 1, [G EXCEPT ![own] = Append(@, F[n + 1])])
<1> DEFINE x == F[n + 1]
           grown == Append(G[own], x)
           H == [G EXCEPT ![own] = grown]
<1>1. DOMAIN F = 1..Len(F) /\ x \in W /\ n + 1 \in 1..(n + 1)
  BY LenProperties, ElementOfSeq
<1>2. G \in Seq(Seq(W)) /\ DOMAIN G = 1..Len(G) /\ G[own] \in Seq(W) /\ G[own] # <<>>
  BY LenProperties, ElementOfSeq DEF GroupsOK, Classes
<1>3. Len(G[own]) \in Nat \ {0}
  BY <1>2, EmptySeq
<1>4. grown \in Seq(W) /\ grown # <<>> /\ grown[1] = G[own][1]
  <2>1. PICK seq \in Seq(W) : seq = G[own]
    BY <1>2
  <2>2. Len(seq) \in Nat \ {0} /\ 1 \in 1..Len(seq)
    BY <1>3, <2>1
  <2> HIDE DEF x
  <2>3. /\ Append(seq, x) \in Seq(W)
        /\ Len(Append(seq, x)) = Len(seq) + 1
        /\ Append(seq, x)[1] = seq[1]
    BY <1>1, <2>2, AppendProperties
  <2>4. Append(seq, x) # <<>>
    BY <2>2, <2>3, EmptySeq
  <2> QED BY <2>1, <2>3, <2>4
<1> HIDE DEF grown
<1>5. /\ H \in Seq(Seq(W)) /\ Len(H) = Len(G)
      /\ \A g \in 1..Len(G) : H[g] = IF g = own THEN grown ELSE G[g]
  BY <1>2, <1>4, ExceptSeq
<1>6. DOMAIN H = DOMAIN G
  OBVIOUS
<1> HIDE DEF H
<1>7. \A g \in DOMAIN G : H[g][1] = G[g][1] /\ H[g] = IF g = own THEN grown ELSE G[g]
  BY <1>2, <1>4, <1>5
<1>8. \A g \in DOMAIN G : KeyOf(s, H[g]) = KeyOf(s, G[g])
  BY <1>7 DEF KeyOf
<1>9. \A i \in 1..n : i \in 1..(n + 1)
  OBVIOUS
<1>10. Classes(s, F, n + 1, H)
  <2>1. ASSUME NEW g \in DOMAIN G
        PROVE  H[g] # <<>> /\ IsSelection(F, Others(s, F, KeyOf(s, H[g])), n + 1, H[g])
    <3>1. G[g] \in Seq(W)
      BY <1>2, ElementOfSeq
    <3>2. G[g] # <<>> /\ IsSelection(F, Others(s, F, KeyOf(s, G[g])), n, G[g])
      BY DEF GroupsOK, Classes
    <3>3. PICK group \in Seq(W) : group = G[g]
      BY <3>1
    <3>4. PICK key : key = KeyOf(s, G[g])
      OBVIOUS
    <3>5. IsSelection(F, Others(s, F, key), n, group)
      BY <3>2, <3>3, <3>4
    <3>6. CASE g = own
      <4>1. GroupKey(s, F[n + 1]) = key
        BY <3>4, <3>6
      <4>2. IsSelection(F, Others(s, F, key), n + 1, Append(group, F[n + 1]))
        BY <3>5, <4>1, GrowsGroup
      <4>3. H[g] = Append(group, F[n + 1])
        BY <1>7, <3>3, <3>6 DEF grown, x
      <4> QED BY <1>4, <1>7, <1>8, <3>4, <3>6, <4>2, <4>3
    <3>7. CASE g # own
      <4>1. GroupKey(s, F[n + 1]) # key
        BY <3>4, <3>7 DEF GroupsOK, KeysDiffer
      <4>2. IsSelection(F, Others(s, F, key), n + 1, group)
        BY <3>5, <4>1, KeepsGroup
      <4> QED BY <1>7, <1>8, <3>2, <3>3, <3>4, <3>7, <4>2
    <3> QED BY <3>6, <3>7
  <2> QED BY <1>6, <2>1 DEF Classes
<1>11. EachHasGroup(s, F, n + 1, H)
  <2>1. \A i \in 1..(n + 1) : i \in 1..n \/ i = n + 1
    OBVIOUS
  <2>2. \A i \in 1..n : \E g \in DOMAIN G : GroupKey(s, F[i]) = KeyOf(s, G[g])
    BY DEF GroupsOK, EachHasGroup
  <2> QED BY <1>6, <1>8, <2>1, <2>2 DEF EachHasGroup
<1>12. FirstRows(F, n + 1, H)
  BY <1>6, <1>7, <1>9 DEF GroupsOK, FirstRows
<1>13. FirstsInOrder(F, n + 1, H)
  <2> SUFFICES ASSUME NEW g \in DOMAIN H, NEW h \in DOMAIN H, g < h
               PROVE  \E i, j \in 1..(n + 1) : i < j /\ H[g][1] = F[i] /\ H[h][1] = F[j]
    BY DEF FirstsInOrder
  <2>1. PICK i \in 1..n, j \in 1..n : i < j /\ G[g][1] = F[i] /\ G[h][1] = F[j]
    BY <1>6 DEF GroupsOK, FirstsInOrder
  <2> QED BY <1>6, <1>7, <1>9, <2>1
<1>14. KeysDiffer(s, H)
  BY <1>6, <1>8 DEF GroupsOK, KeysDiffer
<1>15. GroupsOK(s, W, F, n + 1, H)
  BY <1>5, <1>10, <1>11, <1>12, <1>13, <1>14 DEF GroupsOK
<1> QED BY <1>15 DEF H, grown, x

(* So each row is put in its group.                                          *)
LEMMA PutInGroupOK ==
  ASSUME NEW s, NEW W, NEW F \in Seq(W), NEW n \in Nat, n + 1 <= Len(F),
         NEW G, GroupsOK(s, W, F, n, G)
  PROVE  GroupsOK(s, W, F, n + 1, PutInGroup(s, G, F[n + 1]))
<1> DEFINE x == F[n + 1]
           own == {g \in DOMAIN G : InGroup(s, x, G[g])}
<1>1. PutInGroup(s, G, x) = IF own = {} THEN Append(G, <<x>>)
                            ELSE [G EXCEPT ![Min(own)] = Append(@, x)]
  BY DEF PutInGroup
<1>2. \A g \in DOMAIN G : g \in own <=> GroupKey(s, x) = KeyOf(s, G[g])
  BY DEF InGroup, KeyOf
<1>3. CASE own = {}
  <2>1. \A g \in DOMAIN G : GroupKey(s, F[n + 1]) # KeyOf(s, G[g])
    BY <1>2, <1>3
  <2> QED BY <1>1, <1>3, <2>1, NewGroupOK
<1>4. CASE own # {}
  <2>1. PICK g \in DOMAIN G : g \in own
    BY <1>4
  <2>2. \A h \in own : h = g
    BY <1>2, <2>1 DEF GroupsOK, KeysDiffer
  <2>3. own = {g}
    BY <2>1, <2>2
  <2>4. g \in Nat
    BY LenProperties DEF GroupsOK
  <2>5. Min({g}) = g
    BY <2>4 DEF Min
  <2>6. PutInGroup(s, G, x) = [G EXCEPT ![g] = Append(@, x)]
    BY <1>1, <2>1, <2>3, <2>5
  <2>7. GroupKey(s, F[n + 1]) = KeyOf(s, G[g])
    BY <1>2, <2>1
  <2> QED BY <2>6, <2>7, OldGroupOK
<1> QED BY <1>3, <1>4

(* f[k] are the groups of the first k rows.                                  *)
GroupsUpTo(s, F, n, f) ==
  f = [k \in 0..n |-> IF k = 0 THEN <<>> ELSE PutInGroup(s, f[k - 1], F[k])]

(* There is such a function: what the definition of BuildGroups computes.    *)
LEMMA GroupsExist ==
  ASSUME NEW s, NEW F, NEW n \in Nat
  PROVE  \E f : GroupsUpTo(s, F, n, f)
<1> DEFINE T == {k \in Nat : ~\E f : GroupsUpTo(s, F, k, f)}
<1>1. SUFFICES ASSUME T # {} PROVE FALSE
  OBVIOUS
<1>2. PICK k \in T : \A j \in T : k <= j
  BY <1>1, LeastNumber
<1>3. CASE k = 0
  <2> DEFINE g == [i \in 0..0 |-> <<>>]
  <2>1. g = [i \in 0..0 |-> IF i = 0 THEN <<>> ELSE PutInGroup(s, g[i - 1], F[i])]
    OBVIOUS
  <2>2. GroupsUpTo(s, F, k, g)
    BY <1>3, <2>1 DEF GroupsUpTo
  <2> QED BY <2>2
<1>4. CASE k # 0
  <2>1. k - 1 \in Nat /\ k - 1 \notin T
    BY <1>2, <1>4
  <2>2. PICK f : GroupsUpTo(s, F, k - 1, f)
    BY <2>1
  <2> DEFINE last == PutInGroup(s, f[k - 1], F[k])
             g == [i \in 0..k |-> IF i = k THEN last ELSE f[i]]
  <2>3. \A i \in 0..(k - 1) : f[i] = IF i = 0 THEN <<>> ELSE PutInGroup(s, f[i - 1], F[i])
    BY <2>1, <2>2 DEF GroupsUpTo
  <2>4. /\ \A i \in 0..(k - 1) : i \in 0..k /\ g[i] = f[i]
        /\ k \in 0..k /\ g[k] = last
    BY <2>1
  <2>5. g = [i \in 0..k |-> g[i]]
    OBVIOUS
  <2> HIDE DEF g
  <2>6. \A i \in 0..k : i # 0 => i - 1 \in 0..(k - 1)
    BY <2>1
  <2>7. \A i \in 0..k : i = k \/ i \in 0..(k - 1)
    BY <2>1
  <2>8. \A i \in 0..k : g[i] = IF i = 0 THEN <<>> ELSE PutInGroup(s, g[i - 1], F[i])
    BY <1>4, <2>3, <2>4, <2>6, <2>7
  <2>9. GroupsUpTo(s, F, k, g)
    BY <2>5, <2>8 DEF GroupsUpTo
  <2> QED BY <2>9
<1> QED BY <1>3, <1>4

(* So the groups of all rows are as GroupsOK says.                           *)
LEMMA BuildGroupsOK ==
  ASSUME NEW s, NEW W, NEW F \in Seq(W), GroupColumns(s) # <<>>
  PROVE  GroupsOK(s, W, F, Len(F), BuildGroups(s, F))
<1> DEFINE n == Len(F)
           f == CHOOSE g : GroupsUpTo(s, F, n, g)
           T == {k \in Nat : k <= n /\ ~GroupsOK(s, W, F, k, f[k])}
<1>1. n \in Nat
  BY LenProperties
<1>2. GroupsUpTo(s, F, n, f)
  BY <1>1, GroupsExist
<1>3. BuildGroups(s, F) = f[n]
  BY DEF BuildGroups, GroupsUpTo
<1> HIDE DEF f
<1>4. \A k \in 0..n : f[k] = IF k = 0 THEN <<>> ELSE PutInGroup(s, f[k - 1], F[k])
  BY <1>1, <1>2 DEF GroupsUpTo
<1>5. ASSUME T # {}
      PROVE  FALSE
  <2>1. PICK k \in T : \A j \in T : k <= j
    BY <1>5, LeastNumber
  <2>2. CASE k = 0
    <3> DEFINE G == <<>>
    <3>1. f[0] = G
      BY <1>1, <1>4
    <3>2. G \in Seq(Seq(W)) /\ DOMAIN G = {} /\ 1..0 = {}
      BY EmptySeq
    <3> HIDE DEF G
    <3>3. GroupsOK(s, W, F, 0, G)
      BY <3>2 DEF GroupsOK, Classes, EachHasGroup, FirstRows, FirstsInOrder, KeysDiffer
    <3> QED BY <2>1, <2>2, <3>1, <3>3
  <2>3. CASE k # 0
    <3> DEFINE m == k - 1
    <3>1. m \in Nat /\ m + 1 = k /\ m \notin T /\ m <= n /\ m + 1 <= Len(F)
      BY <1>1, <2>1, <2>3
    <3>2. f[k] = PutInGroup(s, f[m], F[k])
      BY <1>1, <1>4, <2>1, <2>3
    <3> HIDE DEF m
    <3>3. GroupsOK(s, W, F, m, f[m])
      BY <3>1
    <3>4. GroupsOK(s, W, F, m + 1, PutInGroup(s, f[m], F[m + 1]))
      BY <3>1, <3>3, PutInGroupOK
    <3> QED BY <2>1, <3>1, <3>2, <3>4
  <2> QED BY <2>2, <2>3
<1> QED BY <1>1, <1>3, <1>5

(* The groups of all rows, as GroupsAreClasses says what they are.           *)
KeysOf(s, F) == {GroupKey(s, j) : j \in ToSet(F)}
ClassOf(s, F, key) == Only(F, {i \in DOMAIN F : GroupKey(s, F[i]) = key})
PlaceOf(F, group) == Min({i \in DOMAIN F : F[i] = group[1]})

(* Rows that come one after the other are all different.                     *)
LEMMA RowsDiffer ==
  ASSUME NEW F \in Seq(Seq(Nat)), InOrderOf(Earlier, F)
  PROVE  \A i, j \in DOMAIN F : F[i] = F[j] => i = j
<1>1. \A x \in Seq(Nat) : ~Precedes(x, x)
  <2> SUFFICES ASSUME NEW x \in Seq(Nat), Precedes(x, x)
               PROVE  FALSE
    OBVIOUS
  <2>1. PICK i \in DOMAIN x : x[i] < x[i]
    BY DEF Precedes
  <2>2. x[i] \in Nat
    BY <2>1, LenProperties, ElementOfSeq
  <2> QED BY <2>1, <2>2
<1>2. ASSUME NEW i \in DOMAIN F, NEW j \in DOMAIN F, i < j
      PROVE  F[i] # F[j]
  <2>1. <<F[i], F[j]>> \in Earlier
    BY <1>2 DEF InOrderOf
  <2>2. F[i] \in Seq(Nat) /\ Precedes(F[i], F[j])
    BY <2>1 DEF Earlier
  <2> QED BY <1>1, <2>2
<1>3. DOMAIN F = 1..Len(F)
  BY LenProperties
<1>4. \A i, j \in DOMAIN F : i < j \/ j < i \/ i = j
  BY <1>3
<1> QED BY <1>2, <1>4

(* Where a row that is in F is.                                              *)
LEMMA PlaceOfRow ==
  ASSUME NEW W, NEW F \in Seq(W), \A i, j \in DOMAIN F : F[i] = F[j] => i = j,
         NEW i \in DOMAIN F, NEW group, group[1] = F[i]
  PROVE  PlaceOf(F, group) = i
<1>1. {k \in DOMAIN F : F[k] = group[1]} = {i}
  OBVIOUS
<1>2. i \in Nat
  BY LenProperties
<1>3. Min({i}) = i
  BY <1>2 DEF Min
<1> QED BY <1>1, <1>3 DEF PlaceOf

(* The groups are the classes, one of each, in the order of their first rows. *)
LEMMA GroupsOfAllRows ==
  ASSUME NEW s, NEW W, NEW F \in Seq(W), \A i, j \in DOMAIN F : F[i] = F[j] => i = j,
         NEW G, GroupsOK(s, W, F, Len(F), G)
  PROVE  /\ ToSet(G) = {ClassOf(s, F, key) : key \in KeysOf(s, F)}
         /\ Len(G) = Cardinality(KeysOf(s, F))
         /\ \A g \in 2..Len(G) : PlaceOf(F, G[g - 1]) < PlaceOf(F, G[g])
<1> DEFINE n == Len(F)
           m == Len(G)
           keys == KeysOf(s, F)
           h == [g \in 1..m |-> KeyOf(s, G[g])]
<1>1. n \in Nat /\ DOMAIN F = 1..n
  BY LenProperties
<1>2. G \in Seq(Seq(W)) /\ m \in Nat /\ DOMAIN G = 1..m
  BY LenProperties DEF GroupsOK
<1>3. \A x : x \in keys <=> \E i \in DOMAIN F : x = GroupKey(s, F[i])
  BY DEF KeysOf, ToSet
<1> HIDE DEF keys
<1>4. \A g \in DOMAIN G : G[g] = ClassOf(s, F, KeyOf(s, G[g]))
  <2> TAKE g \in DOMAIN G
  <2>1. G[g] \in Seq(W)
    BY <1>2, ElementOfSeq
  <2>2. PICK group \in Seq(W) : group = G[g]
    BY <2>1
  <2>3. PICK key : key = KeyOf(s, G[g])
    OBVIOUS
  <2>4. IsSelection(F, Others(s, F, key), Len(F), group)
    BY <2>2, <2>3 DEF GroupsOK, Classes
  <2> DEFINE kept == {i \in DOMAIN F : GroupKey(s, F[i]) = key}
  <2>5. IsSelection(F, DOMAIN F \ kept, Len(F), group)
    BY <2>4 DEF Others
  <2> HIDE DEF kept
  <2>6. group = Only(F, kept)
    BY <2>5, SelectionIsOnly
  <2> QED BY <2>2, <2>3, <2>6 DEF kept, ClassOf
<1>5. \A g \in DOMAIN G : KeyOf(s, G[g]) \in keys
  <2> TAKE g \in DOMAIN G
  <2>1. PICK i \in 1..n : G[g][1] = F[i]
    BY DEF GroupsOK, FirstRows
  <2> QED BY <1>1, <1>3, <2>1 DEF KeyOf
<1>6. \A key \in keys : \E g \in DOMAIN G : key = KeyOf(s, G[g])
  BY <1>1, <1>3 DEF GroupsOK, EachHasGroup
<1>7. ToSet(G) = {ClassOf(s, F, key) : key \in keys}
  <2>1. \A x : x \in ToSet(G) <=> \E g \in DOMAIN G : x = G[g]
    BY DEF ToSet
  <2> QED BY <1>4, <1>5, <1>6, <2>1
<1>8. m = Cardinality(keys)
  <2>1. h \in Bijection(1..m, keys)
    <3>1. h \in [1..m -> keys]
      BY <1>2, <1>5
    <3>2. \A g, k \in 1..m : h[g] = h[k] => g = k
      BY <1>2 DEF GroupsOK, KeysDiffer
    <3>3. \A key \in keys : \E g \in 1..m : h[g] = key
      BY <1>2, <1>6
    <3> HIDE DEF h
    <3>4. DOMAIN h = 1..m
      BY <3>1
    <3>5. h \in Injection(1..m, keys)
      BY <3>1, <3>2, <3>4 DEF Injection, IsInjective
    <3>6. h \in Surjection(1..m, keys)
      BY <3>1, <3>3 DEF Surjection
    <3> QED BY <3>5, <3>6 DEF Bijection
  <2>2. ExistsBijection(1..m, keys)
    BY <2>1 DEF ExistsBijection
  <2> HIDE DEF h, m
  <2>3. IsFiniteSet(1..m) /\ Cardinality(1..m) = m
    <3>1. 1 \in Int /\ m \in Int /\ (1 > m => m = 0) /\ m - 1 + 1 = m
      BY <1>2
    <3>2. /\ IsFiniteSet(1..m)
          /\ Cardinality(1..m) = IF 1 > m THEN 0 ELSE m - 1 + 1
      BY <3>1, FS_Interval
    <3> QED BY <3>1, <3>2
  <2>4. Cardinality(keys) = Cardinality(1..m)
    BY <2>2, <2>3, FS_Bijection
  <2> QED BY <2>3, <2>4 DEF m
<1>9. ASSUME NEW g \in 2..m
      PROVE  PlaceOf(F, G[g - 1]) < PlaceOf(F, G[g])
  <2>1. g - 1 \in DOMAIN G /\ g \in DOMAIN G /\ g - 1 < g
    BY <1>2
  <2>2. PICK i \in 1..n, j \in 1..n : i < j /\ G[g - 1][1] = F[i] /\ G[g][1] = F[j]
    BY <2>1 DEF GroupsOK, FirstsInOrder
  <2>3. PICK one, two : one = G[g - 1] /\ two = G[g]
    OBVIOUS
  <2>4. PlaceOf(F, one) = i
    BY <1>1, <2>2, <2>3, PlaceOfRow
  <2>5. PlaceOf(F, two) = j
    BY <1>1, <2>2, <2>3, PlaceOfRow
  <2> QED BY <2>2, <2>3, <2>4, <2>5
<1> QED BY <1>7, <1>8, <1>9 DEF keys

(* What WHERE lets through is as the joined rows are.                        *)
LEMMA FilteredRowsOK ==
  ASSUME RowsInv, NEW s \in Selects, RelationsExist(s)
  PROVE  FilteredRows(s) \in Seq(Seq(Nat)) /\ InOrderOf(Earlier, FilteredRows(s))
<1> DEFINE all == JoinedRows(s)
           kept == {i \in DOMAIN all : PassesPredicate(WhereTruth(s, Relations(s), all[i]))}
<1>1. all \in Seq(Seq(Nat)) /\ InOrderOf(Earlier, all)
  BY JoinedRowsOK DEF JoinedOK
<1>2. FilteredRows(s) = IF s.where = Absent THEN all ELSE Only(all, kept)
  BY DEF FilteredRows, PassingRows
<1> HIDE DEF all, kept
<1>3. Only(all, kept) \in Seq(Seq(Nat)) /\ InOrderOf(Earlier, Only(all, kept))
  BY <1>1, FilterOK
<1> QED BY <1>1, <1>2, <1>3

(* Every row of a grouped query is in the group of its key, and the groups   *)
(* come in the order of their first rows, in every state, for every          *)
(* statement that is accepted.                                               *)
THEOREM GroupsAlwaysClasses == Spec => []GroupsAreClasses
<1>1. ASSUME RowsInv, NEW s \in Accepted(GroupedSelects)
      PROVE  LET filtered == FilteredRows(s)
                 groups == BuildGroups(s, filtered)
             IN  IF GroupColumns(s) = <<>> THEN groups = <<filtered>>
                 ELSE /\ ToSet(groups) = {ClassOf(s, filtered, key) : key \in KeysOf(s, filtered)}
                      /\ Len(groups) = Cardinality(KeysOf(s, filtered))
                      /\ \A g \in 2..Len(groups) :
                           PlaceOf(filtered, groups[g - 1]) < PlaceOf(filtered, groups[g])
  <2> DEFINE filtered == FilteredRows(s)
             groups == BuildGroups(s, filtered)
  <2>1. s \in Selects /\ RelationsExist(s) /\ IsGrouped(s)
    BY DEF Accepted, GroupedSelects, ValidSelects, StatementValid
  <2>2. filtered \in Seq(Seq(Nat)) /\ InOrderOf(Earlier, filtered)
    BY <1>1, <2>1, FilteredRowsOK
  <2> HIDE DEF filtered
  <2>3. CASE GroupColumns(s) = <<>>
    <3>1. s.groupBy = Absent
      BY <2>1, <2>3, QueryAssumption DEF GroupColumns
    <3>2. HasAggregates(s)
      BY <2>1, <3>1 DEF IsGrouped
    <3>3. groups = <<filtered>>
      BY <2>3, <3>2 DEF BuildGroups
    <3> QED BY <2>3, <3>3 DEF filtered
  <2>4. CASE GroupColumns(s) # <<>>
    <3>1. \A i, j \in DOMAIN filtered : filtered[i] = filtered[j] => i = j
      BY <2>2, RowsDiffer
    <3>2. GroupsOK(s, Seq(Nat), filtered, Len(filtered), groups)
      BY <2>2, <2>4, BuildGroupsOK
    <3> HIDE DEF groups
    <3>3. /\ ToSet(groups) = {ClassOf(s, filtered, key) : key \in KeysOf(s, filtered)}
          /\ Len(groups) = Cardinality(KeysOf(s, filtered))
          /\ \A g \in 2..Len(groups) :
               PlaceOf(filtered, groups[g - 1]) < PlaceOf(filtered, groups[g])
      BY <2>2, <3>1, <3>2, GroupsOfAllRows
    <3> QED BY <2>4, <3>3 DEF groups, filtered
  <2> QED BY <2>3, <2>4
<1>2. RowsInv => GroupsAreClasses
  BY <1>1 DEF GroupsAreClasses, ClassOf, KeysOf, PlaceOf
<1> QED BY <1>2, AlwaysRowsInv, PTL

----------------------------------------------------------------------------
(* ORDER BY.                                                                 *)

(* A product by a positive number keeps the order.                           *)
LEMMA ProductKeepsOrder ==
  ASSUME NEW p \in Int, NEW q \in Int, NEW k \in Nat \ {0}
  PROVE  p < q <=> p * k < q * k
<1>1. p < q => p * k < q * k
  OBVIOUS
<1>2. q <= p => q * k <= p * k
  OBVIOUS
<1> QED BY <1>1, <1>2

(* Where a fraction is less than another, each third one is more than the    *)
(* first or less than the other.                                             *)
LEMMA FractionsOrdered ==
  ASSUME NEW a \in Int, NEW b \in Int, NEW c \in Int,
         NEW x \in Nat \ {0}, NEW y \in Nat \ {0}, NEW z \in Nat \ {0},
         a * z < c * x
  PROVE  a * y < b * x \/ b * z < c * y
<1> SUFFICES ASSUME ~(b * z < c * y) PROVE a * y < b * x
  OBVIOUS
<1>1. a * z \in Int /\ c * x \in Int /\ b * z \in Int /\ c * y \in Int /\ a * y \in Int /\ b * x \in Int
  OBVIOUS
<1>2. (a * z) * y < (c * x) * y
  BY <1>1, ProductKeepsOrder
<1>3. ~((b * z) * x < (c * y) * x)
  BY <1>1, ProductKeepsOrder
<1>4. (a * z) * y = (a * y) * z /\ (c * x) * y = (c * y) * x /\ (b * z) * x = (b * x) * z
  OBVIOUS
<1>5. (a * y) * z < (b * x) * z
  BY <1>1, <1>2, <1>3, <1>4
<1> QED BY <1>1, <1>5, ProductKeepsOrder

SameKind(v, w) == AreNumbers(v, w) \/ AreTexts(v, w) \/ AreBooleans(v, w)

(* A value is of one kind, and tells which.                                  *)
LEMMA KindsAre ==
  ASSUME NEW v
  PROVE  /\ v \in NumberValues => /\ v[1] \in {"number", "quotient"}
                                  /\ v[2] \in Int /\ Denominator(v) \in Nat \ {0}
         /\ v \in TextValues => v[1] = "string" /\ v[2] \in Texts
         /\ v \in BooleanValues => v[1] = "boolean" /\ v[2] \in BOOLEAN
         /\ v = Null => v[1] = "null"
<1>1. ASSUME v \in {"number"} \X Int PROVE v[1] = "number" /\ v[2] \in Int
  BY <1>1
<1>2. ASSUME v \in {"quotient"} \X Int \X (Nat \ {0})
      PROVE  v[1] = "quotient" /\ v[2] \in Int /\ v[3] \in Nat \ {0}
  BY <1>2
<1>3. v \in NumberValues => /\ v[1] \in {"number", "quotient"}
                            /\ v[2] \in Int /\ Denominator(v) \in Nat \ {0}
  BY <1>1, <1>2 DEF NumberValues, Denominator
<1>4. v \in TextValues => v[1] = "string" /\ v[2] \in Texts
  BY DEF TextValues
<1>5. v \in BooleanValues => v[1] = "boolean" /\ v[2] \in BOOLEAN
  BY DEF BooleanValues
<1>6. v = Null => v[1] = "null"
  BY DEF Null
<1> QED BY <1>3, <1>4, <1>5, <1>6

(* Smaller orders the values of a kind: never both ways, and what does not   *)
(* come after u or before w leaves u no smaller than w.                      *)
LEMMA SmallerOrders ==
  ASSUME NEW u, NEW w, Smaller(u, w)
  PROVE  /\ SameKind(u, w)
         /\ ~Smaller(w, u)
         /\ \A v : SameKind(v, w) => Smaller(u, v) \/ Smaller(v, w)
<1>1. CASE AreNumbers(u, w)
  <2>1. u \in NumberValues /\ w \in NumberValues
        /\ u[2] * Denominator(w) < w[2] * Denominator(u)
    BY <1>1, KindsAre DEF AreNumbers, AreTexts, AreBooleans, Smaller
  <2>2. u[2] \in Int /\ w[2] \in Int /\ Denominator(u) \in Nat \ {0} /\ Denominator(w) \in Nat \ {0}
        /\ u[1] \in {"number", "quotient"} /\ w[1] \in {"number", "quotient"}
    BY <2>1, KindsAre
  <2>3. /\ u[2] * Denominator(w) \in Int /\ w[2] * Denominator(u) \in Int
        /\ ~(w[2] * Denominator(u) < u[2] * Denominator(w))
    BY <2>1, <2>2
  <2>4. ~AreTexts(w, u) /\ ~AreBooleans(w, u)
    BY <2>2, KindsAre DEF AreTexts, AreBooleans
  <2>5. ASSUME NEW v, SameKind(v, w)
        PROVE  Smaller(u, v) \/ Smaller(v, w)
    <3>1. v \in NumberValues
      BY <2>2, <2>5, KindsAre DEF SameKind, AreNumbers, AreTexts, AreBooleans
    <3>2. v[2] \in Int /\ Denominator(v) \in Nat \ {0}
      BY <3>1, KindsAre
    <3>3. u[2] * Denominator(v) < v[2] * Denominator(u) \/ v[2] * Denominator(w) < w[2] * Denominator(v)
      BY <2>1, <2>2, <3>2, FractionsOrdered
    <3> QED BY <2>1, <3>1, <3>3 DEF Smaller, AreNumbers
  <2> QED BY <1>1, <2>3, <2>4, <2>5 DEF Smaller, SameKind
<1>2. CASE AreTexts(u, w)
  <2>1. /\ u \in TextValues /\ w \in TextValues /\ LocaleBefore(u[2], w[2])
        /\ u[2] \in Texts /\ w[2] \in Texts /\ u[1] = "string" /\ w[1] = "string"
    BY <1>2, KindsAre DEF AreNumbers, AreTexts, AreBooleans, Smaller
  <2>2. ~AreNumbers(w, u) /\ ~AreBooleans(w, u)
    BY <2>1, KindsAre DEF AreNumbers, AreBooleans
  <2>3. ~LocaleBefore(w[2], u[2])
    BY <2>1, LocaleAssumption
  <2>4. ASSUME NEW v, SameKind(v, w)
        PROVE  Smaller(u, v) \/ Smaller(v, w)
    <3>1. v \in TextValues /\ v[2] \in Texts
      BY <2>1, <2>4, KindsAre DEF SameKind, AreNumbers, AreTexts, AreBooleans
    <3>2. LocaleBefore(u[2], v[2]) \/ LocaleBefore(v[2], w[2])
      BY <2>1, <3>1, LocaleAssumption
    <3> QED BY <2>1, <3>1, <3>2 DEF Smaller, AreTexts
  <2> QED BY <1>2, <2>2, <2>3, <2>4 DEF Smaller, SameKind
<1>3. CASE AreBooleans(u, w)
  <2>1. /\ u \in BooleanValues /\ w \in BooleanValues /\ ~u[2] /\ w[2]
        /\ u[1] = "boolean" /\ w[1] = "boolean"
    BY <1>3, KindsAre DEF AreNumbers, AreTexts, AreBooleans, Smaller
  <2>2. ~AreNumbers(w, u) /\ ~AreTexts(w, u)
    BY <2>1, KindsAre DEF AreNumbers, AreTexts
  <2>3. ASSUME NEW v, SameKind(v, w)
        PROVE  Smaller(u, v) \/ Smaller(v, w)
    <3>1. v \in BooleanValues
      BY <2>1, <2>3, KindsAre DEF SameKind, AreNumbers, AreTexts, AreBooleans
    <3> QED BY <2>1, <3>1 DEF Smaller, AreBooleans
  <2> QED BY <1>3, <2>1, <2>2, <2>3 DEF Smaller, SameKind
<1> QED BY <1>1, <1>2, <1>3 DEF Smaller

Lower(v, values) == {w \in values \ {Null} : Smaller(w, v)}

(* Among finitely many values, fewer are smaller than a smaller one.         *)
LEMMA FewerAreLower ==
  ASSUME NEW values, IsFiniteSet(values), NEW v \in values, NEW w \in values
  PROVE  /\ Cardinality(Lower(v, values)) \in Nat
         /\ Cardinality(Lower(v, values)) < Cardinality(values)
         /\ SameKind(v, w) =>
              (Smaller(v, w) <=> Cardinality(Lower(v, values)) < Cardinality(Lower(w, values)))
<1>1. ASSUME NEW x
      PROVE  /\ Lower(x, values) \in SUBSET values
             /\ IsFiniteSet(Lower(x, values)) /\ Cardinality(Lower(x, values)) \in Nat
             /\ x \notin Lower(x, values)
  <2>1. Lower(x, values) \in SUBSET values /\ x \notin Lower(x, values)
    BY SmallerOrders DEF Lower
  <2> HIDE DEF Lower
  <2> QED BY <2>1, FS_Subset, FS_CardinalityType
<1>2. Cardinality(values) \in Nat
  BY FS_CardinalityType
<1>3. Cardinality(Lower(v, values)) < Cardinality(values)
  <2>1. Lower(v, values) # values
    BY <1>1
  <2>2. /\ Cardinality(Lower(v, values)) <= Cardinality(values)
        /\ Cardinality(Lower(v, values)) # Cardinality(values)
    BY <1>1, <2>1, FS_Subset
  <2> QED BY <1>1, <1>2, <2>2
<1>4. ASSUME SameKind(v, w), Smaller(v, w)
      PROVE  Cardinality(Lower(v, values)) < Cardinality(Lower(w, values))
  <2>1. ASSUME NEW u \in Lower(v, values) PROVE u \in Lower(w, values)
    <3>1. Smaller(u, v) /\ u \in values \ {Null}
      BY DEF Lower
    <3>2. SameKind(u, v) /\ ~Smaller(v, u)
      BY <3>1, SmallerOrders
    <3>3. SameKind(u, w)
      BY <1>4, <3>2, KindsAre DEF SameKind, AreNumbers, AreTexts, AreBooleans
    <3>4. Smaller(u, w)
      BY <1>4, <3>2, <3>3, SmallerOrders
    <3> QED BY <3>1, <3>4 DEF Lower
  <2>2. v # Null
    BY <1>4, KindsAre DEF SameKind, AreNumbers, AreTexts, AreBooleans
  <2>3. v \in Lower(w, values)
    BY <1>4, <2>2 DEF Lower
  <2>4. Lower(v, values) \in SUBSET Lower(w, values) /\ Lower(v, values) # Lower(w, values)
    BY <1>1, <2>1, <2>3
  <2>5. /\ Cardinality(Lower(v, values)) <= Cardinality(Lower(w, values))
        /\ Cardinality(Lower(v, values)) # Cardinality(Lower(w, values))
    BY <1>1, <2>4, FS_Subset
  <2> QED BY <1>1, <2>5
<1>5. ASSUME SameKind(v, w), ~Smaller(v, w)
      PROVE  ~(Cardinality(Lower(v, values)) < Cardinality(Lower(w, values)))
  <2>1. Lower(w, values) \in SUBSET Lower(v, values)
    BY <1>5, SmallerOrders DEF Lower
  <2>2. Cardinality(Lower(w, values)) <= Cardinality(Lower(v, values))
    BY <1>1, <2>1, FS_Subset
  <2> QED BY <1>1, <2>2
<1> QED BY <1>1, <1>3, <1>4, <1>5

NullsLast(item) == \/ item.nulls = "LAST"
                   \/ item.nulls = "default" /\ item.direction = "ASC"

RankOf(item, v, values) ==
  LET smaller == Cardinality(Lower(v, values))
  IN  CASE v = Null -> IF NullsLast(item) THEN Cardinality(values) ELSE -Cardinality(values)
        [] OTHER -> IF item.direction = "ASC" THEN smaller ELSE -smaller

IsOrderItem(item) == item.nulls \in {"default", "FIRST", "LAST"}

(* Values that can be compared are ranked as an item of ORDER BY has them.   *)
LEMMA RanksAgree ==
  ASSUME NEW values, IsFiniteSet(values), NEW item, IsOrderItem(item),
         NEW v \in values, NEW w \in values, Comparable(v, w)
  PROVE  /\ RankOf(item, v, values) \in Int
         /\ RankOf(item, v, values) < RankOf(item, w, values) <=> OrderedBefore(item, v, w)
<1> DEFINE a == Cardinality(Lower(v, values))
           b == Cardinality(Lower(w, values))
           c == Cardinality(values)
<1>1. /\ a \in Nat /\ b \in Nat /\ c \in Nat /\ a < c /\ b < c
      /\ SameKind(v, w) => (Smaller(v, w) <=> a < b)
      /\ SameKind(w, v) => (Smaller(w, v) <=> b < a)
  BY FewerAreLower, FS_CardinalityType
<1>2. v # Null /\ w # Null => SameKind(v, w) /\ SameKind(w, v)
  BY DEF Comparable, SameKind, AreNumbers, AreTexts, AreBooleans
<1>3. NullsPlaced(item) \in {"FIRST", "LAST"} /\ (NullsPlaced(item) = "LAST" <=> NullsLast(item))
  BY DEF IsOrderItem, NullsPlaced, NullsLast
<1>4. /\ v = Null => RankOf(item, v, values) = IF NullsLast(item) THEN c ELSE -c
      /\ w = Null => RankOf(item, w, values) = IF NullsLast(item) THEN c ELSE -c
      /\ v # Null => RankOf(item, v, values) = IF item.direction = "ASC" THEN a ELSE -a
      /\ w # Null => RankOf(item, w, values) = IF item.direction = "ASC" THEN b ELSE -b
  BY DEF RankOf
<1> HIDE DEF a, b, c
<1>5. CASE v # Null /\ w # Null
  BY <1>1, <1>2, <1>4, <1>5 DEF OrderedBefore
<1>6. CASE v = Null
  BY <1>1, <1>3, <1>4, <1>6 DEF OrderedBefore
<1>7. CASE v # Null /\ w = Null
  BY <1>1, <1>3, <1>4, <1>7 DEF OrderedBefore
<1> QED BY <1>5, <1>6, <1>7

(* Every value has a rank.                                                   *)
LEMMA RankIsNumber ==
  ASSUME NEW values, IsFiniteSet(values), NEW item, NEW v \in values
  PROVE  RankOf(item, v, values) \in Int
<1> DEFINE a == Cardinality(Lower(v, values))
           c == Cardinality(values)
<1>1. a \in Nat /\ c \in Nat
  BY FewerAreLower, FS_CardinalityType
<1>2. \/ RankOf(item, v, values) = c \/ RankOf(item, v, values) = -c
      \/ RankOf(item, v, values) = a \/ RankOf(item, v, values) = -a
  BY DEF RankOf
<1> HIDE DEF a, c
<1> QED BY <1>1, <1>2

(* An item of ORDER BY tells v from w.                                       *)
Tells(items, v, w, i) ==
  OrderedBefore(items[i], v[i], w[i]) \/ OrderedBefore(items[i], w[i], v[i])

(* p and q rank v and w: where the i-th of them can be compared.             *)
RankedBy(items, v, w, p, q) ==
  \A i \in DOMAIN items : Comparable(v[i], w[i]) =>
    /\ p[i] < q[i] <=> OrderedBefore(items[i], v[i], w[i])
    /\ q[i] < p[i] <=> OrderedBefore(items[i], w[i], v[i])

(* Of the items that tell v from w there is a first, and it can compare them.*)
LEMMA FirstThatTells ==
  ASSUME NEW m \in Nat, NEW items, DOMAIN items = 1..m, NEW v, NEW w,
         CanBeCompared(items, v, w)
  PROVE  /\ \A i \in 1..m : Tells(items, v, w, i) =>
              \E k \in 1..i : Tells(items, v, w, k) /\ \A j \in 1..(k - 1) : ~Tells(items, v, w, j)
         /\ \A i \in 1..m : (\A j \in 1..(i - 1) : ~Tells(items, v, w, j)) =>
              \A j \in 1..i : Comparable(v[j], w[j])
<1>1. ASSUME NEW i \in 1..m, Tells(items, v, w, i)
      PROVE  \E k \in 1..i : Tells(items, v, w, k) /\ \A j \in 1..(k - 1) : ~Tells(items, v, w, j)
  <2> DEFINE T == {j \in 1..i : Tells(items, v, w, j)}
  <2>1. T \in SUBSET Nat /\ T # {}
    BY <1>1
  <2>2. PICK k \in T : \A j \in T : k <= j
    BY <2>1, LeastNumber
  <2>3. k \in 1..i /\ Tells(items, v, w, k) /\ \A j \in 1..(k - 1) : j \in 1..i /\ ~(k <= j)
    BY <2>2
  <2>4. \A j \in 1..(k - 1) : ~Tells(items, v, w, j)
    BY <2>2, <2>3
  <2> QED BY <2>3, <2>4
<1>2. ASSUME NEW i \in 1..m, \A j \in 1..(i - 1) : ~Tells(items, v, w, j), NEW j \in 1..i
      PROVE  Comparable(v[j], w[j])
  <2>1. j \in 1..m /\ \A k \in 1..(j - 1) : k \in 1..(i - 1)
    OBVIOUS
  <2>2. Comparable(v[j], w[j]) \/ Decided(items, v, w, j)
    BY <2>1 DEF CanBeCompared
  <2> QED BY <1>2, <2>1, <2>2 DEF Decided, Tells
<1> QED BY <1>1, <1>2

(* Values go first where their ranks do.                                     *)
LEMMA GoesFirstByRank ==
  ASSUME NEW m \in Nat, NEW items, DOMAIN items = 1..m, NEW v, NEW w,
         CanBeCompared(items, v, w),
         NEW p \in [1..m -> Int], NEW q \in [1..m -> Int], RankedBy(items, v, w, p, q)
  PROVE  GoesFirst(items, v, w) <=> Precedes(p, q)
<1>0. ASSUME NEW k \in 1..m, \A j \in 1..(k - 1) : ~Tells(items, v, w, j)
      PROVE  /\ p[k] < q[k] <=> OrderedBefore(items[k], v[k], w[k])
             /\ q[k] < p[k] <=> OrderedBefore(items[k], w[k], v[k])
             /\ \A j \in 1..(k - 1) : p[j] = q[j]
  <2>0. \A j \in 1..k : Comparable(v[j], w[j])
    BY <1>0, FirstThatTells
  <2>1. \A j \in 1..k : j \in 1..m /\ Comparable(v[j], w[j])
    BY <2>0
  <2>2. \A j \in 1..k : /\ p[j] < q[j] <=> OrderedBefore(items[j], v[j], w[j])
                        /\ q[j] < p[j] <=> OrderedBefore(items[j], w[j], v[j])
                        /\ p[j] \in Int /\ q[j] \in Int
    BY <2>1 DEF RankedBy
  <2>3. ASSUME NEW j \in 1..(k - 1) PROVE p[j] = q[j]
    <3>1. j \in 1..k /\ ~(p[j] < q[j]) /\ ~(q[j] < p[j])
      BY <1>0, <2>2 DEF Tells
    <3> QED BY <2>2, <3>1
  <2> QED BY <2>2, <2>3
<1>1. ASSUME GoesFirst(items, v, w) PROVE Precedes(p, q)
  <2>1. PICK i \in 1..m : /\ OrderedBefore(items[i], v[i], w[i])
                          /\ \A j \in 1..(i - 1) : ~OrderedBefore(items[j], w[j], v[j])
    BY <1>1 DEF GoesFirst
  <2>2. PICK k \in 1..i : Tells(items, v, w, k) /\ \A j \in 1..(k - 1) : ~Tells(items, v, w, j)
    BY <2>1, FirstThatTells DEF Tells
  <2>3. OrderedBefore(items[k], v[k], w[k])
    <3>1. CASE k = i
      BY <2>1, <3>1
    <3>2. CASE k # i
      <4>1. k \in 1..(i - 1)
        BY <3>2
      <4> QED BY <2>1, <2>2, <4>1 DEF Tells
    <3> QED BY <3>1, <3>2
  <2>4. k \in 1..m /\ p[k] < q[k] /\ \A j \in 1..(k - 1) : p[j] = q[j]
    BY <1>0, <2>2, <2>3
  <2> QED BY <2>4 DEF Precedes
<1>2. ASSUME Precedes(p, q) PROVE GoesFirst(items, v, w)
  <2>1. PICK i \in 1..m : p[i] < q[i] /\ \A j \in 1..(i - 1) : p[j] = q[j]
    BY <1>2 DEF Precedes
  <2>2. ASSUME NEW j \in 1..(i - 1), Tells(items, v, w, j) PROVE FALSE
    <3>0. j \in 1..m
      OBVIOUS
    <3>1. PICK k \in 1..j : Tells(items, v, w, k) /\ \A h \in 1..(k - 1) : ~Tells(items, v, w, h)
      BY <2>2, <3>0, FirstThatTells
    <3>2. k \in 1..m /\ k \in 1..(i - 1)
      OBVIOUS
    <3>3. p[k] < q[k] \/ q[k] < p[k]
      BY <1>0, <3>1, <3>2 DEF Tells
    <3> QED BY <2>1, <3>2, <3>3
  <2>3. OrderedBefore(items[i], v[i], w[i])
    BY <1>0, <2>1, <2>2
  <2>4. \A j \in 1..(i - 1) : ~OrderedBefore(items[j], w[j], v[j])
    BY <2>2 DEF Tells
  <2> QED BY <2>3, <2>4 DEF GoesFirst
<1> QED BY <1>1, <1>2

(* Precedes is a strict order of the sequences of one length.                *)
LEMMA PrecedesOrders ==
  ASSUME NEW m \in Nat, NEW p \in [1..m -> Int], NEW q \in [1..m -> Int]
  PROVE  /\ ~Precedes(p, p)
         /\ ~(Precedes(p, q) /\ Precedes(q, p))
         /\ Precedes(p, q) \/ p = q \/ Precedes(q, p)
         /\ \A r \in [1..m -> Int] : Precedes(p, q) /\ Precedes(q, r) => Precedes(p, r)
<1>1. ASSUME Precedes(p, q), NEW r \in [1..m -> Int], Precedes(q, r)
      PROVE  Precedes(p, r)
  <2>1. PICK i \in 1..m : p[i] < q[i] /\ \A j \in 1..(i - 1) : p[j] = q[j]
    BY <1>1 DEF Precedes
  <2>2. PICK k \in 1..m : q[k] < r[k] /\ \A j \in 1..(k - 1) : q[j] = r[j]
    BY <1>1 DEF Precedes
  <2>3. CASE i <= k
    <3>1. p[i] < r[i]
      <4>1. p[i] \in Int /\ q[i] \in Int /\ r[i] \in Int
        OBVIOUS
      <4>2. i = k \/ i \in 1..(k - 1)
        BY <2>3
      <4> QED BY <2>1, <2>2, <4>1, <4>2
    <3>2. ASSUME NEW j \in 1..(i - 1) PROVE p[j] = r[j]
      <4>1. j \in 1..(k - 1)
        BY <2>3
      <4> QED BY <2>1, <2>2, <4>1
    <3> QED BY <3>1, <3>2 DEF Precedes
  <2>4. CASE k < i
    <3>1. k \in 1..(i - 1) /\ \A j \in 1..(k - 1) : j \in 1..(i - 1)
      BY <2>4
    <3>2. p[k] < r[k] /\ \A j \in 1..(k - 1) : p[j] = r[j]
      BY <2>1, <2>2, <3>1
    <3> QED BY <3>2 DEF Precedes
  <2> QED BY <2>3, <2>4
<1>2. ASSUME NEW r \in [1..m -> Int], Precedes(r, r) PROVE FALSE
  <2>1. PICK i \in 1..m : r[i] < r[i] /\ r[i] \in Int
    BY <1>2 DEF Precedes
  <2> QED BY <2>1
<1>3. ASSUME p # q PROVE Precedes(p, q) \/ Precedes(q, p)
  <2> DEFINE T == {j \in 1..m : p[j] # q[j]}
  <2>1. T \in SUBSET Nat /\ T # {}
    BY <1>3
  <2>2. PICK k \in T : \A j \in T : k <= j
    BY <2>1, LeastNumber
  <2>3. \A j \in 1..(k - 1) : j \in 1..m /\ ~(k <= j)
    BY <2>2
  <2>4. \A j \in 1..(k - 1) : p[j] = q[j]
    BY <2>2, <2>3
  <2>5. k \in 1..m /\ (p[k] < q[k] \/ q[k] < p[k])
    BY <2>2
  <2> QED BY <2>4, <2>5 DEF Precedes
<1> QED BY <1>1, <1>2, <1>3

(* A value does not go before itself.                                        *)
LEMMA NoneBeforeItself ==
  ASSUME NEW items, NEW v
  PROVE  ~GoesFirst(items, v, v)
<1>1. \A x : ~Smaller(x, x)
  BY SmallerOrders
<1>2. \A item, x : ~OrderedBefore(item, x, x)
  BY <1>1 DEF OrderedBefore
<1> QED BY <1>2 DEF GoesFirst

(* One position is before another by the ranks, and then by the positions.   *)
RanksBefore(R, q, r) == Precedes(R[q], R[r]) \/ (R[q] = R[r] /\ q < r)

(* This is a strict order of the positions.                                  *)
LEMMA RanksOrder ==
  ASSUME NEW m \in Nat, NEW n \in Nat, NEW R \in [1..n -> [1..m -> Int]]
  PROVE  \A i, j \in 1..n :
           /\ ~RanksBefore(R, i, i)
           /\ i # j => RanksBefore(R, i, j) \/ RanksBefore(R, j, i)
           /\ \A k \in 1..n : RanksBefore(R, i, j) /\ RanksBefore(R, j, k) => RanksBefore(R, i, k)
<1>1. ASSUME NEW i \in 1..n, NEW j \in 1..n
      PROVE  /\ ~RanksBefore(R, i, i)
             /\ i # j => RanksBefore(R, i, j) \/ RanksBefore(R, j, i)
  <2>1. R[i] \in [1..m -> Int] /\ R[j] \in [1..m -> Int]
    OBVIOUS
  <2>2. ~Precedes(R[i], R[i]) /\ (Precedes(R[i], R[j]) \/ R[i] = R[j] \/ Precedes(R[j], R[i]))
    BY <2>1, PrecedesOrders
  <2>3. ~(i < i) /\ (i # j => i < j \/ j < i)
    OBVIOUS
  <2>4. ~RanksBefore(R, i, i)
    BY <2>2, <2>3, Zenon DEF RanksBefore
  <2>5. ASSUME i < j, R[i] = R[j] PROVE RanksBefore(R, i, j)
    BY <2>5, Zenon DEF RanksBefore
  <2>6. ASSUME j < i, R[i] = R[j] PROVE RanksBefore(R, j, i)
    <3>1. R[j] = R[i]
      BY <2>6
    <3> QED BY <2>6, <3>1, Zenon DEF RanksBefore
  <2>7. Precedes(R[i], R[j]) => RanksBefore(R, i, j)
    BY Zenon DEF RanksBefore
  <2>8. Precedes(R[j], R[i]) => RanksBefore(R, j, i)
    BY Zenon DEF RanksBefore
  <2> QED BY <2>2, <2>3, <2>4, <2>5, <2>6, <2>7, <2>8, Zenon
<1>2. ASSUME NEW i \in 1..n, NEW j \in 1..n, NEW k \in 1..n,
             RanksBefore(R, i, j), RanksBefore(R, j, k)
      PROVE  RanksBefore(R, i, k)
  <2>1. R[i] \in [1..m -> Int] /\ R[j] \in [1..m -> Int] /\ R[k] \in [1..m -> Int]
    OBVIOUS
  <2>2. Precedes(R[i], R[j]) /\ Precedes(R[j], R[k]) => Precedes(R[i], R[k])
    <3>1. \A r \in [1..m -> Int] :
            Precedes(R[i], R[j]) /\ Precedes(R[j], r) => Precedes(R[i], r)
      BY <2>1, PrecedesOrders, Zenon
    <3> QED BY <2>1, <3>1, Zenon
  <2>3. i < j /\ j < k => i < k
    OBVIOUS
  <2> QED BY <1>2, <2>2, <2>3 DEF RanksBefore
<1> QED BY <1>1, <1>2

IsRanked(n, R, p) ==
  /\ p \in [1..n -> 1..n]
  /\ \A k \in 1..n : \E i \in 1..n : p[i] = k
  /\ \A i, j \in 1..n : i < j => RanksBefore(R, p[i], p[j])

(* The sorted positions are all of them, in the order of the ranks.          *)
LEMMA SortedByRank ==
  ASSUME NEW m \in Nat, NEW n \in Nat, NEW items, DOMAIN items = 1..m,
         NEW values, DOMAIN values = 1..n, Len(values) = n, CanBeSorted(items, values),
         NEW R \in [1..n -> [1..m -> Int]],
         \A q, r \in 1..n : RankedBy(items, values[q], values[r], R[q], R[r])
  PROVE  IsRanked(n, R, SortedPositions(items, values))
<1> DEFINE ComesFirst(q, r) == \/ GoesFirst(items, values[q], values[r])
                               \/ q < r /\ ~GoesFirst(items, values[r], values[q])
           before == {pair \in (1..n) \X (1..n) : ComesFirst(pair[1], pair[2])}
           p == SortedPositions(items, values)
<1>1. p = Sorted(n, before)
  BY DEF SortedPositions
<1>2. ASSUME NEW q \in 1..n, NEW r \in 1..n
      PROVE  <<q, r>> \in before <=> RanksBefore(R, q, r)
  <2>1. <<q, r>> \in before <=> ComesFirst(q, r)
    OBVIOUS
  <2>2. CASE q = r
    <3>1. ~GoesFirst(items, values[q], values[r]) /\ ~(q < r)
      BY <2>2, NoneBeforeItself
    <3>2. ~RanksBefore(R, q, r)
      BY <2>2, RanksOrder
    <3> QED BY <2>1, <3>1, <3>2
  <2>3. CASE q # r
    <3>1. /\ CanBeCompared(items, values[q], values[r]) /\ CanBeCompared(items, values[r], values[q])
          /\ RankedBy(items, values[q], values[r], R[q], R[r])
          /\ RankedBy(items, values[r], values[q], R[r], R[q])
          /\ R[q] \in [1..m -> Int] /\ R[r] \in [1..m -> Int]
      BY <2>3 DEF CanBeSorted
    <3>2. GoesFirst(items, values[q], values[r]) <=> Precedes(R[q], R[r])
      BY <3>1, GoesFirstByRank
    <3>3. GoesFirst(items, values[r], values[q]) <=> Precedes(R[r], R[q])
      BY <3>1, GoesFirstByRank
    <3>4. /\ Precedes(R[q], R[r]) \/ R[q] = R[r] \/ Precedes(R[r], R[q])
          /\ ~(Precedes(R[q], R[r]) /\ Precedes(R[r], R[q]))
          /\ ~Precedes(R[q], R[q])
      BY <3>1, PrecedesOrders
    <3>5. Precedes(R[q], R[r]) => ~Precedes(R[r], R[q]) /\ R[q] # R[r]
      BY <3>4, Zenon
    <3>6. ~Precedes(R[r], R[q]) <=> Precedes(R[q], R[r]) \/ R[q] = R[r]
      <4>1. R[q] = R[r] => ~Precedes(R[r], R[q])
        BY <3>4, Zenon
      <4> QED BY <3>4, <4>1, Zenon
    <3>7. ComesFirst(q, r) <=> Precedes(R[q], R[r]) \/ (R[q] = R[r] /\ q < r)
      <4>1. ComesFirst(q, r) <=> \/ GoesFirst(items, values[q], values[r])
                                 \/ q < r /\ ~GoesFirst(items, values[r], values[q])
        BY Zenon
      <4>2. ~GoesFirst(items, values[r], values[q]) <=> Precedes(R[q], R[r]) \/ R[q] = R[r]
        BY <3>3, <3>6, Zenon
      <4> HIDE DEF ComesFirst
      <4> QED BY <3>2, <4>1, <4>2, Zenon
    <3> QED BY <2>1, <3>7, Zenon DEF RanksBefore
  <2> QED BY <2>2, <2>3
<1> HIDE DEF before
<1>3. IsStrictOrder(n, before)
  <2>1. ASSUME NEW i \in 1..n, NEW j \in 1..n
        PROVE  <<i, i>> \notin before /\ (i # j => <<i, j>> \in before \/ <<j, i>> \in before)
    BY <1>2, RanksOrder, Zenon
  <2>2. ASSUME NEW i \in 1..n, NEW j \in 1..n, NEW k \in 1..n,
               <<i, j>> \in before, <<j, k>> \in before
        PROVE  <<i, k>> \in before
    BY <1>2, <2>2, RanksOrder, Zenon
  <2> QED BY <2>1, <2>2 DEF IsStrictOrder
<1>4. /\ p \in [1..n -> 1..n]
      /\ \A k \in 1..n : \E i \in 1..n : p[i] = k
      /\ \A i, j \in 1..n : i < j => <<p[i], p[j]>> \in before
  <2> HIDE DEF p
  <2>1. IsSortedBy(n, before, Sorted(n, before))
    BY <1>3, SortedSorts
  <2> QED BY <1>1, <2>1 DEF IsSortedBy
<1> HIDE DEF p
<1>5. \A i, j \in 1..n : i < j => RanksBefore(R, p[i], p[j])
  BY <1>2, <1>4
<1> QED BY <1>4, <1>5 DEF p, IsRanked

(* The values that the records are ordered by, item by item.                 *)
ColumnIn(values, i) == {v[i] : v \in ToSet(values)}

RankRow(items, values, r) ==
  Listed([i \in DOMAIN items |-> RankOf(items[i], values[r][i], ColumnIn(values, i))])

(* They are finitely many.                                                   *)
LEMMA ColumnFinite ==
  ASSUME NEW n \in Nat, NEW values, DOMAIN values = 1..n, NEW i
  PROVE  /\ IsFiniteSet(ColumnIn(values, i))
         /\ \A r \in 1..n : values[r][i] \in ColumnIn(values, i)
<1> DEFINE f == [r \in 1..n |-> values[r][i]]
<1>1. \A r \in 1..n : values[r][i] \in ColumnIn(values, i)
  BY DEF ColumnIn, ToSet
<1>2. \A x \in ColumnIn(values, i) : \E r \in 1..n : values[r][i] = x
  BY DEF ColumnIn, ToSet
<1>3. f \in Surjection(1..n, ColumnIn(values, i))
  <2>1. f \in [1..n -> ColumnIn(values, i)]
    BY <1>1
  <2>2. \A x \in ColumnIn(values, i) : \E r \in 1..n : f[r] = x
    BY <1>2
  <2> HIDE DEF f, ColumnIn
  <2> QED BY <2>1, <2>2 DEF Surjection
<1>4. IsFiniteSet(1..n)
  BY FS_Interval
<1>5. IsFiniteSet(ColumnIn(values, i))
  BY <1>3, <1>4, FS_Surjection
<1> QED BY <1>1, <1>5

IsRankRow(m, items, values, r) ==
  /\ RankRow(items, values, r) \in [1..m -> Int]
  /\ \A i \in 1..m :
       RankRow(items, values, r)[i] = RankOf(items[i], values[r][i], ColumnIn(values, i))

(* A row of ranks has a number for each item.                                *)
LEMMA RankRowIs ==
  ASSUME NEW m \in Nat, NEW n \in Nat, NEW items, DOMAIN items = 1..m,
         NEW values, DOMAIN values = 1..n, NEW r \in 1..n
  PROVE  IsRankRow(m, items, values, r)
<1> DEFINE row == [i \in 1..m |-> RankOf(items[i], values[r][i], ColumnIn(values, i))]
<1>1. \A i \in 1..m : RankOf(items[i], values[r][i], ColumnIn(values, i)) \in Int
  BY ColumnFinite, RankIsNumber
<1>2. row \in [1..m -> Int]
  BY <1>1
<1>3. RankRow(items, values, r) = Listed(row)
  BY DEF RankRow
<1>4. \A i \in 1..m : row[i] = RankOf(items[i], values[r][i], ColumnIn(values, i))
  OBVIOUS
<1> HIDE DEF row
<1>5. Listed(row) = row
  BY <1>2, ListedIsItself
<1> QED BY <1>2, <1>3, <1>4, <1>5 DEF IsRankRow

(* The rows of ranks rank the values of the records.                         *)
LEMMA RankRowsRank ==
  ASSUME NEW m \in Nat, NEW n \in Nat, NEW items, DOMAIN items = 1..m,
         \A i \in 1..m : IsOrderItem(items[i]),
         NEW values, DOMAIN values = 1..n, NEW q \in 1..n, NEW r \in 1..n
  PROVE  RankedBy(items, values[q], values[r], RankRow(items, values, q), RankRow(items, values, r))
<1>1. ASSUME NEW i \in 1..m, Comparable(values[q][i], values[r][i])
      PROVE  /\ RankRow(items, values, q)[i] < RankRow(items, values, r)[i]
                  <=> OrderedBefore(items[i], values[q][i], values[r][i])
             /\ RankRow(items, values, r)[i] < RankRow(items, values, q)[i]
                  <=> OrderedBefore(items[i], values[r][i], values[q][i])
  <2> DEFINE v == values[q][i]
             w == values[r][i]
             column == ColumnIn(values, i)
  <2>1. IsFiniteSet(column) /\ v \in column /\ w \in column
    BY ColumnFinite
  <2>2. Comparable(v, w) /\ Comparable(w, v)
    BY <1>1 DEF Comparable, AreNumbers, AreTexts, AreBooleans
  <2>3. /\ RankRow(items, values, q)[i] = RankOf(items[i], v, column)
        /\ RankRow(items, values, r)[i] = RankOf(items[i], w, column)
    <3>1. RankRow(items, values, q)[i] = RankOf(items[i], v, column)
      <4>1. IsRankRow(m, items, values, q)
        BY RankRowIs
      <4> QED BY <4>1 DEF IsRankRow
    <3>2. RankRow(items, values, r)[i] = RankOf(items[i], w, column)
      <4>1. IsRankRow(m, items, values, r)
        BY RankRowIs
      <4> QED BY <4>1 DEF IsRankRow
    <3> QED BY <3>1, <3>2
  <2> HIDE DEF v, w, column
  <2>4. /\ RankOf(items[i], v, column) < RankOf(items[i], w, column) <=> OrderedBefore(items[i], v, w)
        /\ RankOf(items[i], w, column) < RankOf(items[i], v, column) <=> OrderedBefore(items[i], w, v)
    BY <2>1, <2>2, RanksAgree
  <2> QED BY <2>3, <2>4 DEF v, w
<1> QED BY <1>1 DEF RankedBy

GoUp(n, items, order, sorted) ==
  /\ order \in [1..n -> 1..n]
  /\ \A k \in 1..n : \E i \in 1..n : order[i] = k
  /\ \A i, j \in 1..n : i < j =>
       \/ Precedes(RankRow(items, sorted, i), RankRow(items, sorted, j))
       \/ /\ RankRow(items, sorted, i) = RankRow(items, sorted, j)
          /\ order[i] < order[j]

(* Rearranged by the sorted positions the values go up by their ranks, and   *)
(* where these are equal by the positions that they had.                     *)
LEMMA SortedGoUp ==
  ASSUME NEW m \in Nat, NEW n \in Nat, NEW items, DOMAIN items = 1..m,
         \A i \in 1..m : IsOrderItem(items[i]),
         NEW values, DOMAIN values = 1..n, Len(values) = n, CanBeSorted(items, values),
         NEW order, order = SortedPositions(items, values),
         NEW sorted, DOMAIN sorted = 1..n, \A i \in 1..n : sorted[i] = values[order[i]]
  PROVE  GoUp(n, items, order, sorted)
<1> DEFINE R == [r \in 1..n |-> RankRow(items, values, r)]
<1>1. R \in [1..n -> [1..m -> Int]]
  <2>1. \A r \in 1..n : IsRankRow(m, items, values, r)
    BY RankRowIs
  <2> QED BY <2>1 DEF IsRankRow
<1>2. \A r \in 1..n : R[r] = RankRow(items, values, r)
  OBVIOUS
<1> HIDE DEF R
<1>3. \A q, r \in 1..n : RankedBy(items, values[q], values[r], R[q], R[r])
  BY <1>2, RankRowsRank
<1>4. /\ order \in [1..n -> 1..n]
      /\ \A k \in 1..n : \E i \in 1..n : order[i] = k
      /\ \A i, j \in 1..n : i < j => RanksBefore(R, order[i], order[j])
  <2>1. IsRanked(n, R, SortedPositions(items, values))
    BY <1>1, <1>3, SortedByRank
  <2> QED BY <2>1 DEF IsRanked
<1>5. ToSet(sorted) = ToSet(values)
  BY <1>4 DEF ToSet
<1>6. ASSUME NEW r \in 1..n PROVE RankRow(items, sorted, r) = R[order[r]]
  <2>1. order[r] \in 1..n /\ sorted[r] = values[order[r]]
    BY <1>4
  <2>2. RankRow(items, sorted, r) = RankRow(items, values, order[r])
    BY <1>5, <2>1 DEF RankRow, ColumnIn
  <2> QED BY <1>2, <2>1, <2>2
<1>7. ASSUME NEW i \in 1..n, NEW j \in 1..n, i < j
      PROVE  \/ Precedes(RankRow(items, sorted, i), RankRow(items, sorted, j))
             \/ /\ RankRow(items, sorted, i) = RankRow(items, sorted, j)
                /\ order[i] < order[j]
  <2>1. RanksBefore(R, order[i], order[j])
    BY <1>4, <1>7
  <2>2. /\ RankRow(items, sorted, i) = R[order[i]]
        /\ RankRow(items, sorted, j) = R[order[j]]
    BY <1>6
  <2> QED BY <2>1, <2>2 DEF RanksBefore
<1> QED BY <1>4, <1>7 DEF GoUp

(* The sources of the records are each one of them once.                     *)
LEMMA SourcesDiffer ==
  ASSUME RowsInv, NEW s \in Selects, RelationsExist(s)
  PROVE  LET sources == Sources(s, FilteredRows(s))
         IN  IsList(sources) /\ \A i, j \in DOMAIN sources : sources[i] = sources[j] => i = j
<1> DEFINE F == FilteredRows(s)
           sources == Sources(s, F)
<1>1. F \in Seq(Seq(Nat)) /\ InOrderOf(Earlier, F)
  BY FilteredRowsOK
<1>2. \A i, j \in DOMAIN F : F[i] = F[j] => i = j
  BY <1>1, RowsDiffer
<1>3. Len(F) \in Nat /\ DOMAIN F = 1..Len(F)
  BY <1>1, LenProperties
<1> HIDE DEF F
<1>4. CASE ~IsGrouped(s)
  <2> DEFINE ones == [i \in 1..Len(F) |-> <<F[i]>>]
  <2>1. ones \in [1..Len(F) -> {<<F[i]>> : i \in 1..Len(F)}]
    OBVIOUS
  <2>2. sources = Listed(ones)
    BY <1>3, <1>4 DEF Sources
  <2>3. \A i, j \in 1..Len(F) : ones[i] = ones[j] => F[i] = F[j]
    OBVIOUS
  <2>4. DOMAIN ones = 1..Len(F)
    OBVIOUS
  <2> HIDE DEF ones
  <2>5. Listed(ones) = ones /\ ones \in Seq({<<F[i]>> : i \in 1..Len(F)})
    BY <1>3, <2>1, ListedIsItself
  <2>6. IsList(ones)
    BY <2>5, ListIsList
  <2> QED BY <1>2, <1>3, <2>2, <2>3, <2>4, <2>5, <2>6 DEF sources, F
<1>5. CASE IsGrouped(s) /\ GroupColumns(s) # <<>>
  <2>1. GroupsOK(s, Seq(Nat), F, Len(F), BuildGroups(s, F))
    BY <1>1, <1>5, BuildGroupsOK
  <2>2. sources \in Seq(Seq(Seq(Nat))) /\ KeysDiffer(s, sources)
    BY <1>5, <2>1 DEF Sources, GroupsOK
  <2>3. IsList(sources)
    BY <2>2, ListIsList
  <2> QED BY <2>2, <2>3 DEF KeysDiffer, F
<1>6. CASE IsGrouped(s) /\ GroupColumns(s) = <<>>
  <2>1. sources = <<F>> \/ sources = <<>>
    BY <1>6 DEF Sources, BuildGroups
  <2>2. sources \in Seq(Seq(Seq(Nat))) /\ \A i, j \in DOMAIN sources : i = j
    <3>1. <<F>> \in Seq(Seq(Seq(Nat))) /\ \A i, j \in DOMAIN <<F>> : i = j
      BY <1>1
    <3>2. <<>> \in Seq(Seq(Seq(Nat))) /\ \A i, j \in DOMAIN <<>> : i = j
      OBVIOUS
    <3> HIDE DEF sources
    <3> QED BY <2>1, <3>1, <3>2
  <2>3. IsList(sources)
    BY <2>2, ListIsList
  <2> QED BY <2>2, <2>3 DEF F
<1> QED BY <1>4, <1>5, <1>6

(* No two records have one source.                                           *)
LEMMA RecordsDiffer ==
  ASSUME RowsInv, NEW s \in Selects, RelationsExist(s)
  PROVE  IsList(Records(s)) /\ \A i, j \in DOMAIN Records(s) : Records(s)[i] = Records(s)[j] => i = j
<1> DEFINE sources == Sources(s, FilteredRows(s))
           n == Len(sources)
           records == [i \in 1..n |-> Projected(s, sources[i])]
           W == {Projected(s, sources[i]) : i \in 1..n}
<1>1. IsList(sources) /\ \A i, j \in DOMAIN sources : sources[i] = sources[j] => i = j
  BY SourcesDiffer
<1>2. n \in Nat /\ DOMAIN sources = 1..n
  BY <1>1, IsListSays
<1>3. Records(s) = Listed(records)
  BY <1>2 DEF Records, Project
<1> HIDE DEF sources
<1>4. records \in [1..n -> W] /\ DOMAIN records = 1..n
  OBVIOUS
<1>5. \A i \in 1..n : records[i].source = sources[i]
  BY DEF Projected
<1> HIDE DEF records, W, n
<1>6. Listed(records) = records /\ records \in Seq(W)
  BY <1>2, <1>4, ListedIsItself
<1>7. IsList(records)
  BY <1>6, ListIsList
<1>8. \A i, j \in 1..n : records[i] = records[j] => i = j
  BY <1>1, <1>2, <1>5
<1> QED BY <1>3, <1>4, <1>6, <1>7, <1>8

OrderKey(s, record) ==
  LET places == Listed([i \in DOMAIN s.orderBy[1] |->
                          OrderPlaces(s, s.orderBy[1][i].expression)])
      ValueOf(i) == OrderValue(s, s.orderBy[1][i].expression, places[i], record)
  IN  Listed([i \in DOMAIN s.orderBy[1] |-> ValueOf(i)])

(* Each record has its values, wherever it is.                               *)
LEMMA OrderValuesAre ==
  ASSUME NEW s, NEW n \in Nat, NEW records, DOMAIN records = 1..n
  PROVE  LET values == OrderValues(s, records)
         IN  /\ DOMAIN values = 1..n /\ Len(values) = n
             /\ \A r \in 1..n : values[r] = OrderKey(s, records[r])
<1> DEFINE values == [r \in 1..n |-> OrderKey(s, records[r])]
           W == {OrderKey(s, records[r]) : r \in 1..n}
<1>1. OrderValues(s, records) = Listed(values)
  BY DEF OrderValues, OrderValuesAt, OrderKey
<1>2. values \in [1..n -> W] /\ DOMAIN values = 1..n
  OBVIOUS
<1>3. \A r \in 1..n : values[r] = OrderKey(s, records[r])
  OBVIOUS
<1> HIDE DEF values, W
<1>4. Listed(values) = values /\ Len(values) = n
  BY <1>2, ListedIsItself
<1> QED BY <1>1, <1>2, <1>3, <1>4

(* LIMIT takes the first of a list.                                          *)
LEMMA LimitedTakes ==
  ASSUME NEW s \in Selects, NEW W, NEW all \in Seq(W)
  PROVE  Limited(s, all) = SubSeq(all, 1, IF s.limit = Absent THEN Len(all)
                                          ELSE Min({s.limit[1], Len(all)}))
<1>1. Len(all) \in Nat
  BY LenProperties
<1>2. SubSeq(all, 1, Len(all)) = all
  <2> DEFINE n == Len(all)
             sub == SubSeq(all, 1, n)
  <2>1. sub \in Seq(W) /\ Len(sub) = Len(all) /\ \A i \in 1..Len(all) : sub[i] = all[i]
    BY <1>1, SubSeqProperties
  <2> HIDE DEF sub
  <2>2. sub = all
    BY <2>1, SeqEqual
  <2> QED BY <2>2 DEF sub
<1>3. CASE s.limit = Absent
  BY <1>2, <1>3 DEF Limited
<1>4. CASE s.limit # Absent
  <2> DEFINE k == s.limit[1]
  <2>1. k \in Nat
    BY <1>4, QueryAssumption
  <2> HIDE DEF k
  <2>2. Len(all) <= k => Min({k, Len(all)}) = Len(all)
    BY <1>1, <2>1 DEF Min
  <2>3. ~(Len(all) <= k) => Min({k, Len(all)}) = k
    BY <1>1, <2>1 DEF Min
  <2> QED BY <1>2, <1>4, <2>2, <2>3 DEF Limited, k
<1> QED BY <1>3, <1>4

PlaceIn(records, record) == CHOOSE i \in DOMAIN records : records[i] = record

IsOrdered(s, records, all) ==
  LET values == OrderValues(s, all)
      ranks == Listed([r \in DOMAIN values |-> RankRow(s.orderBy[1], values, r)])
      places == Listed([i \in DOMAIN all |-> PlaceIn(records, all[i])])
  IN  /\ \A i \in 2..Len(ranks) : \/ Precedes(ranks[i - 1], ranks[i])
                                  \/ ranks[i - 1] = ranks[i] /\ places[i - 1] < places[i]
      /\ ToSet(all) = ToSet(records)
      /\ Len(all) = Len(records)
      /\ Limited(s, all) = SubSeq(all, 1, IF s.limit = Absent THEN Len(all)
                                          ELSE Min({s.limit[1], Len(all)}))

(* An accepted ORDER BY puts the records in its order.                       *)
LEMMA OrderedOK ==
  ASSUME RowsInv, NEW s \in Accepted(OrderedSelects)
  PROVE  IsOrdered(s, Records(s), InOrder(s, Records(s)))
<1> DEFINE records == Records(s)
           items == s.orderBy[1]
           n == Len(records)
           m == Len(items)
           values == OrderValues(s, records)
           order == SortedPositions(items, values)
           moved == [i \in 1..n |-> records[order[i]]]
           all == InOrder(s, records)
           sorted == OrderValues(s, all)
           rankrows == [r \in 1..n |-> RankRow(items, sorted, r)]
           ranks == Listed([r \in DOMAIN sorted |-> RankRow(items, sorted, r)])
           placerow == [i \in 1..n |-> PlaceIn(records, all[i])]
           places == Listed([i \in DOMAIN all |-> PlaceIn(records, all[i])])
<1>1. s \in Selects /\ RelationsExist(s) /\ s.orderBy # Absent /\ RecordsAccepted(s, records)
  BY DEF Accepted, OrderedSelects, ValidSelects, StatementValid, RowsAccepted
<1>2. IsList(items) /\ m \in Nat /\ DOMAIN items = 1..m /\ \A i \in 1..m : IsOrderItem(items[i])
  <2>1. IsList(items) /\ \A item \in ToSet(items) : item.nulls \in {"default", "FIRST", "LAST"}
    BY <1>1, QueryAssumption
  <2>2. m \in Nat /\ DOMAIN items = 1..m
    BY <2>1, IsListSays
  <2> QED BY <2>1, <2>2 DEF IsOrderItem, ToSet
<1>3. /\ n \in Nat /\ DOMAIN records = 1..n /\ records \in Seq(ToSet(records))
      /\ \A i, j \in 1..n : records[i] = records[j] => i = j
  <2> HIDE DEF records
  <2>1. IsList(records) /\ \A i, j \in DOMAIN records : records[i] = records[j] => i = j
    BY <1>1, RecordsDiffer DEF records
  <2> QED BY <2>1, IsListSays
<1>4. CanBeSorted(items, values)
  <2>1. CASE records = <<>>
    <3>1. n = 0
      BY <2>1
    <3>2. DOMAIN values = 1..n
      BY <1>3, OrderValuesAre
    <3> HIDE DEF values, n
    <3> QED BY <3>1, <3>2 DEF CanBeSorted
  <2>2. CASE records # <<>>
    BY <1>1, <2>2 DEF RecordsAccepted
  <2> QED BY <2>1, <2>2
<1> HIDE DEF items, m, records, n
<1>5. /\ DOMAIN values = 1..n /\ Len(values) = n
      /\ \A r \in 1..n : values[r] = OrderKey(s, records[r])
  BY <1>3, OrderValuesAre
<1> HIDE DEF values
<1>6. order \in [1..n -> 1..n] /\ \A k \in 1..n : \E i \in 1..n : order[i] = k
  <2> DEFINE other == [i \in 1..n |-> values[order[i]]]
  <2>1. DOMAIN other = 1..n /\ \A i \in 1..n : other[i] = values[order[i]]
    OBVIOUS
  <2> HIDE DEF other
  <2>2. GoUp(n, items, order, other)
    BY <1>2, <1>3, <1>4, <1>5, <2>1, SortedGoUp
  <2> QED BY <2>2 DEF GoUp
<1>7. all = Listed(moved)
  BY <1>1, <1>6 DEF InOrder, SortProjected, Rearranged, items, values
<1>8. /\ all \in Seq(ToSet(records)) /\ Len(all) = n /\ DOMAIN all = 1..n
      /\ \A i \in 1..n : all[i] = records[order[i]]
  <2>1. moved \in [1..n -> ToSet(records)] /\ DOMAIN moved = 1..n
    BY <1>3, <1>6 DEF ToSet
  <2>2. \A i \in 1..n : moved[i] = records[order[i]]
    OBVIOUS
  <2> HIDE DEF moved
  <2>3. Listed(moved) = moved /\ moved \in Seq(ToSet(records)) /\ Len(moved) = n
    BY <1>3, <2>1, ListedIsItself
  <2> QED BY <1>7, <2>1, <2>2, <2>3
<1> HIDE DEF all, order
<1>9. /\ DOMAIN sorted = 1..n /\ Len(sorted) = n
      /\ \A r \in 1..n : sorted[r] = OrderKey(s, all[r])
  BY <1>3, <1>8, OrderValuesAre
<1> HIDE DEF sorted
<1>10. \A i \in 1..n : sorted[i] = values[order[i]]
  BY <1>5, <1>6, <1>8, <1>9
<1>11. GoUp(n, items, order, sorted)
  BY <1>2, <1>3, <1>4, <1>5, <1>9, <1>10, SortedGoUp DEF order
<1>12. Len(ranks) = n /\ \A r \in 1..n : ranks[r] = RankRow(items, sorted, r)
  <2>1. ranks = Listed(rankrows)
    BY <1>9
  <2>2. rankrows \in [1..n -> {RankRow(items, sorted, r) : r \in 1..n}]
    OBVIOUS
  <2>3. \A r \in 1..n : rankrows[r] = RankRow(items, sorted, r)
    OBVIOUS
  <2> HIDE DEF rankrows, ranks
  <2>4. Listed(rankrows) = rankrows /\ Len(rankrows) = n
    BY <1>3, <2>2, ListedIsItself
  <2> QED BY <2>1, <2>3, <2>4
<1>13. \A i \in 1..n : places[i] = order[i]
  <2>1. places = Listed(placerow)
    BY <1>8
  <2>2. ASSUME NEW i \in 1..n PROVE PlaceIn(records, all[i]) = order[i]
    <3>1. order[i] \in DOMAIN records /\ records[order[i]] = all[i]
      BY <1>3, <1>6, <1>8
    <3>2. \A k \in DOMAIN records : records[k] = all[i] => k = order[i]
      BY <1>3, <3>1
    <3> QED BY <3>1, <3>2 DEF PlaceIn
  <2>3. placerow \in [1..n -> 1..n] /\ \A i \in 1..n : placerow[i] = order[i]
    BY <1>6, <2>2
  <2> HIDE DEF placerow, places
  <2>4. Listed(placerow) = placerow
    BY <1>3, <2>3, ListedIsItself
  <2> QED BY <2>1, <2>3, <2>4
<1> HIDE DEF ranks, places
<1>14. ASSUME NEW i \in 2..Len(ranks)
       PROVE  \/ Precedes(ranks[i - 1], ranks[i])
              \/ ranks[i - 1] = ranks[i] /\ places[i - 1] < places[i]
  <2> DEFINE j == i - 1
  <2>1. i \in 1..n /\ j \in 1..n /\ j < i
    BY <1>3, <1>12
  <2> HIDE DEF j
  <2>2. \/ Precedes(ranks[j], ranks[i])
        \/ ranks[j] = ranks[i] /\ places[j] < places[i]
    <3>1. \/ Precedes(RankRow(items, sorted, j), RankRow(items, sorted, i))
          \/ /\ RankRow(items, sorted, j) = RankRow(items, sorted, i)
             /\ order[j] < order[i]
      BY <1>11, <2>1 DEF GoUp
    <3>2. /\ ranks[j] = RankRow(items, sorted, j) /\ ranks[i] = RankRow(items, sorted, i)
          /\ places[j] = order[j] /\ places[i] = order[i]
      BY <1>12, <1>13, <2>1
    <3> QED BY <3>1, <3>2
  <2> QED BY <2>2 DEF j
<1>15. ToSet(all) = ToSet(records)
  BY <1>3, <1>6, <1>8 DEF ToSet
<1>16. Limited(s, all) = SubSeq(all, 1, IF s.limit = Absent THEN Len(all)
                                         ELSE Min({s.limit[1], Len(all)}))
  BY <1>1, <1>8, LimitedTakes
<1>17. Len(all) = Len(records)
  BY <1>8 DEF n
<1> QED BY <1>14, <1>15, <1>16, <1>17 DEF IsOrdered, ranks, places, sorted, all, items, records

(* The result of a SELECT has the records that it has without ORDER BY and   *)
(* LIMIT, ranked by the items of ORDER BY, equal ones as they were, and as   *)
(* many of the first as LIMIT says.                                          *)
THEOREM OrderAlwaysRespected == Spec => []OrderIsRespected
<1>1. RowsInv => OrderIsRespected
  <2>1. ASSUME RowsInv, NEW s \in Accepted(OrderedSelects)
        PROVE  IsOrdered(s, Records(s), InOrder(s, Records(s)))
    BY <2>1, OrderedOK
  <2> QED BY <2>1 DEF OrderIsRespected, IsOrdered, RankRow, RankOf, Lower, ColumnIn,
                      NullsLast, PlaceIn, Result
<1> QED BY <1>1, AlwaysRowsInv, PTL
============================================================================
