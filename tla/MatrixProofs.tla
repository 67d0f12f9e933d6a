---------------------------- MODULE MatrixProofs ----------------------------
(***************************************************************************)
(* Matrices, for any files, blocks, threads, orderings and scalings: what  *)
(* is read is the matrix of the file, it stays sound whatever the calls,   *)
(* reordering is undone, what is derived from it says the same, and all    *)
(* calls act as those of a dense matrix (MatrixAssembly).  And, for any    *)
(* number of objects and memory blocks: their arrays are freed once        *)
(* (MatrixStorage).                                                        *)
(***************************************************************************)
EXTENDS MatrixAssembly, MatrixStorage, StoredMatrixProofs
-----------------------------------------------------------------------------
(***************************************************************************)
(* readMatrixMarket and getSRMatrixFromCOO.                                *)
(***************************************************************************)
IsFile(f) ==
  /\ f.n \in Nat \ {0}
  /\ f.entries \in Seq((1 .. f.n) \X (1 .. f.n) \X Scalars)
  /\ \A d, e \in DOMAIN f.entries :
       f.entries[d][1] = f.entries[e][1] /\ f.entries[d][2] = f.entries[e][2] => d = e

TripletsOf(n) == [row : Below(n), col : Below(n), val : Scalars]

LEMMA IndexedFacts ==
  ASSUME NEW f, IsFile(f)
  PROVE  /\ Indexed(f) \in Seq(TripletsOf(f.n)) /\ Len(Indexed(f)) = Len(f.entries)
         /\ \A p, q \in 1 .. Len(f.entries) :
              Indexed(f)[p].row = Indexed(f)[q].row /\ Indexed(f)[p].col = Indexed(f)[q].col => p = q
<1> DEFINE N == Len(f.entries)
           s == Indexed(f)
           e(q) == f.entries[q]
           T == (1 .. f.n) \X (1 .. f.n) \X Scalars
<1>1. N \in Nat /\ DOMAIN f.entries = 1 .. N /\ \A q \in 1 .. N : e(q) \in T
  <2>1. f.entries \in Seq(T) BY DEF IsFile
  <2> HIDE DEF T
  <2> QED BY <2>1
<1>2. \A q \in 1 .. N : s[q] = [row |-> e(q)[1] - 1, col |-> e(q)[2] - 1, val |-> e(q)[3]]
  BY DEF Indexed
<1>3. s = [q \in 1 .. N |-> s[q]] BY DEF Indexed
<1>4. f.n \in Nat BY DEF IsFile
<1>5. \A p, q \in 1 .. N : e(p)[1] = e(q)[1] /\ e(p)[2] = e(q)[2] => p = q
  BY <1>1 DEF IsFile
<1> HIDE DEF s, N, e
<1>6. \A q \in 1 .. N : e(q)[1] \in 1 .. f.n /\ e(q)[2] \in 1 .. f.n /\ e(q)[3] \in Scalars
  BY <1>1
<1>7. \A q \in 1 .. N : /\ s[q].row = e(q)[1] - 1 /\ s[q].col = e(q)[2] - 1
                        /\ s[q].row \in Below(f.n) /\ s[q].col \in Below(f.n)
                        /\ s[q] \in TripletsOf(f.n)
  <2> TAKE q \in 1 .. N
  <2> DEFINE a == e(q)[1] - 1  b == e(q)[2] - 1  c == e(q)[3]
  <2>1. a \in Below(f.n) /\ b \in Below(f.n) /\ c \in Scalars
    BY <1>4, <1>6 DEF Below
  <2>2. s[q] = [row |-> a, col |-> b, val |-> c] BY <1>2
  <2>3. s[q].row = a /\ s[q].col = b BY <2>2
  <2> HIDE DEF a, b, c
  <2>4. s[q] \in TripletsOf(f.n) BY <2>1, <2>2 DEF TripletsOf
  <2> QED BY <2>1, <2>3, <2>4 DEF a, b
<1>8. s \in Seq(TripletsOf(f.n)) /\ Len(s) = N
  <2> DEFINE U == TripletsOf(f.n)
  <2>1. \A q \in 1 .. N : s[q] \in U BY <1>7
  <2> HIDE DEF U
  <2> QED BY <1>1, <1>3, <2>1 DEF U
<1>9. ASSUME NEW p \in 1 .. N, NEW q \in 1 .. N, s[p].row = s[q].row, s[p].col = s[q].col
      PROVE  p = q
  <2>1. e(p)[1] - 1 = e(q)[1] - 1 /\ e(p)[2] - 1 = e(q)[2] - 1 BY <1>7, <1>9
  <2>2. \A a, b \in 1 .. f.n : a - 1 = b - 1 => a = b BY <1>4
  <2>3. e(p)[1] = e(q)[1] /\ e(p)[2] = e(q)[2] BY <1>6, <2>1, <2>2
  <2> QED BY <1>5, <2>3
<1> QED BY <1>8, <1>9 DEF s, N

LEMMA CountedFacts ==
  ASSUME NEW n \in Nat
  PROVE  IsFiniteSet(1 .. n) /\ Cardinality(1 .. n) = n
<1>1. n = 0 \/ n > 0 OBVIOUS
<1> QED BY <1>1, FS_Interval

\* The two sorts leave every triplet, once, and the rows ascend.
LEMMA SortedTriplets ==
  ASSUME NEW n \in Nat, NEW s \in Seq(TripletsOf(n))
  PROVE  /\ Sorted(s) \in Seq(TripletsOf(n)) /\ Len(Sorted(s)) = Len(s)
         /\ \E r \in [1 .. Len(s) -> 1 .. Len(s)] :
              /\ \A p, q \in 1 .. Len(s) : r[p] = r[q] => p = q
              /\ \A q \in 1 .. Len(s) : \E k \in 1 .. Len(s) : r[k] = q
              /\ \A k \in 1 .. Len(s) : Sorted(s)[k] = s[r[k]]
         /\ \A k, l \in 1 .. Len(s) : k <= l => Sorted(s)[k].row <= Sorted(s)[l].row
<1> DEFINE N == Len(s)
           D == 1 .. N
           B == {p \in D \X D : Before(s, p[1], p[2])}
           R(q) == Cardinality({p \in D : Before(s, p, q)})
           Q(k) == CHOOSE q \in D : R(q) = k - 1
           r == [k \in D |-> Q(k)]
           row == [q \in D |-> s[q].row]
           col == [q \in D |-> s[q].col]
<1>1. N \in Nat /\ DOMAIN s = D BY DEF D
<1>2. \A q \in D : s[q].row \in Int /\ s[q].col \in Int /\ s[q] \in TripletsOf(n)
  <2> TAKE q \in D
  <2>1. s[q] \in TripletsOf(n) OBVIOUS
  <2> QED BY <2>1 DEF TripletsOf, Below
<1>3. IsFiniteSet(D) /\ Cardinality(D) = N BY <1>1, CountedFacts
<1>4. \A p, q \in D : <<p, q>> \in B <=> Before(s, p, q) OBVIOUS
<1>5. D \subseteq Int OBVIOUS
<1>6. \A q \in D : row[q] \in Int /\ col[q] \in Int BY <1>2
<1> HIDE DEF B, D
<1>7. \A p, q \in D : <<p, q>> \in B <=> \/ row[p] < row[q]
                                         \/ row[p] = row[q] /\ col[p] < col[q]
                                         \/ row[p] = row[q] /\ col[p] = col[q] /\ p < q
  <2>1. \A q \in D : row[q] = s[q].row /\ col[q] = s[q].col OBVIOUS
  <2> HIDE DEF row, col
  <2> TAKE p, q \in D
  <2>2. /\ row[p] = s[p].row /\ row[q] = s[q].row /\ col[p] = s[p].col /\ col[q] = s[q].col
        /\ row[p] \in Int /\ row[q] \in Int /\ col[p] \in Int /\ col[q] \in Int
        /\ p \in Int /\ q \in Int
    BY <1>5, <1>6, <2>1
  <2>3. <<p, q>> \in B <=> Before(s, p, q) BY <1>4
  <2> QED BY <2>2, <2>3 DEF Before
<1> HIDE DEF row, col
<1>8. Orders(B, D)
  <2>1. \A x \in D : <<x, x>> \notin B BY <1>5, <1>6, <1>7
  <2>2. \A x, y \in D : x = y \/ <<x, y>> \in B \/ <<y, x>> \in B
    <3> TAKE x, y \in D
    <3>1. /\ row[x] \in Int /\ row[y] \in Int /\ col[x] \in Int /\ col[y] \in Int
          /\ x \in Int /\ y \in Int
      BY <1>5, <1>6
    <3>2. /\ row[x] < row[y] => <<x, y>> \in B
          /\ row[y] < row[x] => <<y, x>> \in B
      BY <1>7
    <3>3. row[x] = row[y] => /\ col[x] < col[y] => <<x, y>> \in B
                             /\ col[y] < col[x] => <<y, x>> \in B
      BY <1>7
    <3>4. row[x] = row[y] /\ col[x] = col[y] =>
            (x < y => <<x, y>> \in B) /\ (y < x => <<y, x>> \in B)
      BY <1>7
    <3>5. row[x] = row[y] \/ row[x] < row[y] \/ row[y] < row[x] BY <3>1
    <3>6. col[x] = col[y] \/ col[x] < col[y] \/ col[y] < col[x] BY <3>1
    <3>7. x = y \/ x < y \/ y < x BY <3>1
    <3>8. row[x] # row[y] => <<x, y>> \in B \/ <<y, x>> \in B BY <3>2, <3>5
    <3>9. row[x] = row[y] /\ col[x] # col[y] => <<x, y>> \in B \/ <<y, x>> \in B
      BY <3>3, <3>6
    <3>10. row[x] = row[y] /\ col[x] = col[y] => x = y \/ <<x, y>> \in B \/ <<y, x>> \in B
      BY <3>4, <3>7
    <3> QED BY <3>8, <3>9, <3>10
  <2>3. \A x, y, z \in D : <<x, y>> \in B /\ <<y, z>> \in B => <<x, z>> \in B
    <3> TAKE x, y, z \in D
    <3>1. /\ row[x] \in Int /\ row[y] \in Int /\ row[z] \in Int
          /\ col[x] \in Int /\ col[y] \in Int /\ col[z] \in Int
          /\ x \in Int /\ y \in Int /\ z \in Int
      BY <1>5, <1>6
    <3> DEFINE L(p, q) == \/ row[p] < row[q]
                          \/ row[p] = row[q] /\ col[p] < col[q]
                          \/ row[p] = row[q] /\ col[p] = col[q] /\ p < q
    <3>2. /\ <<x, y>> \in B <=> L(x, y)
          /\ <<y, z>> \in B <=> L(y, z)
          /\ <<x, z>> \in B <=> L(x, z)
      BY <1>7
    <3>3. L(x, y) /\ L(y, z) => L(x, z) BY <3>1
    <3> QED BY <3>2, <3>3
  <2> QED BY <2>1, <2>2, <2>3 DEF Orders
<1>9. \A q \in D : Earlier(D, B, q) = {p \in D : Before(s, p, q)}
  BY <1>4 DEF Earlier
<1>10. \A k \in 0 .. N - 1 : \E q \in D : R(q) = k
  <2>1. \A k \in 0 .. Cardinality(D) - 1 : \E q \in D : Cardinality(Earlier(D, B, q)) = k
    BY <1>3, <1>8, RankFacts
  <2> QED BY <1>3, <1>9, <2>1
<1>20. /\ \A q \in D : R(q) \in 0 .. N - 1
       /\ \A p, q \in D : <<p, q>> \in B => R(p) < R(q)
  <2>1. /\ \A x \in D : Cardinality(Earlier(D, B, x)) \in 0 .. Cardinality(D) - 1
        /\ \A x, y \in D :
             <<x, y>> \in B => Cardinality(Earlier(D, B, x)) < Cardinality(Earlier(D, B, y))
    BY <1>3, <1>8, RankFacts
  <2> QED BY <1>3, <1>9, <2>1
<1>11. Sorted(s) = [k \in D |-> s[r[k]]] BY <1>1 DEF Sorted
<1> HIDE DEF R
<1>12. \A k \in D : Q(k) = CHOOSE q \in D : R(q) = k - 1 OBVIOUS
<1> HIDE DEF Q
<1>13. \A k \in D : r[k] = Q(k) OBVIOUS
<1>14. \A k \in D : r[k] \in D /\ R(r[k]) = k - 1
  <2> TAKE k \in D
  <2>1. k - 1 \in 0 .. N - 1 BY <1>1 DEF D
  <2>2. \E q \in D : R(q) = k - 1 BY <1>10, <2>1
  <2> QED BY <1>12, <1>13, <2>2
<1>15. r \in [D -> D] BY <1>14
<1> HIDE DEF r
<1>16. ASSUME NEW p \in D, NEW q \in D, r[p] = r[q] PROVE p = q
  <2>1. p - 1 = q - 1 BY <1>14, <1>16
  <2> QED BY <1>5, <2>1
<1>17. \A k \in D : Sorted(s)[k] = s[r[k]] BY <1>11
<1>18. Sorted(s) \in Seq(TripletsOf(n)) /\ Len(Sorted(s)) = N
  BY <1>1, <1>2, <1>11, <1>14 DEF D
<1>21. ASSUME NEW q \in D PROVE \E k \in D : r[k] = q
  <2> DEFINE k == R(q) + 1
  <2>1. R(q) \in 0 .. N - 1 BY <1>20
  <2>2. k \in D /\ k - 1 = R(q) BY <1>1, <2>1 DEF D
  <2>3. r[k] \in D /\ R(r[k]) = R(q) BY <1>14, <2>2
  <2> HIDE DEF k
  <2>4. <<r[k], q>> \notin B /\ <<q, r[k]>> \notin B BY <1>20, <2>1, <2>3
  <2>5. r[k] = q BY <1>8, <2>3, <2>4 DEF Orders
  <2> QED BY <2>2, <2>5
<1>22. ASSUME NEW k \in D, NEW l \in D, k <= l PROVE Sorted(s)[k].row <= Sorted(s)[l].row
  <2>1. r[k] \in D /\ r[l] \in D /\ R(r[k]) = k - 1 /\ R(r[l]) = l - 1 BY <1>14
  <2>2. <<r[l], r[k]>> \notin B
    <3>1. k \in Int /\ l \in Int BY <1>5
    <3>2. ~(R(r[l]) < R(r[k])) BY <1>22, <2>1, <3>1
    <3> QED BY <1>20, <2>1, <3>2
  <2>3. ~(row[r[l]] < row[r[k]]) BY <1>7, <2>1, <2>2
  <2>4. row[r[k]] <= row[r[l]] BY <1>6, <2>1, <2>3
  <2>5. Sorted(s)[k] = s[r[k]] /\ Sorted(s)[l] = s[r[l]] BY <1>17
  <2> QED BY <2>1, <2>4, <2>5 DEF row
<1>19. \E h \in [D -> D] : /\ \A p, q \in D : h[p] = h[q] => p = q
                           /\ \A q \in D : \E k \in D : h[k] = q
                           /\ \A k \in D : Sorted(s)[k] = s[h[k]]
  BY <1>15, <1>16, <1>17, <1>21
<1> HIDE DEF row
<1> QED BY <1>18, <1>19, <1>22 DEF D

\* What the conversions start from: the triplets of a row are next to each
\* other, in no row a column is there twice.
IsCoo(coo) ==
  /\ coo.nrows \in Nat \ {0}
  /\ coo.entries \in Seq(TripletsOf(coo.nrows))
  /\ \A i \in 0 .. coo.nrows : coo.rowptr[i] \in 0 .. Len(coo.entries)
  /\ \A i \in Below(coo.nrows) :
       \A k, l \in coo.rowptr[i] + 1 .. coo.rowptr[i + 1] :
         coo.entries[k].col = coo.entries[l].col => k = l

\* Row i is where rowptr says.
Grouped(coo) ==
  /\ Pointers(coo.rowptr, coo.nrows) /\ coo.rowptr[coo.nrows] = Len(coo.entries)
  /\ \A i \in Below(coo.nrows) :
       \A k \in coo.rowptr[i] + 1 .. coo.rowptr[i + 1] : coo.entries[k].row = i

\* The triplets are the entries of the file.
IsTriplet(t, x) == t.row = x[1] - 1 /\ t.col = x[2] - 1 /\ t.val = x[3]
ReadFrom(coo, f) ==
  /\ \A k \in 1 .. Len(coo.entries) :
       \E e \in DOMAIN f.entries : IsTriplet(coo.entries[k], f.entries[e])
  /\ \A e \in DOMAIN f.entries :
       \E k \in 1 .. Len(coo.entries) : IsTriplet(coo.entries[k], f.entries[e])

LEMMA ReadFacts ==
  ASSUME NEW f, IsFile(f), Readable(f)
  PROVE  /\ IsCoo(ReadMatrixMarket(f)) /\ ReadMatrixMarket(f).nrows = f.n
         /\ Grouped(ReadMatrixMarket(f)) /\ ReadFrom(ReadMatrixMarket(f), f)
<1> DEFINE n == f.n
           t == Indexed(f)
           s == Sorted(t)
           N == Len(s)
           C == Changes(s)
           starts == {1} \cup C \cup {N + 1}
           h == Ordered(starts)
           coo == ReadMatrixMarket(f)
<1>1. n \in Nat \ {0} BY DEF IsFile
<1>2. /\ t \in Seq(TripletsOf(n)) /\ Len(t) = Len(f.entries)
      /\ \A p, q \in 1 .. Len(f.entries) : t[p].row = t[q].row /\ t[p].col = t[q].col => p = q
  BY IndexedFacts
<1> HIDE DEF t
<1>3. /\ s \in Seq(TripletsOf(n)) /\ Len(s) = Len(t)
      /\ \E r \in [1 .. Len(t) -> 1 .. Len(t)] :
              /\ \A p, q \in 1 .. Len(t) : r[p] = r[q] => p = q
              /\ \A q \in 1 .. Len(t) : \E k \in 1 .. Len(t) : r[k] = q
              /\ \A k \in 1 .. Len(t) : s[k] = t[r[k]]
      /\ \A k, l \in 1 .. Len(t) : k <= l => s[k].row <= s[l].row
  BY <1>1, <1>2, SortedTriplets
<1>4. f.entries # <<>> /\ Cardinality(C) + 1 = n BY DEF Readable, t
<1>17. \A q \in 1 .. Len(f.entries) : IsTriplet(t[q], f.entries[q])
  <2> TAKE q \in 1 .. Len(f.entries)
  <2>1. t[q] = [row |-> f.entries[q][1] - 1, col |-> f.entries[q][2] - 1, val |-> f.entries[q][3]]
    BY DEF Indexed, t
  <2> QED BY <2>1 DEF IsTriplet
<1>5. coo.nrows = n /\ coo.entries = s /\ coo.rowptr = [i \in 0 .. n |-> Nth(starts, i + 1) - 1]
      /\ \A i \in 0 .. n : coo.rowptr[i] = Nth(starts, i + 1) - 1
  BY DEF ReadMatrixMarket, t
<1> HIDE DEF s, coo
<1>6. N \in Nat \ {0}
  <2>1. Len(f.entries) \in Nat \ {0} BY <1>4, EmptySeq DEF IsFile
  <2> QED BY <1>2, <1>3, <2>1
<1>7. \A k : k \in C <=> k \in 2 .. N /\ s[k].row # s[k - 1].row BY DEF Changes
<1>8. IsFiniteSet(C)
  <2>1. C \subseteq 1 .. N BY <1>6, <1>7
  <2>2. IsFiniteSet(1 .. N) BY <1>6, CountedFacts
  <2> QED BY <2>1, <2>2, FS_Subset
<1>9. IsFiniteSet(starts) /\ Cardinality(starts) = n + 1 /\ starts \subseteq 1 .. N + 1
  <2>1. 1 \notin C /\ N + 1 \notin C \cup {1} BY <1>6, <1>7
  <2>2. IsFiniteSet(C \cup {1}) /\ Cardinality(C \cup {1}) = Cardinality(C) + 1
    BY <1>8, <2>1, FS_AddElement
  <2>3. IsFiniteSet((C \cup {1}) \cup {N + 1})
        /\ Cardinality((C \cup {1}) \cup {N + 1}) = (Cardinality(C) + 1) + 1
    BY <2>1, <2>2, FS_AddElement
  <2>4. starts = (C \cup {1}) \cup {N + 1} OBVIOUS
  <2>5. starts \subseteq 1 .. N + 1 BY <1>6, <1>7
  <2> QED BY <1>4, <2>3, <2>4, <2>5
<1>10. C \subseteq starts /\ 1 \in starts /\ N + 1 \in starts
       /\ \A x \in starts : x = 1 \/ x \in C \/ x = N + 1
  OBVIOUS
<1> HIDE DEF starts, C
<1>11. /\ \A k \in 1 .. n + 1 : h[k] = Nth(starts, k) /\ h[k] \in starts
       /\ \A k, l \in 1 .. n + 1 : k < l => h[k] < h[l]
       /\ \A x \in starts : \E k \in 1 .. n + 1 : h[k] = x
  <2>1. starts \subseteq Int BY <1>9
  <2>2. Enumerates(h, starts) /\ \A k \in 1 .. Cardinality(starts) : h[k] = Nth(starts, k)
    BY <1>9, <2>1, OrderedFacts
  <2>3. Cardinality(starts) = n + 1 BY <1>9
  <2> HIDE DEF h
  <2>4. /\ \A k \in 1 .. n + 1 : h[k] \in starts
        /\ \A k, l \in 1 .. n + 1 : k < l => h[k] < h[l]
        /\ \A x \in starts : \E k \in 1 .. n + 1 : h[k] = x
    BY <2>2, <2>3 DEF Enumerates
  <2>5. \A k \in 1 .. n + 1 : h[k] = Nth(starts, k) BY <2>2, <2>3
  <2> QED BY <2>4, <2>5
<1> HIDE DEF h
<1>12. \A i \in 0 .. n : coo.rowptr[i] = h[i + 1] - 1 /\ h[i + 1] \in 1 .. N + 1
  <2> TAKE i \in 0 .. n
  <2>1. i + 1 \in 1 .. n + 1 BY <1>1
  <2> QED BY <1>5, <1>9, <1>11, <2>1
<1>13. \A i \in 0 .. n : coo.rowptr[i] \in 0 .. N BY <1>6, <1>12
<1>14. ASSUME NEW i \in Below(n), NEW k \in coo.rowptr[i] + 1 .. coo.rowptr[i + 1],
              NEW l \in coo.rowptr[i] + 1 .. coo.rowptr[i + 1]
       PROVE  s[k].row = s[l].row
  <2>1. i \in 0 .. n /\ i + 1 \in 0 .. n /\ i + 1 \in 1 .. n + 1 /\ i + 2 \in 1 .. n + 1
        /\ (i + 1) + 1 = i + 2
    BY <1>1 DEF Below
  <2> DEFINE a == h[i + 1]  b == h[i + 2]
  <2>2. /\ a \in 1 .. N + 1 /\ b \in 1 .. N + 1
        /\ coo.rowptr[i] = a - 1 /\ coo.rowptr[i + 1] = b - 1
    BY <1>12, <2>1
  <2> HIDE DEF a, b
  <2>3. k \in a .. b - 1 /\ l \in a .. b - 1 /\ b - 1 <= N /\ a >= 1 BY <1>6, <2>2
  <2>4. \A x \in starts : ~(a < x /\ x < b)
    <3> TAKE x \in starts
    <3>1. PICK j \in 1 .. n + 1 : h[j] = x BY <1>11
    <3>2. j < i + 1 => x < a BY <1>11, <2>1, <3>1 DEF a
    <3>3. i + 2 < j => b < x BY <1>11, <2>1, <3>1 DEF b
    <3>4. j < i + 1 \/ j = i + 1 \/ j = i + 2 \/ i + 2 < j BY <1>1, <2>1 DEF Below
    <3>5. x \in Int BY <1>9
    <3> QED BY <2>2, <3>1, <3>2, <3>3, <3>4, <3>5 DEF a, b
  <2>5. \A x \in a + 1 .. b - 1 : s[x].row = s[x - 1].row
    <3> TAKE x \in a + 1 .. b - 1
    <3>1. a < x /\ x < b /\ x \in 2 .. N BY <1>6, <2>2
    <3>2. x \notin C BY <1>10, <2>4, <3>1
    <3> QED BY <1>7, <3>1, <3>2
  <2> DEFINE T == {x \in Nat : a + x <= b - 1 => s[a + x].row = s[a].row}
  <2>6. 0 \in T
    <3>1. a + 0 = a BY <2>2
    <3> QED BY <3>1
  <2>7. ASSUME NEW x \in Nat, x \in T PROVE x + 1 \in T
    <3> SUFFICES ASSUME a + (x + 1) <= b - 1 PROVE s[a + (x + 1)].row = s[a].row OBVIOUS
    <3>1. a + (x + 1) \in a + 1 .. b - 1 /\ (a + (x + 1)) - 1 = a + x /\ a + x <= b - 1
      BY <2>2
    <3>2. s[a + (x + 1)].row = s[a + x].row BY <2>5, <3>1
    <3> QED BY <2>7, <3>1, <3>2
  <2> HIDE DEF T
  <2>8. Nat \subseteq T BY <2>6, <2>7, NumbersInduction
  <2>9. \A x \in a .. b - 1 : s[x].row = s[a].row
    <3> TAKE x \in a .. b - 1
    <3>1. x - a \in T /\ a + (x - a) = x BY <2>2, <2>8
    <3> QED BY <3>1 DEF T
  <2> QED BY <2>3, <2>9
<1>29. PICK r \in [1 .. Len(t) -> 1 .. Len(t)] :
         /\ \A p, q \in 1 .. Len(t) : r[p] = r[q] => p = q
         /\ \A q \in 1 .. Len(t) : \E k \in 1 .. Len(t) : r[k] = q
         /\ \A k \in 1 .. Len(t) : s[k] = t[r[k]]
  BY <1>3
<1>15. ASSUME NEW i \in Below(n), NEW k \in coo.rowptr[i] + 1 .. coo.rowptr[i + 1],
              NEW l \in coo.rowptr[i] + 1 .. coo.rowptr[i + 1], s[k].col = s[l].col
       PROVE  k = l
  <2>1. s[k].row = s[l].row BY <1>14
  <2>2. i \in 0 .. n /\ i + 1 \in 0 .. n BY <1>1 DEF Below
  <2>3. k \in 1 .. N /\ l \in 1 .. N
    <3>1. coo.rowptr[i] \in 0 .. N /\ coo.rowptr[i + 1] \in 0 .. N BY <1>13, <2>2
    <3> QED BY <1>6, <3>1
  <2>4. k \in 1 .. Len(t) /\ l \in 1 .. Len(t) BY <1>3, <2>3
  <2>5. t[r[k]].row = t[r[l]].row /\ t[r[k]].col = t[r[l]].col
    BY <1>15, <1>29, <2>1, <2>4
  <2>6. r[k] = r[l] BY <1>2, <1>29, <2>4, <2>5, ZenonT(60)
  <2> QED BY <1>29, <2>4, <2>6
<1>16. IsCoo(coo)
  <2>1. coo.nrows \in Nat \ {0} /\ Below(coo.nrows) = Below(n) BY <1>1, <1>5
  <2>2. coo.entries \in Seq(TripletsOf(coo.nrows)) BY <1>3, <1>5
  <2>3. \A i \in 0 .. coo.nrows : coo.rowptr[i] \in 0 .. Len(coo.entries) BY <1>5, <1>13
  <2>4. \A i \in Below(coo.nrows) :
          \A k, l \in coo.rowptr[i] + 1 .. coo.rowptr[i + 1] :
            coo.entries[k].col = coo.entries[l].col => k = l
    <3> TAKE i \in Below(coo.nrows)
    <3> TAKE k, l \in coo.rowptr[i] + 1 .. coo.rowptr[i + 1]
    <3>1. i \in Below(n) BY <2>1
    <3> QED BY <1>5, <1>15, <3>1
  <2> QED BY <2>1, <2>2, <2>3, <2>4 DEF IsCoo
<1>18. h[1] = 1 /\ h[n + 1] = N + 1
  <2>1. PICK j \in 1 .. n + 1 : h[j] = 1 BY <1>10, <1>11
  <2>2. PICK l \in 1 .. n + 1 : h[l] = N + 1 BY <1>10, <1>11
  <2>3. 1 \in 1 .. n + 1 /\ n + 1 \in 1 .. n + 1 BY <1>1
  <2>4. h[1] \in 1 .. N + 1 /\ h[n + 1] \in 1 .. N + 1 BY <1>9, <1>11, <2>3
  <2>5. j = 1
    <3>1. 1 < j => h[1] < h[j] BY <1>11, <2>3
    <3> QED BY <2>1, <2>4, <3>1
  <2>6. l = n + 1
    <3>1. l < n + 1 => h[l] < h[n + 1] BY <1>11, <2>3
    <3> QED BY <1>1, <1>6, <2>2, <2>4, <3>1
  <2> QED BY <2>1, <2>2, <2>5, <2>6
<1>19. \A a \in 1 .. n : h[a] \in 1 .. N
  <2> TAKE a \in 1 .. n
  <2>1. a \in 1 .. n + 1 /\ n + 1 \in 1 .. n + 1 /\ a < n + 1 BY <1>1
  <2>2. h[a] \in 1 .. N + 1 BY <1>9, <1>11, <2>1
  <2>3. h[a] < N + 1 BY <1>11, <1>18, <2>1
  <2> QED BY <1>6, <2>2, <2>3
<1>20. \A k \in 1 .. N : s[k].row \in Below(n)
  <2> TAKE k \in 1 .. N
  <2>1. s[k] \in TripletsOf(n) BY <1>3
  <2> QED BY <2>1 DEF TripletsOf
<1> DEFINE R == [a \in 1 .. n |-> s[h[a]].row + 1]
<1>21. \A a \in 1 .. n : R[a] = s[h[a]].row + 1 OBVIOUS
<1>22. R \in [1 .. n -> 1 .. n]
  <2>1. \A a \in 1 .. n : s[h[a]].row + 1 \in 1 .. n
    <3> TAKE a \in 1 .. n
    <3>1. s[h[a]].row \in Below(n) BY <1>19, <1>20
    <3> QED BY <1>1, <3>1 DEF Below
  <2> QED BY <2>1
<1> HIDE DEF R
<1>23. ASSUME NEW a \in 1 .. n, NEW b \in 1 .. n, a < b PROVE R[a] < R[b]
  <2>1. a \in 1 .. n + 1 /\ b \in 1 .. n + 1 /\ h[a] \in 1 .. N /\ h[b] \in 1 .. N
    BY <1>1, <1>19
  <2>2. h[a] < h[b] BY <1>11, <1>23, <2>1
  <2>3. h[b] \in C
    <3>1. h[b] \in starts BY <1>11, <2>1
    <3>2. h[b] # 1 /\ h[b] # N + 1 BY <1>6, <2>1, <2>2
    <3> QED BY <1>10, <3>1, <3>2
  <2> DEFINE x == h[a]  y == h[b] - 1  z == h[b]
  <2>4. x \in 1 .. N /\ y \in 1 .. N /\ z \in 1 .. N /\ x <= y /\ y <= z BY <1>6, <2>1, <2>2
  <2>5. s[z].row # s[y].row BY <1>7, <2>3
  <2> HIDE DEF x, y, z
  <2>6. 1 .. N = 1 .. Len(t) BY <1>3
  <2>7. s[x].row <= s[y].row /\ s[y].row <= s[z].row BY <1>3, <2>4, <2>6
  <2>8. s[x].row \in Below(n) /\ s[y].row \in Below(n) /\ s[z].row \in Below(n) BY <1>20, <2>4
  <2>9. s[x].row + 1 < s[z].row + 1
    <3> DEFINE u == s[x].row  v == s[y].row  w == s[z].row
    <3>1. u \in Int /\ v \in Int /\ w \in Int BY <1>1, <2>8 DEF Below
    <3>2. u <= v /\ v <= w /\ w # v BY <2>5, <2>7
    <3> HIDE DEF u, v, w
    <3>3. u + 1 < w + 1 BY <3>1, <3>2
    <3> QED BY <3>3 DEF u, w
  <2> QED BY <1>21, <2>9 DEF x, z
<1>24. \A a \in 1 .. n : R[a] = a BY <1>1, <1>22, <1>23, AscendingIsIdentity
<1>25. ASSUME NEW i \in Below(n), NEW k \in coo.rowptr[i] + 1 .. coo.rowptr[i + 1]
       PROVE  s[k].row = i
  <2>1. i \in 0 .. n /\ i + 1 \in 0 .. n /\ i + 1 \in 1 .. n /\ i + 1 \in 1 .. n + 1
        /\ (i + 1) + 1 \in 1 .. n + 1 /\ i \in Int
    BY <1>1 DEF Below
  <2>2. coo.rowptr[i] = h[i + 1] - 1 /\ coo.rowptr[i + 1] = h[(i + 1) + 1] - 1 BY <1>12, <2>1
  <2>3. h[i + 1] < h[(i + 1) + 1] BY <1>11, <2>1
  <2>4. h[i + 1] \in 1 .. N + 1 /\ h[(i + 1) + 1] \in 1 .. N + 1 BY <1>12, <2>1
  <2>5. h[i + 1] \in coo.rowptr[i] + 1 .. coo.rowptr[i + 1] BY <1>6, <2>2, <2>3, <2>4
  <2>6. s[k].row = s[h[i + 1]].row BY <1>14, <2>5
  <2>7. s[h[i + 1]].row + 1 = i + 1 BY <1>21, <1>24, <2>1
  <2>8. s[h[i + 1]].row \in Int
    <3>1. s[h[i + 1]].row \in Below(n) BY <1>19, <1>20, <2>1
    <3> QED BY <1>1, <3>1 DEF Below
  <2> QED BY <2>1, <2>6, <2>7, <2>8
<1>26. Pointers(coo.rowptr, n) /\ coo.rowptr[n] = N
  <2>1. 0 \in 0 .. n /\ n \in 0 .. n /\ 0 + 1 = 1 BY <1>1
  <2>2. coo.rowptr[0] = 0 /\ coo.rowptr[n] = N BY <1>6, <1>12, <1>18, <2>1, SMTT(60)
  <2>3. coo.rowptr \in [0 .. n -> Nat]
    <3>1. \A i \in 0 .. n : coo.rowptr[i] \in Nat BY <1>6, <1>13
    <3> QED BY <1>5, <3>1
  <2>4. ASSUME NEW i \in Below(n) PROVE coo.rowptr[i] <= coo.rowptr[i + 1]
    <3>1. i \in 0 .. n /\ i + 1 \in 0 .. n /\ i + 1 \in 1 .. n + 1
          /\ (i + 1) + 1 \in 1 .. n + 1 /\ i + 1 < (i + 1) + 1
      BY <1>1 DEF Below
    <3>2. coo.rowptr[i] = h[i + 1] - 1 /\ coo.rowptr[i + 1] = h[(i + 1) + 1] - 1 BY <1>12, <3>1
    <3>3. h[i + 1] < h[(i + 1) + 1] BY <1>11, <3>1
    <3>4. h[i + 1] \in 1 .. N + 1 /\ h[(i + 1) + 1] \in 1 .. N + 1 BY <1>12, <3>1
    <3> QED BY <1>6, <3>2, <3>3, <3>4
  <2> QED BY <2>2, <2>3, <2>4 DEF Pointers
<1>27. Grouped(coo) BY <1>5, <1>25, <1>26 DEF Grouped
<1>28. ReadFrom(coo, f)
  <2>1. Len(t) = N BY <1>3
  <2>2. DOMAIN f.entries = 1 .. N
    <3>1. f.entries \in Seq((1 .. f.n) \X (1 .. f.n) \X Scalars) BY DEF IsFile
    <3> QED BY <1>2, <1>3, <3>1
  <2>3. \A q \in 1 .. N : IsTriplet(t[q], f.entries[q]) BY <1>2, <1>3, <1>17
  <2>4. \A k \in 1 .. N : IsTriplet(s[k], f.entries[r[k]]) /\ r[k] \in 1 .. N BY <1>29, <2>1, <2>3
  <2>5. \A e \in 1 .. N : \E k \in 1 .. N : IsTriplet(s[k], f.entries[e]) BY <1>29, <2>1, <2>4
  <2> QED BY <1>5, <2>2, <2>4, <2>5 DEF ReadFrom
<1> QED BY <1>5, <1>16, <1>27, <1>28 DEF coo

\* Positions of the diagonal blocks among those that are stored.
Located(m) ==
  [m EXCEPT !.diagind = [i \in Rows(m) |->
     IF \E jj \in Row(m, i) : m.bcolind[jj] = i
     THEN CHOOSE jj \in Row(m, i) : m.bcolind[jj] = i
     ELSE @[i]]]

LEMMA PackedSound ==
  ASSUME NEW m, IsMatrix(m), m.nbrows # 0, NEW rows \in Lists(m),
         \A i \in Rows(m) : \A p, q \in 1 .. Len(rows[i]) : rows[i][p].col = rows[i][q].col => p = q
  PROVE  Sound(Located(Packed(m, rows)))
<1> DEFINE P == Packed(m, rows)
           C(i) == CHOOSE jj \in Row(P, i) : P.bcolind[jj] = i
           new == [i \in Rows(P) |-> IF \E jj \in Row(P, i) : P.bcolind[jj] = i
                                     THEN C(i) ELSE P.diagind[i]]
           D == Located(P)
<1>1. Stored(P) /\ P.nbrows = m.nbrows /\ RowList(P) = rows BY PackedFacts
<1>2. D = [P EXCEPT !.diagind = new] BY DEF Located
<1>3. \A i \in Rows(P) : (\E jj \in Row(P, i) : P.bcolind[jj] = i) =>
                            new[i] \in Row(P, i) /\ P.bcolind[new[i]] = i
  <2> TAKE i \in Rows(P)
  <2> HAVE \E jj \in Row(P, i) : P.bcolind[jj] = i
  <2>1. C(i) \in Row(P, i) /\ P.bcolind[C(i)] = i OBVIOUS
  <2> HIDE DEF C
  <2> QED BY <2>1
<1> HIDE DEF P, new, D
<1>4. P = [nbrows |-> P.nbrows, bs |-> P.bs, stor |-> P.stor, browptr |-> P.browptr,
           bcolind |-> P.bcolind, vals |-> P.vals, diagind |-> P.diagind]
  BY <1>1 DEF Stored, IsMatrix
<1>5. /\ D = [nbrows |-> P.nbrows, bs |-> P.bs, stor |-> P.stor, browptr |-> P.browptr,
              bcolind |-> P.bcolind, vals |-> P.vals, diagind |-> new]
  BY <1>2, <1>4
<1>6. /\ D.nbrows = P.nbrows /\ D.bs = P.bs /\ D.stor = P.stor /\ D.browptr = P.browptr
      /\ D.bcolind = P.bcolind /\ D.vals = P.vals /\ D.diagind = new
  BY <1>5
<1>7. /\ Nnzb(D) = Nnzb(P) /\ Rows(D) = Rows(P) /\ Places(D) = Places(P)
      /\ \A i \in Rows(P) : Row(D, i) = Row(P, i)
  BY <1>6 DEF Nnzb, Rows, Places, Row
<1>8. Stored(D)
  <2>1. IsMatrix(D) BY <1>1, <1>5, <1>6 DEF Stored, IsMatrix
  <2> QED BY <1>1, <1>6, <1>7, <2>1 DEF Stored
<1>9. Distinct(D)
  <2> SUFFICES ASSUME NEW i \in Rows(P), NEW jj \in Row(P, i), NEW kk \in Row(P, i),
                      P.bcolind[jj] = P.bcolind[kk]
               PROVE  jj = kk
    BY <1>6, <1>7 DEF Distinct
  <2> DEFINE b == P.browptr[i]
             p == jj - b + 1
             q == kk - b + 1
  <2>1. i \in Rows(m) BY <1>1 DEF Rows
  <2>2. /\ p \in 1 .. Len(rows[i]) /\ rows[i][p] = [col |-> P.bcolind[jj], val |-> P.vals[jj]]
        /\ q \in 1 .. Len(rows[i]) /\ rows[i][q] = [col |-> P.bcolind[kk], val |-> P.vals[kk]]
    BY <1>1, RowListFacts
  <2>3. b \in Int /\ jj \in Int /\ kk \in Int
    <3>1. P.browptr[i] \in Nat /\ P.browptr[i + 1] \in Nat BY <1>1, RowFacts
    <3> QED BY <3>1 DEF Row
  <2>4. rows[i][p].col = rows[i][q].col
    <3> HIDE DEF p, q
    <3>1. rows[i][p].col = P.bcolind[jj] BY <2>2
    <3>2. rows[i][q].col = P.bcolind[kk] BY <2>2
    <3> QED BY <3>1, <3>2
  <2>5. p = q
    <3> HIDE DEF p, q
    <3> QED BY <2>1, <2>2, <2>4
  <2> HIDE DEF b
  <2> QED BY <2>3, <2>5
<1>10. Found(D) BY <1>3, <1>6, <1>7 DEF Found
<1>11. D.nbrows # 0 BY <1>1, <1>6
<1> QED BY <1>8, <1>9, <1>10, <1>11 DEF Sound, D, P

Frame(n, bs, stor, garbage) ==
  [nbrows |-> n, bs |-> bs, stor |-> stor, browptr |-> <<>>, bcolind |-> <<>>, vals |-> <<>>,
   diagind |-> [i \in Below(n) |-> garbage]]

LEMMA FrameFacts ==
  ASSUME NEW n \in Nat, NEW bs \in Nat \ {0}, NEW stor, NEW garbage
  PROVE  LET m == Frame(n, bs, stor, garbage)
         IN /\ IsMatrix(m) /\ m.nbrows = n /\ Rows(m) = Below(n) /\ m.bs = bs
            /\ Places(m) = Below(bs * bs)
<1> DEFINE g == [i \in Below(n) |-> garbage]
           e == <<>>
           m == [nbrows |-> n, bs |-> bs, stor |-> stor, browptr |-> e, bcolind |-> e, vals |-> e,
                 diagind |-> g]
<1>1. Frame(n, bs, stor, garbage) = m BY DEF Frame
<1> HIDE DEF g, e
<1>2. m.nbrows = n /\ m.bs = bs /\ m.stor = stor /\ m.browptr = e /\ m.bcolind = e /\ m.vals = e
      /\ m.diagind = g
  OBVIOUS
<1> HIDE DEF m
<1>3. m = [nbrows |-> n, bs |-> bs, stor |-> stor, browptr |-> e, bcolind |-> e, vals |-> e,
           diagind |-> g]
  BY DEF m
<1>4. IsMatrix(m) BY <1>2, <1>3 DEF IsMatrix
<1> QED BY <1>1, <1>2, <1>4 DEF Rows, Places

\* The entries that a matrix is packed from are those of its rows.
Keeps(m, rows) ==
  \A i \in Rows(m) :
    /\ \A q \in 1 .. Len(rows[i]) : \E jj \in Row(m, i) :
         m.bcolind[jj] = rows[i][q].col /\ m.vals[jj] = rows[i][q].val
    /\ \A jj \in Row(m, i) : \E q \in 1 .. Len(rows[i]) :
         m.bcolind[jj] = rows[i][q].col /\ m.vals[jj] = rows[i][q].val

LEMMA PackedKeeps ==
  ASSUME NEW m, IsMatrix(m), NEW rows \in Lists(m)
  PROVE  LET D == Located(Packed(m, rows))
         IN D.nbrows = m.nbrows /\ D.bs = m.bs /\ D.stor = m.stor /\ Keeps(D, rows)
<1> DEFINE P == Packed(m, rows)  D == Located(P)
<1>1. /\ Stored(P) /\ P.nbrows = m.nbrows /\ P.bs = m.bs /\ P.stor = m.stor
      /\ RowList(P) = rows
  BY PackedFacts
<1>2. /\ D.nbrows = P.nbrows /\ D.bs = P.bs /\ D.stor = P.stor /\ D.browptr = P.browptr
      /\ D.bcolind = P.bcolind /\ D.vals = P.vals
  BY <1>1 DEF Located, Stored, IsMatrix
<1> HIDE DEF P, D
<1>3. Rows(D) = Rows(P) /\ \A i \in Rows(P) : Row(D, i) = Row(P, i) BY <1>2 DEF Rows, Row
<1>4. ASSUME NEW i \in Rows(P)
      PROVE  /\ \A q \in 1 .. Len(rows[i]) : \E jj \in Row(P, i) :
                  P.bcolind[jj] = rows[i][q].col /\ P.vals[jj] = rows[i][q].val
             /\ \A jj \in Row(P, i) : \E q \in 1 .. Len(rows[i]) :
                  P.bcolind[jj] = rows[i][q].col /\ P.vals[jj] = rows[i][q].val
  <2>1. /\ \A jj \in Row(P, i) :
              /\ jj - P.browptr[i] + 1 \in 1 .. Len(rows[i])
              /\ rows[i][jj - P.browptr[i] + 1] = [col |-> P.bcolind[jj], val |-> P.vals[jj]]
        /\ \A q \in 1 .. Len(rows[i]) :
              /\ P.browptr[i] + q - 1 \in Row(P, i)
              /\ rows[i][q] = [col |-> P.bcolind[P.browptr[i] + q - 1],
                                     val |-> P.vals[P.browptr[i] + q - 1]]
    BY <1>1, RowListFacts
  <2>2. ASSUME NEW q \in 1 .. Len(rows[i])
        PROVE  \E jj \in Row(P, i) :
                 P.bcolind[jj] = rows[i][q].col /\ P.vals[jj] = rows[i][q].val
    <3> DEFINE jj == P.browptr[i] + q - 1
    <3>1. jj \in Row(P, i) /\ rows[i][q] = [col |-> P.bcolind[jj], val |-> P.vals[jj]] BY <2>1
    <3> HIDE DEF jj
    <3>2. rows[i][q].col = P.bcolind[jj] /\ rows[i][q].val = P.vals[jj] BY <3>1
    <3> QED BY <3>1, <3>2
  <2>3. ASSUME NEW jj \in Row(P, i)
        PROVE  \E q \in 1 .. Len(rows[i]) :
                 P.bcolind[jj] = rows[i][q].col /\ P.vals[jj] = rows[i][q].val
    <3> DEFINE q == jj - P.browptr[i] + 1
    <3>1. q \in 1 .. Len(rows[i]) /\ rows[i][q] = [col |-> P.bcolind[jj], val |-> P.vals[jj]]
      BY <2>1
    <3> HIDE DEF q
    <3>2. rows[i][q].col = P.bcolind[jj] /\ rows[i][q].val = P.vals[jj] BY <3>1
    <3> QED BY <3>1, <3>2
  <2> QED BY <2>2, <2>3
<1>5. Keeps(D, rows) BY <1>2, <1>3, <1>4 DEF Keeps
<1> QED BY <1>1, <1>2, <1>5 DEF D, P

(***************************************************************************)
(* A matrix that has the triplets, and zeros.                              *)
(***************************************************************************)
Spot(t) == <<t.row, t.col>>

Gathers(m, coo) ==
  /\ \A k \in 1 .. Len(coo.entries) : \E jj, l :
       Holds(m, jj, l, Spot(coo.entries[k])) /\ m.vals[jj][l] = coo.entries[k].val
  /\ \A p \in SquareOf(m) : \A jj, l :
       Holds(m, jj, l, p) => \/ m.vals[jj][l] = 0
                             \/ \E k \in 1 .. Len(coo.entries) : Spot(coo.entries[k]) = p

LEMMA GatheredDense ==
  ASSUME Field, NEW m, Stored(m), Distinct(m), NEW f, IsFile(f), Dim(m) = f.n,
         NEW coo, ReadFrom(coo, f), Gathers(m, coo)
  PROVE  Dense(m) = Matrix!Content(f)
<1> DEFINE At1(p, e) == f.entries[e][1] = p[1] + 1 /\ f.entries[e][2] = p[2] + 1
           E == DOMAIN f.entries
           C(p) == CHOOSE e \in E : At1(p, e)
<1>1. \A e \in E : f.entries[e][1] \in Int /\ f.entries[e][2] \in Int BY DEF IsFile
<1>2. SquareOf(m) = Below(f.n) \X Below(f.n) BY DEF SquareOf
<1>3. Matrix!Content(f) = [p \in SquareOf(m) |-> IF \E e \in E : At1(p, e) THEN f.entries[C(p)][3]
                                                 ELSE 0]
  BY <1>2 DEF Matrix!Content, Matrix!Square, Matrix!Below, Below
<1>4. f.n \in Nat BY DEF IsFile
<1>5. ASSUME NEW p \in SquareOf(m) PROVE p[1] \in Int /\ p[2] \in Int /\ p = <<p[1], p[2]>>
  BY <1>2, <1>4 DEF Below
<1>6. ASSUME NEW p \in SquareOf(m), NEW e \in E, NEW k \in 1 .. Len(coo.entries),
             IsTriplet(coo.entries[k], f.entries[e])
      PROVE  Spot(coo.entries[k]) = p <=> At1(p, e)
  <2> DEFINE r == coo.entries[k].row  c == coo.entries[k].col
             i == f.entries[e][1]  j == f.entries[e][2]
  <2>1. r = i - 1 /\ c = j - 1 BY <1>6 DEF IsTriplet
  <2>2. Spot(coo.entries[k]) = <<r, c>> BY DEF Spot
  <2>3. Spot(coo.entries[k]) = p <=> r = p[1] /\ c = p[2] BY <1>5, <2>2
  <2>4. At1(p, e) <=> i = p[1] + 1 /\ j = p[2] + 1 OBVIOUS
  <2>5. i \in Int /\ j \in Int BY <1>1
  <2> HIDE DEF r, c, i, j, At1
  <2> QED BY <1>5, <2>1, <2>3, <2>4, <2>5
<1> HIDE DEF At1, E
<1>7. ASSUME NEW p \in SquareOf(m), \E e \in E : At1(p, e)
      PROVE  Dense(m)[p] = f.entries[C(p)][3]
  <2>1. C(p) \in E /\ At1(p, C(p)) BY <1>7
  <2> HIDE DEF C
  <2>2. PICK k \in 1 .. Len(coo.entries) : IsTriplet(coo.entries[k], f.entries[C(p)])
    BY <2>1 DEF ReadFrom, E
  <2>3. Spot(coo.entries[k]) = p BY <1>6, <2>1, <2>2
  <2>4. PICK jj, l : Holds(m, jj, l, p) /\ m.vals[jj][l] = coo.entries[k].val
    BY <2>3 DEF Gathers
  <2>5. Dense(m)[p] = m.vals[jj][l] BY <2>4, DenseFacts
  <2> QED BY <2>2, <2>4, <2>5 DEF IsTriplet
<1>8. ASSUME NEW p \in SquareOf(m), ~(\E e \in E : At1(p, e))
      PROVE  Dense(m)[p] = 0
  <2>1. ASSUME NEW k \in 1 .. Len(coo.entries) PROVE Spot(coo.entries[k]) # p
    <3>1. PICK e \in E : IsTriplet(coo.entries[k], f.entries[e]) BY DEF ReadFrom, E
    <3> QED BY <1>6, <1>8, <3>1
  <2>2. CASE \E jj, l : Holds(m, jj, l, p)
    <3>1. PICK jj, l : Holds(m, jj, l, p) BY <2>2
    <3>2. m.vals[jj][l] = 0 BY <2>1, <3>1 DEF Gathers
    <3> QED BY <3>1, <3>2, DenseFacts
  <2>3. CASE \A jj, l : ~Holds(m, jj, l, p) BY <2>3, DenseFacts
  <2> QED BY <2>2, <2>3
<1>9. Dense(m) \in [SquareOf(m) -> Scalars] BY DenseFacts
<1> HIDE DEF C
<1> QED BY <1>3, <1>7, <1>8, <1>9

LEMMA GroupedFacts ==
  ASSUME NEW coo, IsCoo(coo), Grouped(coo), NEW k \in 1 .. Len(coo.entries)
  PROVE  /\ coo.entries[k] \in TripletsOf(coo.nrows) /\ coo.entries[k].row \in Below(coo.nrows)
         /\ k \in coo.rowptr[coo.entries[k].row] + 1 .. coo.rowptr[coo.entries[k].row + 1]
<1> DEFINE n == coo.nrows  N == Len(coo.entries)  t == coo.entries[k]
<1>1. n \in Nat /\ N \in Nat /\ t \in TripletsOf(n) BY DEF IsCoo
<1>2. t.row \in Below(n) BY <1>1 DEF TripletsOf
<1>3. Pointers(coo.rowptr, n) /\ coo.rowptr[n] = N BY DEF Grouped
<1>4. k - 1 \in Below(coo.rowptr[n]) BY <1>1, <1>3 DEF Below
<1>5. PICK i \in Below(n) : k - 1 \in Span(coo.rowptr, i) BY <1>1, <1>3, <1>4, PointersCover
<1>6. coo.rowptr[i] \in Nat /\ coo.rowptr[i + 1] \in Nat
  <2>1. i \in 0 .. n /\ i + 1 \in 0 .. n BY <1>1 DEF Below
  <2> QED BY <1>3, <2>1 DEF Pointers
<1>7. k \in coo.rowptr[i] + 1 .. coo.rowptr[i + 1] BY <1>1, <1>5, <1>6 DEF Span
<1>8. t.row = i BY <1>7 DEF Grouped
<1> QED BY <1>1, <1>2, <1>7, <1>8

LEMMA CSRFacts ==
  ASSUME NEW coo, IsCoo(coo), NEW garbage
  PROVE  LET D == ConvertToCSR(coo, garbage)
         IN /\ Sound(D) /\ D.nbrows = coo.nrows /\ D.bs = 1
            /\ Grouped(coo) => Gathers(D, coo)
<1> DEFINE n == coo.nrows
           N == Len(coo.entries)
           m == Frame(n, 1, "rowmajor", garbage)
           T(i) == Triplets(coo, i)
           a(i) == coo.rowptr[i] + 1
           rows == [i \in Below(n) |-> [q \in 1 .. Len(T(i)) |->
                     [col |-> T(i)[q].col, val |-> [k \in {0} |-> T(i)[q].val]]]]
           V == [Below(1 * 1) -> Scalars]
<1>1. n \in Nat \ {0} /\ N \in Nat BY DEF IsCoo
<1>2. ConvertToCSR(coo, garbage) = Located(Packed(m, rows))
  BY DEF ConvertToCSR, Located, Frame
<1>3. IsMatrix(m) /\ m.nbrows = n /\ Rows(m) = Below(n) /\ Places(m) = Below(1 * 1)
  BY <1>1, FrameFacts
<1> HIDE DEF m
<1>4. ASSUME NEW i \in Below(n)
      PROVE  /\ T(i) \in Seq(TripletsOf(n))
             /\ \A q \in 1 .. Len(T(i)) : /\ T(i)[q] = coo.entries[a(i) + q - 1]
                                          /\ a(i) + q - 1 \in a(i) .. coo.rowptr[i + 1]
             /\ \A k \in a(i) .. coo.rowptr[i + 1] :
                  k - a(i) + 1 \in 1 .. Len(T(i)) /\ a(i) + (k - a(i) + 1) - 1 = k
  <2>1. a(i) \in 1 .. N + 1 /\ coo.rowptr[i + 1] \in 0 .. N
    <3>1. i \in 0 .. n /\ i + 1 \in 0 .. n BY <1>1 DEF Below
    <3>2. coo.rowptr[i] \in 0 .. N /\ coo.rowptr[i + 1] \in 0 .. N BY <3>1 DEF IsCoo
    <3> QED BY <1>1, <3>2
  <2> DEFINE b == coo.rowptr[i + 1]  s == coo.entries
  <2>2. \A q \in 1 .. N : s[q] \in TripletsOf(n) BY DEF IsCoo
  <2>3. T(i) = SubSeq(s, a(i), b) BY DEF Triplets
  <2> HIDE DEF a, b, s
  <2>4. \A q \in a(i) .. b : s[q] \in TripletsOf(n) BY <1>1, <2>1, <2>2 DEF b
  <2>5. /\ SubSeq(s, a(i), b) \in Seq(TripletsOf(n))
        /\ Len(SubSeq(s, a(i), b)) = IF a(i) <= b THEN b - a(i) + 1 ELSE 0
        /\ \A q \in 1 .. b - a(i) + 1 : SubSeq(s, a(i), b)[q] = s[a(i) + q - 1]
    <3>1. a(i) \in Int /\ b \in Int BY <2>1 DEF b
    <3> QED BY <2>4, <3>1, SubSeqProperties
  <2>6. a(i) \in Nat /\ b \in Nat BY <1>1, <2>1 DEF b
  <2>7. \A q \in 1 .. Len(T(i)) : q \in 1 .. b - a(i) + 1 /\ a(i) + q - 1 \in a(i) .. b
    BY <2>3, <2>5, <2>6
  <2>8. \A k \in a(i) .. b : k - a(i) + 1 \in 1 .. Len(T(i)) /\ a(i) + (k - a(i) + 1) - 1 = k
    BY <2>3, <2>5, <2>6
  <2> QED BY <2>3, <2>5, <2>7, <2>8 DEF b, s
<1>5. ASSUME NEW i \in Below(n)
      PROVE  /\ rows[i] \in Seq(EntriesOf(n, V)) /\ Len(rows[i]) = Len(T(i))
             /\ \A q \in 1 .. Len(T(i)) : /\ rows[i][q].col = T(i)[q].col
                                          /\ rows[i][q].val[0] = T(i)[q].val
  <2> DEFINE t == T(i)
             e(q) == [col |-> t[q].col, val |-> [k \in {0} |-> t[q].val]]
  <2>1. t \in Seq(TripletsOf(n)) BY <1>4
  <2>2. rows[i] = [q \in 1 .. Len(t) |-> e(q)] OBVIOUS
  <2> HIDE DEF t
  <2>3. \A q \in 1 .. Len(t) : e(q) \in EntriesOf(n, V)
    <3> TAKE q \in 1 .. Len(t)
    <3>1. t[q] \in TripletsOf(n) BY <2>1
    <3>2. t[q].col \in Below(n) /\ t[q].val \in Scalars BY <3>1 DEF TripletsOf
    <3>3. Below(1 * 1) = {0} BY DEF Below
    <3> QED BY <3>2, <3>3 DEF EntriesOf
  <2>4. \A q \in 1 .. Len(t) : e(q).col = t[q].col /\ e(q).val[0] = t[q].val OBVIOUS
  <2> HIDE DEF e, rows
  <2>5. Len(t) \in Nat BY <2>1
  <2>6. rows[i] \in Seq(EntriesOf(n, V)) /\ Len(rows[i]) = Len(t)
    <3> HIDE DEF V
    <3> QED BY <2>2, <2>3, <2>5
  <2> QED BY <2>2, <2>4, <2>6 DEF t
<1>6. rows \in Lists(m)
  <2>1. rows \in [Below(n) -> Seq(EntriesOf(n, V))]
    <3>1. rows = [i \in Below(n) |-> rows[i]] OBVIOUS
    <3> HIDE DEF rows, V
    <3> QED BY <1>5, <3>1
  <2> QED BY <1>3, <2>1 DEF Lists, Entries
<1> HIDE DEF rows, T
<1>7. \A i \in Rows(m) : \A p, q \in 1 .. Len(rows[i]) : rows[i][p].col = rows[i][q].col => p = q
  <2> SUFFICES ASSUME NEW i \in Below(n), NEW p \in 1 .. Len(T(i)), NEW q \in 1 .. Len(T(i)),
                      T(i)[p].col = T(i)[q].col
               PROVE  p = q
    BY <1>3, <1>5
  <2>1. a(i) + p - 1 = a(i) + q - 1
    <3>1. /\ T(i)[p] = coo.entries[a(i) + p - 1] /\ a(i) + p - 1 \in a(i) .. coo.rowptr[i + 1]
          /\ T(i)[q] = coo.entries[a(i) + q - 1] /\ a(i) + q - 1 \in a(i) .. coo.rowptr[i + 1]
      BY <1>4
    <3> DEFINE k == a(i) + p - 1  l == a(i) + q - 1
    <3>2. /\ k \in coo.rowptr[i] + 1 .. coo.rowptr[i + 1] /\ l \in coo.rowptr[i] + 1 .. coo.rowptr[i + 1]
          /\ coo.entries[k].col = coo.entries[l].col
      BY <3>1
    <3> HIDE DEF k, l
    <3>3. k = l BY <3>2 DEF IsCoo
    <3> QED BY <3>3 DEF k, l
  <2>2. a(i) \in Int
    <3>1. i \in 0 .. n BY <1>1 DEF Below
    <3>2. coo.rowptr[i] \in 0 .. N BY <3>1 DEF IsCoo
    <3> QED BY <3>2
  <2>3. p \in Int /\ q \in Int OBVIOUS
  <2> HIDE DEF a
  <2> QED BY <2>1, <2>2, <2>3
<1>8. m.nbrows # 0 BY <1>1, <1>3
<1> DEFINE D == Located(Packed(m, rows))
<1>9. /\ Sound(D) /\ D.nbrows = n /\ D.bs = 1 /\ Keeps(D, rows)
  <2>1. m.bs = 1 BY FrameFacts, <1>1 DEF m
  <2> QED BY <1>3, <1>6, <1>7, <1>8, <2>1, PackedSound, PackedKeeps
<1> HIDE DEF D
<1>10. Stored(D) /\ Distinct(D) /\ Rows(D) = Below(n) BY <1>9 DEF Sound, Rows
<1>11. ASSUME NEW i \in Below(n), NEW jj \in Row(D, i), NEW p, p = <<i, D.bcolind[jj]>>
       PROVE  p \in SquareOf(D) /\ Holds(D, jj, 0, p)
  BY <1>9, <1>10, <1>11, ScalarHolds
<1>12. ASSUME Grouped(coo), NEW k \in 1 .. N
       PROVE  \E jj, l : Holds(D, jj, l, Spot(coo.entries[k])) /\ D.vals[jj][l] = coo.entries[k].val
  <2> DEFINE i == coo.entries[k].row  q == k - a(i) + 1
  <2>1. i \in Below(n) /\ k \in a(i) .. coo.rowptr[i + 1] BY <1>12, GroupedFacts
  <2> HIDE DEF i, a
  <2>2. q \in 1 .. Len(T(i)) /\ a(i) + q - 1 = k BY <1>4, <2>1
  <2> HIDE DEF q
  <2>3. T(i)[q] = coo.entries[k]
    <3>1. T(i)[q] = coo.entries[a(i) + q - 1] BY <1>4, <2>1, <2>2
    <3> QED BY <2>2, <3>1
  <2>4. Len(rows[i]) = Len(T(i)) /\ rows[i][q].col = T(i)[q].col /\ rows[i][q].val[0] = T(i)[q].val
    BY <1>5, <2>1, <2>2
  <2>5. PICK jj \in Row(D, i) : D.bcolind[jj] = rows[i][q].col /\ D.vals[jj] = rows[i][q].val
    BY <1>9, <1>10, <2>1, <2>2, <2>4 DEF Keeps
  <2>6. Spot(coo.entries[k]) = <<i, D.bcolind[jj]>> BY <2>3, <2>4, <2>5 DEF Spot, i
  <2>7. Holds(D, jj, 0, Spot(coo.entries[k])) BY <1>11, <2>1, <2>6
  <2>8. D.vals[jj][0] = coo.entries[k].val BY <2>3, <2>4, <2>5
  <2> QED BY <2>7, <2>8
<1>13. ASSUME Grouped(coo), NEW p \in SquareOf(D), NEW jj, NEW l, Holds(D, jj, l, p)
       PROVE  \E k \in 1 .. N : Spot(coo.entries[k]) = p
  <2> DEFINE i == p[1] \div D.bs  h == <<i, D.bcolind[jj]>>
  <2>1. i \in Below(n) /\ jj \in Row(D, i)
    <3>1. i \in Rows(D) BY <1>10, StoredBounds, CornerFacts
    <3> QED BY <1>10, <1>13, <3>1 DEF Holds
  <2> HIDE DEF i
  <2>2. h \in SquareOf(D) /\ Holds(D, jj, 0, h) BY <1>11, <2>1
  <2>3. l = 0
    <3>1. l \in Places(D) BY <1>10, <1>13, HoldsInside
    <3>2. 1 * 1 = 1 OBVIOUS
    <3> QED BY <1>9, <3>1, <3>2 DEF Places, Below
  <2>4. h = p BY <1>10, <1>13, <2>2, <2>3, HoldsOnce
  <2>5. PICK q \in 1 .. Len(rows[i]) : D.bcolind[jj] = rows[i][q].col
    BY <1>9, <1>10, <2>1 DEF Keeps
  <2>6. q \in 1 .. Len(T(i)) /\ rows[i][q].col = T(i)[q].col BY <1>5, <2>1
  <2> DEFINE k == a(i) + q - 1
  <2>7. T(i)[q] = coo.entries[k] /\ k \in a(i) .. coo.rowptr[i + 1] BY <1>4, <2>1, <2>6
  <2> HIDE DEF k
  <2>8. coo.entries[k].row = i BY <1>13, <2>1, <2>7 DEF Grouped
  <2>9. k \in 1 .. N
    <3>1. i \in 0 .. n /\ i + 1 \in 0 .. n BY <1>1, <2>1 DEF Below
    <3>2. coo.rowptr[i] \in 0 .. N /\ coo.rowptr[i + 1] \in 0 .. N BY <3>1 DEF IsCoo
    <3> QED BY <1>1, <2>7, <3>2
  <2>10. Spot(coo.entries[k]) = h BY <2>5, <2>6, <2>7, <2>8 DEF Spot
  <2> QED BY <2>4, <2>9, <2>10
<1>14. Grouped(coo) => Gathers(D, coo) BY <1>12, <1>13 DEF Gathers
<1> QED BY <1>2, <1>9, <1>14 DEF D

LEMMA BlockRowFacts ==
  ASSUME NEW coo, IsCoo(coo), NEW bs \in Nat \ {0}, NEW n \in Nat, coo.nrows = n * bs,
         NEW b \in Below(n)
  PROVE  BlockRow(coo, bs, b) \in Seq(TripletsOf(coo.nrows))
<1> DEFINE N == Len(coo.entries)
           s == coo.entries
           from == coo.rowptr[b * bs] + 1
           to == coo.rowptr[(b + 1) * bs]
<1>1. coo.nrows \in Nat /\ N \in Nat BY DEF IsCoo
<1>2. b \in Nat /\ b < n BY DEF Below
<1>3. b * bs \in 0 .. coo.nrows /\ (b + 1) * bs \in 0 .. coo.nrows
  <2>1. \A i \in Nat : i <= n => i * bs \in 0 .. coo.nrows
    <3> TAKE i \in Nat
    <3> HAVE i <= n
    <3>1. i * bs \in Nat OBVIOUS
    <3>2. CASE i = n BY <1>1, <3>1, <3>2
    <3>3. CASE i # n
      <4>1. i \in Below(n) /\ 0 \in Below(bs) BY <3>3 DEF Below
      <4>2. At(i, bs, 0) \in Below(n * bs) BY <4>1, IndexFacts
      <4> QED BY <1>1, <3>1, <4>2 DEF At, Below
    <3> QED BY <3>2, <3>3
  <2>2. b + 1 \in Nat /\ b + 1 <= n /\ b <= n BY <1>2
  <2> QED BY <1>2, <2>1, <2>2
<1>4. from \in 1 .. N + 1 /\ to \in 0 .. N
  <2>1. coo.rowptr[b * bs] \in 0 .. N /\ coo.rowptr[(b + 1) * bs] \in 0 .. N
    BY <1>3 DEF IsCoo
  <2> QED BY <1>1, <2>1
<1>5. \A q \in 1 .. N : s[q] \in TripletsOf(coo.nrows) BY DEF IsCoo
<1>6. BlockRow(coo, bs, b) = SubSeq(s, from, to) BY DEF BlockRow
<1> HIDE DEF s, from, to
<1>7. \A q \in from .. to : s[q] \in TripletsOf(coo.nrows) BY <1>1, <1>4, <1>5
<1>8. from \in Int /\ to \in Int BY <1>4
<1> QED BY <1>6, <1>7, <1>8, SubSeqProperties

Meets(coo, bs, b) ==
  \A q \in DOMAIN BlockRow(coo, bs, b) : \E p \in 1 .. Len(BlockColumns(coo, bs, b)) :
    BlockColumns(coo, bs, b)[p] = BlockRow(coo, bs, b)[q].col \div bs

LEMMA BlockColumnsFacts ==
  ASSUME NEW coo, IsCoo(coo), NEW bs \in Nat \ {0}, NEW n \in Nat, coo.nrows = n * bs,
         NEW b \in Below(n)
  PROVE  /\ BlockColumns(coo, bs, b) \in Seq(Below(n))
         /\ \A p, q \in 1 .. Len(BlockColumns(coo, bs, b)) :
              BlockColumns(coo, bs, b)[p] = BlockColumns(coo, bs, b)[q] => p = q
         /\ Meets(coo, bs, b)
<1> DEFINE row == BlockRow(coo, bs, b)
           c(q) == row[q].col \div bs
           firsts == {q \in DOMAIN row : \A p \in 1 .. q - 1 : c(p) # c(q)}
           N == Cardinality(firsts)
           C == BlockColumns(coo, bs, b)
           h == Ordered(firsts)
<1>1. row \in Seq(TripletsOf(coo.nrows)) BY BlockRowFacts
<1>2. C = [k \in 1 .. N |-> c(Nth(firsts, k))] BY DEF BlockColumns
<1> HIDE DEF row
<1>3. Len(row) \in Nat /\ DOMAIN row = 1 .. Len(row) BY <1>1
<1>4. \A q \in DOMAIN row : c(q) \in Below(n)
  <2> TAKE q \in DOMAIN row
  <2>1. row[q] \in TripletsOf(coo.nrows) BY <1>1
  <2>2. row[q].col \in Below(n * bs) BY <2>1 DEF TripletsOf
  <2> QED BY <2>2, IndexFacts
<1> HIDE DEF c
<1>5. firsts \subseteq 1 .. Len(row) BY <1>3
<1>6. \A p, q \in firsts : c(p) = c(q) => p = q
  <2> SUFFICES ASSUME NEW p \in firsts, NEW q \in firsts, c(p) = c(q) PROVE p = q OBVIOUS
  <2>1. p \in 1 .. Len(row) /\ q \in 1 .. Len(row) BY <1>5
  <2>2. ~(p < q)
    <3>1. p < q => p \in 1 .. q - 1 BY <1>3, <2>1
    <3>2. \A r \in 1 .. q - 1 : c(r) # c(q) OBVIOUS
    <3> QED BY <3>1, <3>2
  <2>3. ~(q < p)
    <3>1. q < p => q \in 1 .. p - 1 BY <1>3, <2>1
    <3>2. \A r \in 1 .. p - 1 : c(r) # c(p) OBVIOUS
    <3> QED BY <3>1, <3>2
  <2> QED BY <1>3, <2>1, <2>2, <2>3
<1>13. ASSUME NEW q \in DOMAIN row PROVE \E p \in firsts : c(p) = c(q)
  <2> DEFINE S == {p \in DOMAIN row : c(p) = c(q)}  f == Min(S)
  <2>1. S \in SUBSET Nat /\ S # {} BY <1>3
  <2>2. f \in S /\ \A x \in S : f <= x BY <2>1, MinFacts
  <2> HIDE DEF f
  <2>3. f \in DOMAIN row /\ c(f) = c(q) BY <2>2
  <2>4. ASSUME NEW p \in 1 .. f - 1 PROVE c(p) # c(f)
    <3>1. p \in DOMAIN row /\ ~(f <= p) BY <1>3, <2>3
    <3> QED BY <2>2, <2>3, <3>1
  <2> QED BY <2>3, <2>4
<1>7. IsFiniteSet(firsts) /\ firsts \subseteq Int
  <2>1. IsFiniteSet(1 .. Len(row)) BY <1>3, CountedFacts
  <2>2. IsFiniteSet(firsts) BY <1>5, <2>1, FS_Subset
  <2> QED BY <1>5, <2>2
<1>8. firsts \subseteq DOMAIN row OBVIOUS
<1> HIDE DEF firsts
<1>9. /\ N \in Nat
      /\ \A k \in 1 .. N : h[k] = Nth(firsts, k) /\ h[k] \in firsts
      /\ \A k, l \in 1 .. N : k < l => h[k] < h[l]
      /\ \A x \in firsts : \E k \in 1 .. N : h[k] = x
  BY <1>7, OrderedFacts DEF Enumerates
<1> HIDE DEF h, N, C
<1>10. \A k \in 1 .. N : C[k] = c(h[k]) /\ C[k] \in Below(n)
  BY <1>2, <1>4, <1>8, <1>9
<1>11. C \in Seq(Below(n)) /\ Len(C) = N
  <2>1. C = [k \in 1 .. N |-> C[k]] BY <1>2
  <2> QED BY <1>9, <1>10, <2>1
<1>12. ASSUME NEW p \in 1 .. N, NEW q \in 1 .. N, C[p] = C[q] PROVE p = q
  <2>1. h[p] = h[q] BY <1>6, <1>9, <1>10, <1>12
  <2>2. h[p] \in Int /\ h[q] \in Int BY <1>7, <1>9
  <2>3. (p < q => h[p] < h[q]) /\ (q < p => h[q] < h[p]) BY <1>9
  <2> QED BY <1>9, <2>1, <2>2, <2>3
<1>14. ASSUME NEW q \in DOMAIN row PROVE \E k \in 1 .. N : C[k] = c(q)
  <2>1. PICK p \in firsts : c(p) = c(q) BY <1>13
  <2>2. PICK k \in 1 .. N : h[k] = p BY <1>9
  <2> QED BY <1>10, <2>1, <2>2
<1>15. Meets(coo, bs, b) BY <1>11, <1>14 DEF Meets, C, c, row
<1> QED BY <1>11, <1>12, <1>15 DEF C

-----------------------------------------------------------------------------
\* The triplets of a block row are all those of its rows.
LEMMA BlockBounds ==
  ASSUME NEW bs \in Nat \ {0}, NEW i \in Nat, NEW b \in Nat
  PROVE  /\ i \div bs = b => b * bs <= i /\ i + 1 <= (b + 1) * bs
         /\ i \div bs < b => i + 1 <= b * bs
         /\ b < i \div bs => (b + 1) * bs <= i
<1> DEFINE c == i \div bs  r == i % bs
<1>1. c \in Nat /\ r \in 0 .. bs - 1 /\ i = bs * c + r BY DivisionFacts
<1> HIDE DEF c, r
<1>2. c * bs \in Nat /\ i = c * bs + r /\ (c + 1) * bs = c * bs + bs BY <1>1
<1>3. ASSUME c < b PROVE (c + 1) * bs <= b * bs
  <2> DEFINE d == b - (c + 1)
  <2>1. d \in Nat /\ b = (c + 1) + d BY <1>1, <1>3
  <2> HIDE DEF d
  <2>2. ((c + 1) + d) * bs = (c + 1) * bs + d * bs /\ d * bs \in Nat /\ (c + 1) * bs \in Nat
    BY <1>1, <2>1
  <2> DEFINE x == (c + 1) * bs  y == d * bs
  <2>3. b * bs = x + y BY <2>1, <2>2
  <2>4. x \in Nat /\ y \in Nat BY <2>2
  <2> HIDE DEF x, y
  <2>5. x <= x + y BY <2>4
  <2> QED BY <2>3, <2>5 DEF x
<1>4. ASSUME b < c PROVE (b + 1) * bs <= c * bs
  <2> DEFINE d == c - (b + 1)
  <2>1. d \in Nat /\ c = (b + 1) + d BY <1>1, <1>4
  <2> HIDE DEF d
  <2>2. ((b + 1) + d) * bs = (b + 1) * bs + d * bs /\ d * bs \in Nat /\ (b + 1) * bs \in Nat
    BY <2>1
  <2> DEFINE x == (b + 1) * bs  y == d * bs
  <2>3. c * bs = x + y BY <2>1, <2>2
  <2>4. x \in Nat /\ y \in Nat BY <2>2
  <2> HIDE DEF x, y
  <2>5. x <= x + y BY <2>4
  <2> QED BY <2>3, <2>5 DEF x
<1> DEFINE C == c * bs  B == b * bs  B1 == (b + 1) * bs
<1>5. C \in Nat /\ B \in Nat /\ B1 \in Nat /\ i = C + r /\ (c = b => C = B) BY <1>1, <1>2
<1>6. B1 = B + bs OBVIOUS
<1>7. (c < b => C + bs <= B) /\ (b < c => B1 <= C) BY <1>2, <1>3, <1>4
<1> HIDE DEF C, B, B1
<1>8. /\ c = b => B <= i /\ i + 1 <= B1
      /\ c < b => i + 1 <= B
      /\ b < c => B1 <= i
  BY <1>1, <1>5, <1>6, <1>7
<1> QED BY <1>8 DEF c, B, B1

LEMMA BlockRowExact ==
  ASSUME NEW coo, IsCoo(coo), Grouped(coo), NEW bs \in Nat \ {0}, NEW n \in Nat,
         coo.nrows = n * bs, NEW b \in Below(n)
  PROVE  /\ \A q \in DOMAIN BlockRow(coo, bs, b) : \E k \in 1 .. Len(coo.entries) :
              BlockRow(coo, bs, b)[q] = coo.entries[k] /\ coo.entries[k].row \div bs = b
         /\ \A k \in 1 .. Len(coo.entries) : coo.entries[k].row \div bs = b =>
              \E q \in DOMAIN BlockRow(coo, bs, b) : BlockRow(coo, bs, b)[q] = coo.entries[k]
<1> DEFINE N == Len(coo.entries)
           M == coo.nrows
           ptr == coo.rowptr
           lo == b * bs  hi == (b + 1) * bs
           from == ptr[lo] + 1
           to == ptr[hi]
           T == BlockRow(coo, bs, b)
<1>1. M \in Nat /\ N \in Nat /\ Pointers(ptr, M) /\ ptr[M] = N BY DEF IsCoo, Grouped
<1>2. b \in Nat /\ b < n BY DEF Below
<1>3. lo \in 0 .. M /\ hi \in 0 .. M
  <2> DEFINE d == n - (b + 1)
  <2>1. d \in Nat /\ n = (b + 1) + d BY <1>2
  <2> HIDE DEF d
  <2>2. M = hi + d * bs /\ hi = lo + bs /\ d * bs \in Nat /\ hi \in Nat /\ lo \in Nat
    <3>1. ((b + 1) + d) * bs = (b + 1) * bs + d * bs BY <1>2, <2>1
    <3>2. M = n * bs OBVIOUS
    <3>3. (b + 1) * bs = b * bs + bs BY <1>2
    <3> QED BY <1>2, <2>1, <3>1, <3>2, <3>3
  <2> DEFINE y == d * bs
  <2>3. y \in Nat /\ M = hi + y BY <2>2
  <2> HIDE DEF y, lo, hi, M
  <2> QED BY <1>1, <2>2, <2>3, SMTT(60)
<1>4. \A i, j \in 0 .. M : i <= j => ptr[i] <= ptr[j] BY <1>1, PointersAscend
<1>5. \A i \in 0 .. M : ptr[i] \in Nat /\ ptr[i] <= N
  <2> TAKE i \in 0 .. M
  <2>1. M \in 0 .. M /\ i <= M BY <1>1
  <2> QED BY <1>1, <1>4, <2>1 DEF Pointers
<1>6. from \in 1 .. N + 1 /\ to \in 0 .. N BY <1>1, <1>3, <1>5, SMTT(60)
<1> HIDE DEF lo, hi
<1>7. ASSUME NEW k \in 1 .. N
      PROVE  coo.entries[k].row \div bs = b <=> k \in from .. to
  <2> DEFINE i == coo.entries[k].row
  <2>1. i \in Below(M) /\ k \in ptr[i] + 1 .. ptr[i + 1] BY GroupedFacts
  <2> HIDE DEF i
  <2>2. i \in Nat /\ i \in 0 .. M /\ i + 1 \in 0 .. M BY <1>1, <2>1 DEF Below
  <2>3. /\ i \div bs = b => lo <= i /\ i + 1 <= hi
        /\ i \div bs < b => i + 1 <= lo
        /\ b < i \div bs => hi <= i
    BY <1>2, <2>2, BlockBounds DEF lo, hi
  <2>4. i \div bs \in Nat BY <2>2, DivisionFacts
  <2>5. i \div bs = b \/ i \div bs < b \/ b < i \div bs BY <1>2, <2>4
  <2>6. ptr[i] \in Nat /\ ptr[i + 1] \in Nat /\ ptr[lo] \in Nat /\ ptr[hi] \in Nat
    BY <1>3, <1>5, <2>2
  <2>7. CASE i \div bs = b
    <3>1. ptr[lo] <= ptr[i] /\ ptr[i + 1] <= ptr[hi] BY <1>3, <1>4, <2>2, <2>3, <2>7
    <3>2. k \in from .. to BY <2>1, <2>6, <3>1, SMTT(60)
    <3> QED BY <2>7, <3>2 DEF i
  <2>8. CASE i \div bs < b
    <3>1. ptr[i + 1] <= ptr[lo] BY <1>3, <1>4, <2>2, <2>3, <2>8
    <3>2. k \notin from .. to BY <2>1, <2>6, <3>1
    <3>3. i \div bs # b BY <1>2, <2>4, <2>8
    <3> QED BY <3>2, <3>3 DEF i
  <2>9. CASE b < i \div bs
    <3>1. ptr[hi] <= ptr[i] BY <1>3, <1>4, <2>2, <2>3, <2>9
    <3>2. k \notin from .. to BY <2>1, <2>6, <3>1
    <3>3. i \div bs # b BY <1>2, <2>4, <2>9
    <3> QED BY <3>2, <3>3 DEF i
  <2> QED BY <2>5, <2>7, <2>8, <2>9
<1>8. T = SubSeq(coo.entries, from, to) BY DEF BlockRow, lo, hi
<1> DEFINE s == coo.entries
<1>9. \A q \in 1 .. N : s[q] \in TripletsOf(M) BY DEF IsCoo
<1> HIDE DEF from, to, s, M, T
<1>10. \A q \in from .. to : s[q] \in TripletsOf(M) BY <1>1, <1>6, <1>9
<1>11. from \in Int /\ to \in Int BY <1>6
<1>12. /\ SubSeq(s, from, to) \in Seq(TripletsOf(M))
       /\ Len(SubSeq(s, from, to)) = IF from <= to THEN to - from + 1 ELSE 0
       /\ \A q \in 1 .. to - from + 1 : SubSeq(s, from, to)[q] = s[from + q - 1]
  BY <1>10, <1>11, SubSeqProperties
<1>13. T = SubSeq(s, from, to) BY <1>8 DEF s
<1>14. DOMAIN T = 1 .. Len(T) BY <1>12, <1>13
<1>15. ASSUME NEW q \in DOMAIN T
       PROVE  \E k \in 1 .. N : T[q] = s[k] /\ s[k].row \div bs = b
  <2>1. q \in 1 .. to - from + 1 BY <1>11, <1>12, <1>13, <1>14
  <2>2. from + q - 1 \in from .. to /\ from + q - 1 \in 1 .. N BY <1>1, <1>6, <2>1, SMTT(60)
  <2>3. T[q] = s[from + q - 1] BY <1>12, <1>13, <2>1
  <2> DEFINE k == from + q - 1
  <2> HIDE DEF k
  <2>4. k \in from .. to /\ k \in 1 .. N /\ T[q] = s[k] BY <2>2, <2>3 DEF k
  <2>5. s[k].row \div bs = b BY <1>7, <2>4 DEF s
  <2> QED BY <2>4, <2>5
<1>16. ASSUME NEW k \in 1 .. N, s[k].row \div bs = b
       PROVE  \E q \in DOMAIN T : T[q] = s[k]
  <2>1. k \in from .. to BY <1>7, <1>16 DEF s
  <2> DEFINE q == k - from + 1
  <2>2. q \in 1 .. to - from + 1 /\ from + q - 1 = k /\ q \in DOMAIN T
    BY <1>11, <1>12, <1>13, <1>14, <2>1
  <2> HIDE DEF q
  <2>3. T[q] = s[from + q - 1] BY <1>12, <1>13, <2>2
  <2> QED BY <2>2, <2>3
<1> QED BY <1>15, <1>16 DEF s, T

LEMMA GatheredFacts ==
  ASSUME Field, NEW coo, IsCoo(coo), NEW bs \in Nat \ {0}, NEW n \in Nat, coo.nrows = n * bs,
         NEW b \in Below(n), NEW stor, NEW c
  PROVE  GatheredBlock(coo, bs, stor, b, c) \in [Below(bs * bs) -> Scalars]
<1> DEFINE Offset(e) == Place([bs |-> bs, stor |-> stor], e.row - b * bs, e.col - c * bs)
           row == BlockRow(coo, bs, b)
           mine == {e \in ToSet(row) : e.col \div bs = c}
           At1(k) == CHOOSE e \in mine : Offset(e) = k
<1>1. row \in Seq(TripletsOf(coo.nrows)) BY BlockRowFacts
<1>2. GatheredBlock(coo, bs, stor, b, c) =
        [k \in Below(bs * bs) |-> IF \E e \in mine : Offset(e) = k THEN At1(k).val ELSE 0]
  BY DEF GatheredBlock
<1> HIDE DEF row, Offset
<1>3. \A e \in mine : e.val \in Scalars
  <2> TAKE e \in mine
  <2>1. PICK q \in DOMAIN row : e = row[q] BY DEF ToSet
  <2>2. row[q] \in TripletsOf(coo.nrows) BY <1>1
  <2> QED BY <2>1, <2>2 DEF TripletsOf
<1> HIDE DEF mine
<1>4. \A k : (\E e \in mine : Offset(e) = k) => At1(k) \in mine OBVIOUS
<1>5. 0 \in Scalars BY DEF Field, Scalars, Below
<1> HIDE DEF At1
<1> QED BY <1>2, <1>3, <1>4, <1>5

\* The triplets of a block, and the place of each in it.
InBlock(e, bs, b, c) == e.row \div bs = b /\ e.col \div bs = c
PlaceOf(m, e) == Place(m, e.row % m.bs, e.col % m.bs)

GathersBlock(g, m, coo, b, c) ==
  /\ \A k \in 1 .. Len(coo.entries) :
       InBlock(coo.entries[k], m.bs, b, c) =>
         g[PlaceOf(m, coo.entries[k])] = coo.entries[k].val
  /\ \A l \in Places(m) :
       \/ g[l] = 0
       \/ \E k \in 1 .. Len(coo.entries) :
            InBlock(coo.entries[k], m.bs, b, c) /\ l = PlaceOf(m, coo.entries[k])

SplitsInto(e, bs, n) ==
  /\ e.row \in Nat /\ e.col \in Nat /\ e.val \in Scalars
  /\ e.row \div bs \in Below(n) /\ e.row % bs \in Below(bs)
  /\ e.row = At(e.row \div bs, bs, e.row % bs)
  /\ e.col \div bs \in Below(n) /\ e.col % bs \in Below(bs)
  /\ e.col = At(e.col \div bs, bs, e.col % bs)

LEMMA TripletBounds ==
  ASSUME NEW coo, IsCoo(coo), NEW bs \in Nat \ {0}, NEW n \in Nat, coo.nrows = n * bs,
         NEW k \in 1 .. Len(coo.entries)
  PROVE  SplitsInto(coo.entries[k], bs, n)
<1> DEFINE e == coo.entries[k]
<1>1. e \in TripletsOf(coo.nrows) /\ coo.nrows \in Nat BY DEF IsCoo
<1>2. e.row \in Below(n * bs) /\ e.col \in Below(n * bs) /\ e.val \in Scalars
  BY <1>1 DEF TripletsOf
<1>3. e.row \in Nat /\ e.col \in Nat BY <1>1, <1>2 DEF Below
<1>4. \A p \in Below(n * bs) :
        /\ p \div bs \in Below(n) /\ p % bs \in Below(bs)
        /\ p = At(p \div bs, bs, p % bs)
  BY IndexFacts
<1>5. /\ e.row \div bs \in Below(n) /\ e.row % bs \in Below(bs)
      /\ e.row = At(e.row \div bs, bs, e.row % bs)
      /\ e.col \div bs \in Below(n) /\ e.col % bs \in Below(bs)
      /\ e.col = At(e.col \div bs, bs, e.col % bs)
  BY <1>2, <1>4
<1> HIDE DEF e
<1>6. SplitsInto(e, bs, n) BY <1>2, <1>3, <1>5 DEF SplitsInto
<1> QED BY <1>6 DEF e

LEMMA GatheredExact ==
  ASSUME NEW coo, IsCoo(coo), Grouped(coo), NEW bs \in Nat \ {0}, NEW n \in Nat,
         coo.nrows = n * bs, NEW b \in Below(n), NEW c, NEW m, m.bs = bs, NEW stor, m.stor = stor
  PROVE  GathersBlock(GatheredBlock(coo, bs, stor, b, c), m, coo, b, c)
<1> DEFINE N == Len(coo.entries)
           s == coo.entries
           T == BlockRow(coo, bs, b)
           Offset(e) == Place([bs |-> bs, stor |-> stor], e.row - b * bs, e.col - c * bs)
           mine == {e \in ToSet(T) : e.col \div bs = c}
           In1(k) == InBlock(s[k], bs, b, c)
           G == GatheredBlock(coo, bs, stor, b, c)
<1>1. G = [k \in Below(bs * bs) |->
             IF \E e \in mine : Offset(e) = k THEN (CHOOSE e \in mine : Offset(e) = k).val ELSE 0]
  BY DEF GatheredBlock
<1>2. ToSet(T) = {T[q] : q \in DOMAIN T} BY DEF ToSet
<1>3. /\ \A q \in DOMAIN T : \E k \in 1 .. N : T[q] = s[k] /\ s[k].row \div bs = b
      /\ \A k \in 1 .. N : s[k].row \div bs = b => \E q \in DOMAIN T : T[q] = s[k]
  BY BlockRowExact
<1> HIDE DEF T
<1>4. \A e \in mine : \E k \in 1 .. N : e = s[k] /\ In1(k)
  <2> TAKE e \in mine
  <2>1. PICK q \in DOMAIN T : e = T[q] BY <1>2
  <2>2. PICK k \in 1 .. N : T[q] = s[k] /\ s[k].row \div bs = b BY <1>3
  <2>3. s[k].col \div bs = c BY <2>1, <2>2
  <2> QED BY <2>1, <2>2, <2>3 DEF InBlock
<1>5. \A k \in 1 .. N : In1(k) => s[k] \in mine
  <2> SUFFICES ASSUME NEW k \in 1 .. N, In1(k) PROVE s[k] \in mine OBVIOUS
  <2>1. s[k].row \div bs = b /\ s[k].col \div bs = c BY DEF InBlock
  <2>2. PICK q \in DOMAIN T : T[q] = s[k] BY <1>3, <2>1
  <2> QED BY <1>2, <2>1, <2>2
<1>6. ASSUME NEW k \in 1 .. N, In1(k)
      PROVE  Offset(s[k]) = PlaceOf(m, s[k]) /\ PlaceOf(m, s[k]) \in Places(m)
  <2> DEFINE e == s[k]
  <2>0. SplitsInto(e, bs, n) BY TripletBounds
  <2> HIDE DEF e
  <2>1. /\ e.row \in Nat /\ e.col \in Nat
        /\ e.row = At(e.row \div bs, bs, e.row % bs) /\ e.row % bs \in Below(bs)
        /\ e.col = At(e.col \div bs, bs, e.col % bs) /\ e.col % bs \in Below(bs)
        /\ e.col \div bs \in Below(n)
    BY <2>0 DEF SplitsInto
  <2>2. e.row \div bs = b /\ e.col \div bs = c BY <1>6 DEF InBlock, e
  <2>3. b \in Nat /\ c \in Nat BY <2>1, <2>2 DEF Below
  <2> DEFINE x == e.row % bs  y == e.col % bs  bb == b * bs  cc == c * bs
  <2>4. x \in Nat /\ y \in Nat /\ bb \in Nat /\ cc \in Nat BY <2>1, <2>3 DEF Below
  <2>5. e.row = bb + x /\ e.col = cc + y BY <2>1, <2>2 DEF At
  <2> HIDE DEF x, y, bb, cc
  <2>6. e.row - bb = x /\ e.col - cc = y BY <2>4, <2>5
  <2>7. Place([bs |-> bs, stor |-> stor], x, y) = Place(m, x, y) BY DEF Place
  <2>8. PlaceOf(m, e) = Place(m, x, y) BY DEF PlaceOf, x, y
  <2>9. Place(m, x, y) \in Places(m) BY <2>1, PlaceOnce DEF x, y
  <2> QED BY <2>6, <2>7, <2>8, <2>9 DEF bb, cc, e
<1>7. ASSUME NEW k \in 1 .. N, NEW l \in 1 .. N, In1(k), In1(l),
             PlaceOf(m, s[k]) = PlaceOf(m, s[l])
      PROVE  k = l
  <2> DEFINE d == s[k]  e == s[l]
  <2>0. SplitsInto(d, bs, n) /\ SplitsInto(e, bs, n) BY TripletBounds
  <2> HIDE DEF d, e
  <2>1. /\ d.row = At(d.row \div bs, bs, d.row % bs) /\ d.row % bs \in Below(bs)
        /\ d.col = At(d.col \div bs, bs, d.col % bs) /\ d.col % bs \in Below(bs)
    BY <2>0 DEF SplitsInto
  <2>2. /\ e.row = At(e.row \div bs, bs, e.row % bs) /\ e.row % bs \in Below(bs)
        /\ e.col = At(e.col \div bs, bs, e.col % bs) /\ e.col % bs \in Below(bs)
    BY <2>0 DEF SplitsInto
  <2>3. /\ d.row \div bs = b /\ d.col \div bs = c
        /\ e.row \div bs = b /\ e.col \div bs = c
    BY <1>7 DEF InBlock, d, e
  <2>4. Place(m, d.row % bs, d.col % bs) = Place(m, e.row % bs, e.col % bs)
    BY <1>7 DEF PlaceOf, d, e
  <2>5. d.row % bs = e.row % bs /\ d.col % bs = e.col % bs
    BY <2>1, <2>2, <2>4, PlaceOnce
  <2>6. d.row = e.row /\ d.col = e.col
    <3>1. /\ d.row = At(b, bs, d.row % bs) /\ d.col = At(c, bs, d.col % bs)
          /\ e.row = At(b, bs, e.row % bs) /\ e.col = At(c, bs, e.col % bs)
      BY <2>1, <2>2, <2>3, Zenon
    <3> QED BY <2>5, <3>1, Zenon
  <2>7. /\ d.row \in Below(coo.nrows)
        /\ k \in coo.rowptr[d.row] + 1 .. coo.rowptr[d.row + 1]
        /\ l \in coo.rowptr[e.row] + 1 .. coo.rowptr[e.row + 1]
    BY GroupedFacts DEF d, e
  <2> DEFINE i == d.row
  <2>8. /\ i \in Below(coo.nrows) /\ k \in coo.rowptr[i] + 1 .. coo.rowptr[i + 1]
        /\ l \in coo.rowptr[i] + 1 .. coo.rowptr[i + 1]
    BY <2>6, <2>7
  <2> HIDE DEF i
  <2> QED BY <2>6, <2>8 DEF IsCoo, d, e
<1> HIDE DEF Offset, mine, In1
<1>8. ASSUME NEW k \in 1 .. N, In1(k)
      PROVE  G[PlaceOf(m, s[k])] = s[k].val
  <2> DEFINE l == PlaceOf(m, s[k])  e == CHOOSE e \in mine : Offset(e) = l
  <2>1. s[k] \in mine /\ Offset(s[k]) = l /\ l \in Below(bs * bs)
    BY <1>5, <1>6, <1>8 DEF Places
  <2>2. e \in mine /\ Offset(e) = l BY <2>1
  <2>3. G[l] = e.val BY <1>1, <2>1
  <2> HIDE DEF e, l, G
  <2>4. PICK j \in 1 .. N : e = s[j] /\ In1(j) BY <1>4, <2>2
  <2>5. PlaceOf(m, s[j]) = PlaceOf(m, s[k]) BY <1>6, <2>2, <2>4 DEF l
  <2>6. j = k BY <1>7, <1>8, <2>4, <2>5
  <2> QED BY <2>3, <2>4, <2>6 DEF l
<1>9. ASSUME NEW l \in Places(m), G[l] # 0
      PROVE  \E k \in 1 .. N : In1(k) /\ l = PlaceOf(m, s[k])
  <2>1. \E e \in mine : Offset(e) = l BY <1>1, <1>9 DEF Places
  <2>2. PICK e \in mine : Offset(e) = l BY <2>1
  <2>3. PICK k \in 1 .. N : e = s[k] /\ In1(k) BY <1>4
  <2> QED BY <1>6, <2>2, <2>3
<1>10. ASSUME NEW k \in 1 .. N, InBlock(s[k], m.bs, b, c)
       PROVE  G[PlaceOf(m, s[k])] = s[k].val
  BY <1>8, <1>10 DEF In1
<1>11. ASSUME NEW l \in Places(m)
       PROVE  \/ G[l] = 0
              \/ \E k \in 1 .. N : InBlock(s[k], m.bs, b, c) /\ l = PlaceOf(m, s[k])
  BY <1>9 DEF In1
<1> QED BY <1>10, <1>11 DEF GathersBlock

LEMMA BSRFacts ==
  ASSUME Field, NEW coo, IsCoo(coo), NEW bs \in Nat \ {0}, coo.nrows % bs = 0, NEW stor
  PROVE  LET D == ConvertToBSR(coo, bs, stor)
         IN /\ Sound(D) /\ D.nbrows = coo.nrows \div bs /\ D.bs = bs
            /\ Grouped(coo) => Gathers(D, coo)
<1> DEFINE n == coo.nrows \div bs
           m == Frame(n, bs, stor, -1)
           C(b) == BlockColumns(coo, bs, b)
           G(b, c) == GatheredBlock(coo, bs, stor, b, c)
           rows == [b \in Below(n) |-> [q \in 1 .. Len(C(b)) |->
                     [col |-> C(b)[q], val |-> G(b, C(b)[q])]]]
           V == [Below(bs * bs) -> Scalars]
<1>1. n \in Nat \ {0} /\ coo.nrows = n * bs
  <2>1. coo.nrows \in Nat \ {0} BY DEF IsCoo
  <2>2. n \in Nat /\ coo.nrows = bs * n + 0 BY <2>1, DivisionFacts
  <2> HIDE DEF n
  <2>3. coo.nrows = n * bs BY <2>1, <2>2
  <2>4. n # 0 BY <2>1, <2>3
  <2> QED BY <2>2, <2>3, <2>4
<1>2. ConvertToBSR(coo, bs, stor) = Located(Packed(m, rows))
  BY DEF ConvertToBSR, Located, Frame
<1> HIDE DEF n
<1>3. /\ IsMatrix(m) /\ m.nbrows = n /\ Rows(m) = Below(n) /\ Places(m) = Below(bs * bs)
      /\ m.bs = bs /\ m.stor = stor
  <2>1. m.stor = stor BY DEF m, Frame
  <2> QED BY <1>1, <2>1, FrameFacts
<1> HIDE DEF m
<1>4. ASSUME NEW b \in Below(n)
      PROVE  /\ C(b) \in Seq(Below(n))
             /\ \A p, q \in 1 .. Len(C(b)) : C(b)[p] = C(b)[q] => p = q
             /\ Meets(coo, bs, b)
  BY <1>1, BlockColumnsFacts
<1>5. \A b \in Below(n), c \in Below(n) : G(b, c) \in V BY <1>1, GatheredFacts
<1> HIDE DEF C, G, V
<1>6. ASSUME NEW b \in Below(n)
      PROVE  /\ rows[b] \in Seq(EntriesOf(n, V)) /\ Len(rows[b]) = Len(C(b))
             /\ \A q \in 1 .. Len(C(b)) : rows[b][q].col = C(b)[q] /\ rows[b][q].val = G(b, C(b)[q])
  <2> DEFINE t == C(b)
             e(q) == [col |-> t[q], val |-> G(b, t[q])]
  <2>1. t \in Seq(Below(n)) BY <1>4
  <2>2. rows[b] = [q \in 1 .. Len(t) |-> e(q)] OBVIOUS
  <2> HIDE DEF t
  <2>3. \A q \in 1 .. Len(t) : t[q] \in Below(n) BY <2>1
  <2>4. \A q \in 1 .. Len(t) : e(q) \in EntriesOf(n, V) BY <1>5, <2>3 DEF EntriesOf
  <2>5. \A q \in 1 .. Len(t) : e(q).col = t[q] /\ e(q).val = G(b, t[q]) OBVIOUS
  <2> HIDE DEF e, rows
  <2>6. Len(t) \in Nat BY <2>1
  <2>7. rows[b] \in Seq(EntriesOf(n, V)) /\ Len(rows[b]) = Len(t)
    BY <2>2, <2>4, <2>6
  <2> QED BY <2>2, <2>5, <2>7 DEF t
<1>7. rows \in Lists(m)
  <2>1. rows \in [Below(n) -> Seq(EntriesOf(n, V))]
    <3>1. rows = [i \in Below(n) |-> rows[i]] OBVIOUS
    <3> HIDE DEF rows
    <3> QED BY <1>6, <3>1
  <2> QED BY <1>3, <2>1 DEF Lists, Entries, V
<1> HIDE DEF rows
<1>8. \A i \in Rows(m) : \A p, q \in 1 .. Len(rows[i]) : rows[i][p].col = rows[i][q].col => p = q
  <2> SUFFICES ASSUME NEW i \in Below(n), NEW p \in 1 .. Len(C(i)), NEW q \in 1 .. Len(C(i)),
                      C(i)[p] = C(i)[q]
               PROVE  p = q
    BY <1>3, <1>6
  <2> QED BY <1>4
<1>9. m.nbrows # 0 BY <1>1, <1>3
<1> DEFINE D == Located(Packed(m, rows))
<1>10. Sound(D) /\ D.nbrows = n /\ D.bs = bs /\ D.stor = stor /\ Keeps(D, rows)
  BY <1>3, <1>7, <1>8, <1>9, PackedSound, PackedKeeps
<1> HIDE DEF D
<1>11. Stored(D) /\ Distinct(D) /\ Rows(D) = Below(n) BY <1>10 DEF Sound, Rows
<1> DEFINE s == coo.entries  N == Len(coo.entries)
<1>12. ASSUME NEW k \in 1 .. N
       PROVE  SplitsInto(s[k], bs, n) /\ Spot(s[k]) \in SquareOf(D)
  <2>1. SplitsInto(s[k], bs, n) BY <1>1, TripletBounds
  <2>2. s[k] \in TripletsOf(coo.nrows) BY DEF IsCoo
  <2>3. s[k].row \in Below(coo.nrows) /\ s[k].col \in Below(coo.nrows) BY <2>2 DEF TripletsOf
  <2>4. Dim(D) = coo.nrows BY <1>1, <1>10 DEF Dim
  <2> QED BY <2>1, <2>3, <2>4 DEF Spot, SquareOf
<1>13. ASSUME NEW k \in 1 .. N, NEW jj, NEW b, NEW c, InBlock(s[k], bs, b, c),
              jj \in Row(D, b), D.bcolind[jj] = c
       PROVE  Holds(D, jj, PlaceOf(D, s[k]), Spot(s[k]))
  <2>1. Spot(s[k])[1] = s[k].row /\ Spot(s[k])[2] = s[k].col BY DEF Spot
  <2>2. s[k].row \div D.bs = b /\ s[k].col \div D.bs = c BY <1>10, <1>13 DEF InBlock
  <2> QED BY <1>13, <2>1, <2>2 DEF Holds, PlaceOf
<1>14. ASSUME Grouped(coo), NEW k \in 1 .. N
       PROVE  \E jj, l : Holds(D, jj, l, Spot(s[k])) /\ D.vals[jj][l] = s[k].val
  <2> DEFINE b == s[k].row \div bs  c == s[k].col \div bs
  <2>1. b \in Below(n) /\ c \in Below(n) BY <1>12 DEF SplitsInto
  <2>2. InBlock(s[k], bs, b, c) BY DEF InBlock
  <2>3. \E q \in DOMAIN BlockRow(coo, bs, b) : BlockRow(coo, bs, b)[q] = s[k]
    BY <1>1, <1>14, <2>1, BlockRowExact
  <2>4. PICK q \in DOMAIN BlockRow(coo, bs, b) : BlockRow(coo, bs, b)[q] = s[k] BY <2>3
  <2>5. PICK p \in 1 .. Len(C(b)) : C(b)[p] = BlockRow(coo, bs, b)[q].col \div bs
    BY <1>4, <2>1 DEF Meets, C
  <2>6. C(b)[p] = c BY <2>4, <2>5
  <2> HIDE DEF b, c
  <2>7. p \in 1 .. Len(rows[b]) /\ rows[b][p].col = c /\ rows[b][p].val = G(b, c)
    BY <1>6, <2>1, <2>6
  <2>13. p \in 1 .. Len(rows[b]) /\ b \in Rows(D) BY <1>11, <2>1, <2>7
  <2>8. PICK jj \in Row(D, b) : D.bcolind[jj] = rows[b][p].col /\ D.vals[jj] = rows[b][p].val
    BY <1>10, <2>13 DEF Keeps
  <2>9. Holds(D, jj, PlaceOf(D, s[k]), Spot(s[k])) BY <1>13, <2>2, <2>7, <2>8
  <2>10. GathersBlock(G(b, c), D, coo, b, c) BY <1>1, <1>10, <1>14, <2>1, GatheredExact DEF G
  <2>11. G(b, c)[PlaceOf(D, s[k])] = s[k].val BY <1>10, <2>2, <2>10 DEF GathersBlock
  <2>12. D.vals[jj][PlaceOf(D, s[k])] = s[k].val BY <2>7, <2>8, <2>11
  <2> QED BY <2>9, <2>12
<1>15. ASSUME Grouped(coo), NEW p \in SquareOf(D), NEW jj, NEW l, Holds(D, jj, l, p)
       PROVE  \/ D.vals[jj][l] = 0
              \/ \E k \in 1 .. N : Spot(s[k]) = p
  <2> DEFINE b == p[1] \div D.bs
  <2>1. b \in Below(n) /\ jj \in Row(D, b)
    <3>1. b \in Rows(D) BY <1>11, StoredBounds, CornerFacts
    <3> QED BY <1>11, <1>15, <3>1 DEF Holds
  <2> HIDE DEF b
  <2>2. PICK q \in 1 .. Len(rows[b]) : D.bcolind[jj] = rows[b][q].col /\ D.vals[jj] = rows[b][q].val
    BY <1>10, <1>11, <2>1 DEF Keeps
  <2> DEFINE c == C(b)[q]
  <2>3. D.bcolind[jj] = c /\ D.vals[jj] = G(b, c) BY <1>6, <2>1, <2>2
  <2> HIDE DEF c
  <2>4. GathersBlock(G(b, c), D, coo, b, c) BY <1>1, <1>10, <1>15, <2>1, GatheredExact DEF G
  <2>5. l \in Places(D) BY <1>11, <1>15, HoldsInside
  <2>6. CASE \E k \in 1 .. N : InBlock(s[k], bs, b, c) /\ l = PlaceOf(D, s[k])
    <3>1. PICK k \in 1 .. N : InBlock(s[k], bs, b, c) /\ l = PlaceOf(D, s[k]) BY <2>6
    <3>2. Holds(D, jj, l, Spot(s[k])) BY <1>13, <2>1, <2>3, <3>1
    <3>3. Spot(s[k]) \in SquareOf(D) BY <1>12
    <3>4. Spot(s[k]) = p BY <1>11, <1>15, <3>2, <3>3, HoldsOnce
    <3> QED BY <3>4
  <2>7. CASE G(b, c)[l] = 0 BY <2>3, <2>7
  <2> QED BY <1>10, <2>4, <2>5, <2>6, <2>7 DEF GathersBlock
<1>16. Grouped(coo) => Gathers(D, coo) BY <1>14, <1>15 DEF Gathers
<1> QED BY <1>2, <1>10, <1>16 DEF D, n

(***************************************************************************)
(* What is read is what the file says, by rows or in blocks: the file is   *)
(* sorted into rows without repeated columns, every entry is at its place  *)
(* in the block of its row and column and nothing else is there, and the   *)
(* diagonal blocks are where diagind says (getSRMatrixFromCOO,             *)
(* coomatrix.cpp).                                                         *)
(***************************************************************************)
THEOREM LoadedDense ==
  ASSUME Field, NEW f, IsFile(f), Readable(f), NEW bs \in Nat \ {0}, f.n % bs = 0, NEW stor
  PROVE  LET D == GetSRMatrixFromCOO(ReadMatrixMarket(f), bs, stor, -1)
         IN Sound(D) /\ Dense(D) = Matrix!Content(f)
<1> DEFINE coo == ReadMatrixMarket(f)  D == GetSRMatrixFromCOO(coo, bs, stor, -1)
<1>1. IsCoo(coo) /\ coo.nrows = f.n /\ Grouped(coo) /\ ReadFrom(coo, f) BY ReadFacts
<1> HIDE DEF coo
<1>2. Sound(D) /\ D.nbrows = coo.nrows \div bs /\ D.bs = bs /\ Gathers(D, coo)
  <2>1. CASE bs = 1
    <3>1. D = ConvertToCSR(coo, -1) BY <2>1 DEF GetSRMatrixFromCOO
    <3>2. Sound(D) /\ D.nbrows = coo.nrows /\ D.bs = 1 /\ Gathers(D, coo)
      BY <1>1, <3>1, CSRFacts
    <3>3. coo.nrows \in Nat BY <1>1 DEF IsCoo
    <3>4. coo.nrows = coo.nrows \div bs
      <4>1. /\ coo.nrows % 1 \in 0 .. 1 - 1 /\ coo.nrows \div 1 \in Nat
            /\ coo.nrows = 1 * (coo.nrows \div 1) + (coo.nrows % 1)
        BY <3>3, DivisionFacts
      <4> DEFINE q == coo.nrows \div 1  r == coo.nrows % 1
      <4> HIDE DEF q, r
      <4>2. r \in 0 .. 1 - 1 /\ q \in Nat /\ coo.nrows = 1 * q + r BY <4>1 DEF q, r
      <4>3. coo.nrows = q BY <4>2
      <4> QED BY <2>1, <4>3 DEF q
    <3> QED BY <2>1, <3>2, <3>4
  <2>2. CASE bs # 1
    <3>1. D = ConvertToBSR(coo, bs, stor) BY <2>2 DEF GetSRMatrixFromCOO
    <3> QED BY <1>1, <3>1, BSRFacts
  <2> QED BY <2>1, <2>2
<1>3. Dim(D) = f.n
  <2>1. f.n \in Nat BY DEF IsFile
  <2> DEFINE q == f.n \div bs
  <2>2. q \in Nat /\ f.n = bs * q + 0 BY <2>1, DivisionFacts
  <2> HIDE DEF q
  <2>3. f.n = q * bs BY <2>2
  <2>4. D.nbrows = q /\ D.bs = bs BY <1>1, <1>2 DEF q
  <2> HIDE DEF D
  <2> QED BY <2>3, <2>4 DEF Dim
<1> HIDE DEF D
<1>4. Stored(D) /\ Distinct(D) BY <1>2 DEF Sound
<1>5. Dense(D) = Matrix!Content(f) BY <1>1, <1>2, <1>3, <1>4, GatheredDense
<1> QED BY <1>2, <1>5 DEF D, coo

LEMMA LoadedSound ==
  ASSUME Field, NEW f, IsFile(f), Readable(f), NEW bs \in Nat \ {0}, f.n % bs = 0, NEW stor
  PROVE  Sound(GetSRMatrixFromCOO(ReadMatrixMarket(f), bs, stor, -1))
BY LoadedDense

-----------------------------------------------------------------------------
LEMMA PositionsFacts ==
  ASSUME NEW m, Stored(m), NEW i \in Rows(m), NEW cols
  PROVE  LET S == {jj \in Row(m, i) : m.bcolind[jj] \in cols}
         IN /\ Cardinality(S) \in Nat
            /\ Positions(m, i, cols) \in Seq(S) /\ Len(Positions(m, i, cols)) = Cardinality(S)
            /\ \A k \in 1 .. Cardinality(S) : Positions(m, i, cols)[k] \in S
            /\ S \subseteq Below(Nnzb(m))
<1> DEFINE S == {jj \in Row(m, i) : m.bcolind[jj] \in cols}
<1>1. Row(m, i) \subseteq Below(Nnzb(m)) BY RowFacts
<1>2. S \in SUBSET Row(m, i) BY <1>1
<1>3. IsFiniteSet(S) BY <1>2, RowFinite, FS_Subset
<1>4. S \subseteq Int
  <2>1. m.browptr[i] \in Nat /\ m.browptr[i + 1] \in Nat BY RowFacts
  <2> QED BY <1>2, <2>1 DEF Row
<1>5. Positions(m, i, cols) = Ordered(S) BY DEF Positions
<1> HIDE DEF S
<1>6. /\ Cardinality(S) \in Nat /\ Ordered(S) \in Seq(S) /\ Len(Ordered(S)) = Cardinality(S)
      /\ \A k \in 1 .. Cardinality(S) : Ordered(S)[k] \in S
  BY <1>3, <1>4, OrderedFacts DEF Enumerates
<1> QED BY <1>1, <1>2, <1>5, <1>6 DEF S

LEMMA RowPlacesFacts ==
  ASSUME NEW m, Stored(m), m.bs = 1, NEW starti \in Nat, NEW startj,
         NEW b \in Nat \ {0}, starti + b <= m.nbrows
  PROVE  RowPlaces(m, starti, startj, b, b, b) \in Seq(PlacesOf(m, b))
<1> DEFINE Found1(r) == Positions(m, starti + r - 1, startj .. m.nbrows - 1)
           L(r) == IF Len(Found1(r)) < b THEN Len(Found1(r)) ELSE b
           From(r, k) == (r - 1) * b + k - 1
           part(r) == [k \in 1 .. L(r) |-> [jj |-> Found1(r)[k], k |-> 0, from |-> From(r, k)]]
           E == PlacesOf(m, b)
           seqs == [r \in 1 .. b |-> part(r)]
<1>1. RowPlaces(m, starti, startj, b, b, b) = FlattenSeq(seqs) BY DEF RowPlaces
<1>2. 0 \in Places(m) BY DEF Places, Below
<1>3. ASSUME NEW r \in 1 .. b
      PROVE  /\ L(r) \in Nat /\ L(r) <= b
             /\ \A k \in 1 .. L(r) : Found1(r)[k] \in Below(Nnzb(m))
  <2> DEFINE i == starti + r - 1
             C == startj .. m.nbrows - 1
             S == {jj \in Row(m, i) : m.bcolind[jj] \in C}
  <2>1. i \in Rows(m)
    <3>1. m.nbrows \in Nat BY DEF Stored, IsMatrix
    <3> QED BY <3>1 DEF Rows, Below
  <2> HIDE DEF i, C
  <2>2. /\ Cardinality(S) \in Nat
        /\ Len(Positions(m, i, C)) = Cardinality(S)
        /\ \A k \in 1 .. Cardinality(S) : Positions(m, i, C)[k] \in S
        /\ S \subseteq Below(Nnzb(m))
    BY <2>1, PositionsFacts
  <2>3. Found1(r) = Positions(m, i, C) BY DEF i, C
  <2> HIDE DEF S, Found1
  <2> QED BY <2>2, <2>3
<1>4. ASSUME NEW r \in 1 .. b, NEW k \in 1 .. b PROVE From(r, k) \in Below(b * b)
  <2> DEFINE x == r - 1  y == k - 1
  <2>1. x \in Below(b) /\ y \in Below(b) BY DEF Below
  <2>2. At(x, b, y) \in Below(b * b) BY <2>1, IndexFacts
  <2>3. From(r, k) = x * b + y
    <3>1. x * b \in Int OBVIOUS
    <3> QED BY <3>1
  <2> QED BY <2>2, <2>3 DEF At
<1> HIDE DEF Found1, From
<1>5. ASSUME NEW r \in 1 .. b PROVE part(r) \in Seq(E)
  <2>1. \A k \in 1 .. L(r) : [jj |-> Found1(r)[k], k |-> 0, from |-> From(r, k)] \in E
    <3> TAKE k \in 1 .. L(r)
    <3>1. k \in 1 .. b BY <1>3
    <3> QED BY <1>2, <1>3, <1>4, <3>1 DEF PlacesOf
  <2> HIDE DEF E
  <2>2. part(r) \in [1 .. L(r) -> E] BY <2>1
  <2>3. L(r) \in Nat BY <1>3
  <2> HIDE DEF L, part
  <2> QED BY <2>2, <2>3
<1> HIDE DEF part, E
<1>6. seqs \in [1 .. b -> Seq(E)] BY <1>5
<1> HIDE DEF seqs
<1> QED BY <1>1, <1>6, FlattenTyped DEF E

LEMMA BlockPlacesFacts ==
  ASSUME NEW m, Stored(m), NEW starti \in Nat, NEW startj, starti \div m.bs \in Rows(m)
  PROVE  BlockPlaces(m, starti, startj) \in Seq(PlacesOf(m, m.bs))
<1> DEFINE i == starti \div m.bs
           C == {startj \div m.bs}
           S == {jj \in Row(m, i) : m.bcolind[jj] \in C}
           N == Cardinality(S)
           found == Positions(m, i, C)
           bb == m.bs * m.bs
           part(q) == [k \in 1 .. bb |-> [jj |-> found[q], k |-> k - 1, from |-> k - 1]]
           E == PlacesOf(m, m.bs)
           seqs == [q \in 1 .. N |-> part(q)]
<1>1. S = {jj \in Row(m, i) : m.bcolind[jj] = startj \div m.bs} OBVIOUS
<1>2. BlockPlaces(m, starti, startj) = FlattenSeq(seqs)
  BY <1>1 DEF BlockPlaces
<1> HIDE DEF C, i
<1>3. /\ N \in Nat /\ \A q \in 1 .. N : found[q] \in S
      /\ S \subseteq Below(Nnzb(m))
  BY PositionsFacts DEF i
<1>4. bb \in Nat /\ Places(m) = Below(bb)
  <2>1. m.bs \in Nat BY DEF Stored, IsMatrix
  <2> QED BY <2>1 DEF Places
<1> HIDE DEF S, N, found
<1>5. ASSUME NEW q \in 1 .. N PROVE part(q) \in Seq(E)
  <2>1. \A k \in 1 .. bb : k - 1 \in Below(bb) BY <1>4 DEF Below
  <2>2. E = [jj : Below(Nnzb(m)), k : Below(bb), from : Below(bb)]
    BY <1>4 DEF PlacesOf
  <2> HIDE DEF bb, E
  <2>3. \A k \in 1 .. bb : [jj |-> found[q], k |-> k - 1, from |-> k - 1] \in E
    BY <1>3, <2>1, <2>2
  <2>4. part(q) \in [1 .. bb -> E] BY <2>3
  <2> QED BY <1>4, <2>4
<1> HIDE DEF part, E
<1>6. seqs \in [1 .. N -> Seq(E)] BY <1>5
<1> HIDE DEF seqs
<1> QED BY <1>2, <1>3, <1>6, FlattenTyped DEF E

(***************************************************************************)
(* A row that is sorted and has all the columns from lo to hi has them     *)
(* next to each other.                                                     *)
(***************************************************************************)
LEMMA RowAscends ==
  ASSUME NEW m, Stored(m), SortedRows(m), NEW i \in Rows(m)
  PROVE  \A jj, kk \in Row(m, i) : jj < kk => m.bcolind[jj] < m.bcolind[kk]
<1> DEFINE s == RowList(m)[i]
           a == m.browptr[i]
<1>1. Ascending(s) BY AscendingRows
<1>2. \A jj \in Row(m, i) : /\ jj - a + 1 \in 1 .. Len(s)
                            /\ s[jj - a + 1] = [col |-> m.bcolind[jj], val |-> m.vals[jj]]
  BY RowListFacts
<1>3. a \in Nat /\ m.browptr[i + 1] \in Nat BY RowFacts
<1>4. Row(m, i) \subseteq Int BY <1>3 DEF Row
<1> HIDE DEF s, a
<1> TAKE jj, kk \in Row(m, i)
<1> HAVE jj < kk
<1> DEFINE p == jj - a + 1  q == kk - a + 1
<1>5. p < q BY <1>3, <1>4
<1>6. p \in 1 .. Len(s) /\ q \in 1 .. Len(s) BY <1>2
<1>7. s[p].col = m.bcolind[jj] /\ s[q].col = m.bcolind[kk]
  <2> DEFINE c == m.bcolind[jj]  v == m.vals[jj]  d == m.bcolind[kk]  w == m.vals[kk]
  <2>1. s[p] = [col |-> c, val |-> v] /\ s[q] = [col |-> d, val |-> w] BY <1>2
  <2> HIDE DEF c, v, d, w, p, q
  <2>2. s[p].col = c /\ s[q].col = d BY <2>1
  <2> QED BY <2>2 DEF c, d
<1> HIDE DEF p, q
<1> QED BY <1>1, <1>5, <1>6, <1>7 DEF Ascending

LEMMA ConsecutiveColumns ==
  ASSUME NEW m, Stored(m), SortedRows(m), NEW i \in Rows(m), NEW lo \in Int, NEW hi \in Int,
         lo .. hi \subseteq ColumnsOf(m, i)
  PROVE  \A jj, kk \in Row(m, i) :
           m.bcolind[jj] \in lo .. hi /\ m.bcolind[kk] \in lo .. hi
             => kk - jj = m.bcolind[kk] - m.bcolind[jj]
<1> DEFINE R == Row(m, i)
           c(jj) == m.bcolind[jj]
           T == {d \in Nat : \A jj \in R :
                   c(jj) \in lo .. hi /\ c(jj) + d \in lo .. hi
                     => jj + d \in R /\ c(jj + d) = c(jj) + d}
<1>1. m.browptr[i] \in Nat /\ m.browptr[i + 1] \in Nat BY RowFacts
<1>2. R \subseteq Int /\ \A jj, kk \in R : \A x \in Int : jj <= x /\ x <= kk => x \in R
  BY <1>1 DEF Row
<1>3. \A jj \in R : c(jj) \in Int
  <2>1. R \subseteq Below(Nnzb(m)) BY RowFacts
  <2>2. \A jj \in Below(Nnzb(m)) : m.bcolind[jj] \in Rows(m) BY DEF Stored
  <2> QED BY <2>1, <2>2 DEF Rows, Below
<1>4. \A jj, kk \in R : jj < kk => c(jj) < c(kk) BY RowAscends
<1>5. \A x \in lo .. hi : \E kk \in R : c(kk) = x BY DEF ColumnsOf
<1> HIDE DEF R, c
<1>6. 0 \in T
  <2>1. \A jj \in R : jj + 0 = jj /\ c(jj) + 0 = c(jj) BY <1>2, <1>3
  <2> QED BY <2>1
<1>7. ASSUME NEW d \in Nat, d \in T PROVE d + 1 \in T
  <2> SUFFICES ASSUME NEW jj \in R, c(jj) \in lo .. hi, c(jj) + (d + 1) \in lo .. hi
               PROVE  jj + (d + 1) \in R /\ c(jj + (d + 1)) = c(jj) + (d + 1)
    OBVIOUS
  <2>1. c(jj) + d \in lo .. hi BY <1>3
  <2> DEFINE a == jj + d  z == a + 1  x == c(jj) + d
  <2>2. a \in R /\ c(a) = x BY <1>7, <2>1
  <2>3. x \in Int /\ x + 1 = c(jj) + (d + 1) /\ jj + (d + 1) = z /\ x + 1 \in lo .. hi
    BY <1>2, <1>3
  <2>4. a \in Int /\ z = a + 1 /\ z \in Int BY <1>2, <2>2
  <2> HIDE DEF a, z, x
  <2>5. PICK kk \in R : c(kk) = x + 1 BY <1>5, <2>3
  <2>6. kk \in Int BY <1>2
  <2>7. a < kk
    <3>1. kk # a BY <2>2, <2>3, <2>5
    <3>2. ~(kk < a) BY <1>4, <2>2, <2>3, <2>5
    <3> QED BY <2>4, <2>6, <3>1, <3>2
  <2>8. z \in R BY <1>2, <2>2, <2>4, <2>6, <2>7
  <2>9. c(a) < c(z) BY <1>4, <2>2, <2>4, <2>8
  <2>10. z = kk \/ c(z) < c(kk)
    <3>1. z = kk \/ z < kk BY <2>4, <2>6, <2>7
    <3> QED BY <1>4, <2>8, <3>1
  <2>11. c(z) = x + 1 BY <1>3, <2>2, <2>3, <2>5, <2>8, <2>9, <2>10
  <2> QED BY <2>3, <2>8, <2>11
<1> HIDE DEF T
<1>8. Nat \subseteq T BY <1>6, <1>7, NumbersInduction
<1>9. ASSUME NEW jj \in R, NEW kk \in R, c(jj) \in lo .. hi, c(kk) \in lo .. hi, c(jj) <= c(kk)
      PROVE  kk - jj = c(kk) - c(jj)
  <2> DEFINE d == c(kk) - c(jj)
  <2>1. d \in Nat /\ c(jj) + d = c(kk) BY <1>3, <1>9
  <2> HIDE DEF d
  <2>2. jj + d \in R /\ c(jj + d) = c(kk) BY <1>8, <1>9, <2>1 DEF T
  <2> DEFINE l == jj + d
  <2>3. l \in R /\ c(l) = c(kk) BY <2>2
  <2>4. l = jj + d OBVIOUS
  <2> HIDE DEF l
  <2>5. l = kk
    <3>1. l \in Int /\ kk \in Int /\ c(kk) \in Int BY <1>2, <1>3, <2>3
    <3>2. ~(l < kk) /\ ~(kk < l) BY <1>4, <2>3, <3>1
    <3> QED BY <3>1, <3>2
  <2>6. jj \in Int BY <1>2
  <2>7. kk - jj = d BY <2>1, <2>4, <2>5, <2>6
  <2> QED BY <2>7 DEF d
<1>10. ASSUME NEW jj \in R, NEW kk \in R, c(jj) \in lo .. hi, c(kk) \in lo .. hi
       PROVE  kk - jj = c(kk) - c(jj)
  <2>1. c(jj) <= c(kk) \/ c(kk) <= c(jj) BY <1>3
  <2>2. CASE c(jj) <= c(kk) BY <1>9, <1>10, <2>2
  <2>3. CASE c(kk) <= c(jj)
    <3>1. jj - kk = c(jj) - c(kk) BY <1>9, <1>10, <2>3
    <3>2. jj \in Int /\ kk \in Int /\ c(jj) \in Int /\ c(kk) \in Int BY <1>2, <1>3
    <3> QED BY <3>1, <3>2
  <2> QED BY <2>1, <2>2, <2>3
<1> QED BY <1>10 DEF R, c

\* The entry of column x, from the one of column y.
LEMMA NextColumns ==
  ASSUME NEW m, Stored(m), SortedRows(m), NEW i \in Rows(m), NEW lo \in Int, NEW hi \in Int,
         lo .. hi \subseteq ColumnsOf(m, i), NEW jj \in Row(m, i), m.bcolind[jj] \in lo .. hi,
         NEW x \in lo .. hi
  PROVE  LET kk == jj + (x - m.bcolind[jj]) IN kk \in Row(m, i) /\ m.bcolind[kk] = x
<1>1. PICK l \in Row(m, i) : m.bcolind[l] = x BY DEF ColumnsOf
<1>2. l - jj = x - m.bcolind[jj] BY <1>1, ConsecutiveColumns
<1>3. l \in Int /\ jj \in Int
  <2>1. m.browptr[i] \in Nat /\ m.browptr[i + 1] \in Nat BY RowFacts
  <2> QED BY <2>1 DEF Row
<1>4. m.bcolind[jj] \in Int OBVIOUS
<1>5. l = jj + (x - m.bcolind[jj]) BY <1>2, <1>3, <1>4
<1> QED BY <1>1, <1>5

-----------------------------------------------------------------------------
(***************************************************************************)
(* The places of a block that fits.                                        *)
(***************************************************************************)
IsBlock(k) ==
  k.i \in Nat /\ k.j \in Nat /\ k.b \in Nat \ {0} /\ k.buf \in [1 .. k.b * k.b -> Scalars]

LEMMA FittingRows ==
  ASSUME Stored(mat), NEW k, IsBlock(k), Fits(k), mat.bs # 1
  PROVE  k.b = mat.bs /\ k.i \div mat.bs \in Rows(mat)
<1>1. mat.nbrows \in Nat /\ mat.bs \in Nat \ {0} BY DEF Stored, IsMatrix
<1>2. k.b = mat.bs /\ k.i + k.b <= mat.nbrows * mat.bs BY DEF Fits, Dim
<1> DEFINE N == mat.nbrows * mat.bs
<1>3. N \in Nat BY <1>1
<1>4. k.i \in Nat /\ k.b \in Nat \ {0} BY DEF IsBlock
<1>5. k.i \in Below(N)
  <2>1. k.i + k.b <= N BY <1>2
  <2> HIDE DEF N
  <2> QED BY <1>3, <1>4, <2>1 DEF Below
<1> QED BY <1>1, <1>2, <1>5, IndexFacts DEF Rows

LEMMA FittingPlaces ==
  ASSUME Stored(mat), NEW k, IsBlock(k), Fits(k)
  PROVE  /\ SubmitPlaces(mat, k.i, k.j, k.b, k.b) \in Seq(PlacesOf(mat, k.b))
         /\ UpdatePlaces(mat, k.i, k.j, k.b, k.b) \in Seq(PlacesOf(mat, k.b))
<1>1. CASE mat.bs = 1
  <2>1. k.i \in Nat /\ k.b \in Nat \ {0} BY DEF IsBlock
  <2>2. k.i + k.b <= mat.nbrows
    <3>1. mat.nbrows \in Nat BY DEF Stored, IsMatrix
    <3>2. mat.nbrows * 1 = mat.nbrows BY <3>1
    <3> QED BY <1>1, <3>2 DEF Fits, Dim
  <2>3. RowPlaces(mat, k.i, k.j, k.b, k.b, k.b) \in Seq(PlacesOf(mat, k.b))
    BY <1>1, <2>1, <2>2, RowPlacesFacts
  <2> QED BY <1>1, <2>3 DEF SubmitPlaces, UpdatePlaces
<1>2. CASE mat.bs # 1
  <2>1. k.i \in Nat BY DEF IsBlock
  <2>2. BlockPlaces(mat, k.i, k.j) \in Seq(PlacesOf(mat, k.b))
    BY <1>2, <2>1, FittingRows, BlockPlacesFacts
  <2> QED BY <1>2, <2>2 DEF SubmitPlaces, UpdatePlaces
<1> QED BY <1>1, <1>2

(***************************************************************************)
(* The places that updateDiagBlock of a CSR matrix goes to, counted from   *)
(* the diagonal entries, are those of the block: the one for row r and     *)
(* column c of the block has this row and this column (blockmatrices.ipp). *)
(***************************************************************************)
THEOREM DiagonalEntries ==
  ASSUME Sound(mat), NEW k, IsBlock(k), Fits(k), k.i = k.j, mat.bs = 1,
         NEW r \in Below(k.b), NEW c \in Below(k.b)
  PROVE  /\ k.i + r \in Rows(mat)
         /\ mat.diagind[k.i + r] - r + c \in Row(mat, k.i + r)
         /\ mat.bcolind[mat.diagind[k.i + r] - r + c] = k.i + c
<1> DEFINE i == k.i + r  lo == k.i  hi == k.i + k.b - 1  d == mat.diagind[i]
<1>1. k.i \in Nat /\ k.b \in Nat \ {0} BY DEF IsBlock
<1>2. i \in Rows(mat)
  <2>1. mat.nbrows \in Nat BY DEF Sound, Stored, IsMatrix
  <2>2. k.i + k.b <= mat.nbrows
    <3>1. mat.nbrows * 1 = mat.nbrows BY <2>1
    <3> QED BY <3>1 DEF Fits, Dim
  <2> QED BY <1>1, <2>1, <2>2 DEF Rows, Below
<1>3. SortedRows(mat) /\ lo .. hi \subseteq ColumnsOf(mat, i)
  <2>1. i \in k.i .. k.i + k.b - 1 BY <1>1 DEF Below
  <2> QED BY <2>1 DEF Fits
<1>4. i \in lo .. hi /\ k.i + c \in lo .. hi /\ lo \in Int /\ hi \in Int
  BY <1>1 DEF Below
<1>5. i \in Int /\ (k.i + c) - i = c - r /\ r \in Int /\ c \in Int BY <1>1 DEF Below
<1> HIDE DEF i, lo, hi
<1>6. \E jj \in Row(mat, i) : mat.bcolind[jj] = i BY <1>3, <1>4 DEF ColumnsOf
<1>7. d \in Row(mat, i) /\ mat.bcolind[d] = i BY <1>2, <1>6 DEF Sound, Found
<1> HIDE DEF d
<1> DEFINE x == k.i + c  e == d + (x - mat.bcolind[d])
<1>8. e \in Row(mat, i) /\ mat.bcolind[e] = x
  <2>1. Stored(mat) BY DEF Sound
  <2>2. x \in lo .. hi BY <1>4
  <2> HIDE DEF x
  <2> QED BY <1>2, <1>3, <1>4, <1>7, <2>1, <2>2, NextColumns
<1>9. e = d - r + c
  <2>1. d \in Int
    <3>1. mat.browptr[i] \in Nat /\ mat.browptr[i + 1] \in Nat
      BY <1>2, RowFacts DEF Sound
    <3> QED BY <1>7, <3>1 DEF Row
  <2>2. e = d + (x - i) BY <1>7
  <2> HIDE DEF e, x
  <2> QED BY <1>5, <2>1, <2>2 DEF x
<1> QED BY <1>2, <1>8, <1>9 DEF i, d

LEMMA FittingDiagPlaces ==
  ASSUME Sound(mat), NEW k, IsBlock(k), Fits(k), k.i = k.j
  PROVE  DiagPlaces(mat, k.i, k.b) \in Seq(PlacesOf(mat, k.b))
<1> DEFINE b == k.b  bb == b * b  E == PlacesOf(mat, b)
<1>1. Stored(mat) BY DEF Sound
<1>2. k.i \in Nat /\ b \in Nat \ {0} /\ bb \in Nat BY DEF IsBlock
<1>3. \A q \in 1 .. bb : q - 1 \in Below(bb)
  <2> HIDE DEF bb
  <2> QED BY <1>2 DEF Below
<1>4. CASE mat.bs = 1
  <2> DEFINE r(q) == (q - 1) \div b  c(q) == (q - 1) % b
             entry(q) == [jj |-> mat.diagind[k.i + r(q)] - r(q) + c(q), k |-> 0,
                          from |-> r(q) * b + c(q)]
             s == [q \in 1 .. bb |-> entry(q)]
  <2>1. DiagPlaces(mat, k.i, k.b) = s BY <1>4 DEF DiagPlaces, DiagRowPlaces
  <2>2. \A q \in 1 .. bb : entry(q) \in E
    <3> TAKE q \in 1 .. bb
    <3> DEFINE p == q - 1  R == p \div b  C == p % b
               J == mat.diagind[k.i + R] - R + C
    <3>1. p \in Below(b * b) BY <1>3
    <3> HIDE DEF p
    <3>2. R \in Below(b) /\ C \in Below(b) /\ p = R * b + C
      BY <1>2, <3>1, IndexFacts DEF At
    <3> HIDE DEF R, C
    <3>3. k.i + R \in Rows(mat) /\ J \in Row(mat, k.i + R)
      BY <1>4, <3>2, DiagonalEntries
    <3>4. J \in Below(Nnzb(mat)) BY <1>1, <3>3, RowFacts
    <3>5. 0 \in Places(mat) BY <1>4 DEF Places, Below
    <3>6. entry(q) = [jj |-> J, k |-> 0, from |-> R * b + C] BY DEF p, R, C
    <3> HIDE DEF J, b, entry
    <3> QED BY <3>1, <3>2, <3>4, <3>5, <3>6 DEF PlacesOf
  <2> HIDE DEF entry, E, bb
  <2>3. s \in [1 .. bb -> E] BY <2>2
  <2> HIDE DEF s
  <2>4. s \in Seq(E) BY <1>2, <2>3
  <2> QED BY <2>1, <2>4 DEF E, b
<1>5. CASE mat.bs # 1
  <2> DEFINE i == k.i \div mat.bs
             d == mat.diagind[i]
             s == [q \in 1 .. bb |-> [jj |-> d, k |-> q - 1, from |-> q - 1]]
  <2>1. b = mat.bs /\ i \in Rows(mat) BY <1>1, <1>5, FittingRows
  <2>2. DiagPlaces(mat, k.i, k.b) = s BY <1>5, <2>1 DEF DiagPlaces
  <2>3. d \in Below(Nnzb(mat))
    <3>1. i \in ColumnsOf(mat, i) BY <1>5 DEF Fits
    <3>2. \E jj \in Row(mat, i) : mat.bcolind[jj] = i BY <3>1 DEF ColumnsOf
    <3>3. d \in Row(mat, i) BY <2>1, <3>2 DEF Sound, Found
    <3> QED BY <1>1, <2>1, <3>3, RowFacts
  <2>4. Places(mat) = Below(bb) BY <2>1 DEF Places
  <2>5. E = [jj : Below(Nnzb(mat)), k : Below(bb), from : Below(bb)]
    BY <2>4 DEF PlacesOf
  <2> HIDE DEF d, E, bb
  <2>6. \A q \in 1 .. bb : [jj |-> d, k |-> q - 1, from |-> q - 1] \in E
    BY <1>3, <2>3, <2>5
  <2>7. s \in [1 .. bb -> E] BY <2>6
  <2> HIDE DEF s
  <2>8. s \in Seq(E) BY <1>2, <2>7
  <2> QED BY <2>2, <2>8 DEF E, b
<1> QED BY <1>4, <1>5

-----------------------------------------------------------------------------
(***************************************************************************)
(* What is passed, by the assumptions on the constants.                    *)
(***************************************************************************)
LEMMA Passed ==
  /\ Field
  /\ \A s \in Structures : IsStructure(s)
  /\ \A f \in Files : IsFile(f)
  /\ \A bs \in BlockSizes : bs \in Nat \ {0}
  /\ \A factor \in Factors : factor \in Nat
  /\ \A k \in Blocks : IsBlock(k)
<1>1. Field BY ModAssumption
<1>2. \A s \in Structures : IsStructure(s) BY StructuresAssumption DEF IsStructure
<1>3. \A f \in Files : IsFile(f) BY FilesAssumption DEF IsFile
<1>4. \A bs \in BlockSizes : bs \in Nat \ {0} BY ArgumentsAssumption
<1>5. \A factor \in Factors : factor \in Nat BY ArgumentsAssumption
<1>6. \A k \in Blocks : IsBlock(k) BY ArgumentsAssumption DEF IsBlock
<1> QED BY <1>1, <1>2, <1>3, <1>4, <1>5, <1>6

LEMMA PassedOrderings ==
  ASSUME NEW o \in Orderings, NEW n \in Nat \ {0},
         n \in {Cardinality(DOMAIN p) : p \in {o.rp, o.cp}}
  PROVE  OrdersRows(o, n)
<1> DEFINE rp == o.rp  cp == o.cp  rs == o.rowscale  cs == o.colscale
<1>1. PICK p \in {rp, cp} : IsOrdering(o, Cardinality(DOMAIN p))
  BY OrderingsAssumption
<1>2. PICK q \in {rp, cp} : n = Cardinality(DOMAIN q) OBVIOUS
<1> DEFINE k == Cardinality(DOMAIN p)
<1>3. /\ o = SetOrdering(rp, cp, rs, cs)
      /\ \A r \in {rp, cp} \ {None} : IsPermutation(r, Below(k))
      /\ \A scale \in {rs, cs} \ {None} : scale \in [Below(k) -> Units]
  BY <1>1 DEF IsOrdering
<1>4. o.icp = InvertPermutation(cp)
  <2>1. SetOrdering(rp, cp, rs, cs).icp = InvertPermutation(cp) BY DEF SetOrdering
  <2> QED BY <1>3, <2>1
<1> HIDE DEF rp, cp, rs, cs
<1>5. DOMAIN None = {} /\ Cardinality({}) = 0
  <2>1. DOMAIN None = {} BY DEF None
  <2> QED BY <2>1, FS_EmptySet
<1>6. q # None BY <1>2, <1>5
<1>7. DOMAIN q = Below(k) BY <1>2, <1>3, <1>6 DEF IsPermutation
<1>8. p # None
  <2> SUFFICES ASSUME p = None PROVE FALSE OBVIOUS
  <2>1. k = 0 BY <1>5
  <2>2. Below(0) = {} BY DEF Below
  <2> HIDE DEF k
  <2>3. DOMAIN q = {} BY <1>7, <2>1, <2>2
  <2> QED BY <1>2, <1>5, <2>3
<1>9. DOMAIN p = Below(k) BY <1>1, <1>3, <1>8 DEF IsPermutation
<1>10. k = n BY <1>2, <1>7, <1>9
<1> HIDE DEF k
<1>11. rp # None => IsPermutation(rp, Below(n)) BY <1>3, <1>10
<1>12. cp # None => /\ IsPermutation(cp, Below(n)) /\ o.icp \in [Below(n) -> Below(n)]
                    /\ \A v \in Below(n) : cp[o.icp[v]] = v
  <2> SUFFICES ASSUME cp # None
               PROVE  /\ IsPermutation(cp, Below(n)) /\ o.icp \in [Below(n) -> Below(n)]
                      /\ \A v \in Below(n) : cp[o.icp[v]] = v
    OBVIOUS
  <2>1. IsPermutation(cp, Below(n)) BY <1>3, <1>10
  <2> DEFINE D == Below(n)
             inv == [v \in D |-> CHOOSE i \in D : cp[i] = v]
  <2>2. DOMAIN cp = D BY <2>1 DEF IsPermutation
  <2>3. o.icp = inv BY <1>4, <2>2 DEF InvertPermutation
  <2>4. \A v \in D : \E i \in D : cp[i] = v BY <2>1 DEF IsPermutation
  <2> HIDE DEF D
  <2>5. \A v \in D : inv[v] \in D /\ cp[inv[v]] = v BY <2>4
  <2>6. inv \in [D -> D] BY <2>5
  <2> HIDE DEF inv
  <2> QED BY <2>1, <2>3, <2>5, <2>6 DEF D
<1>13. (rs # None => rs \in [Below(n) -> Units]) /\ (cs # None => cs \in [Below(n) -> Units])
  BY <1>3, <1>10
<1> QED BY <1>11, <1>12, <1>13 DEF OrdersRows, rp, cp, rs, cs

(***************************************************************************)
(* The additions that are pending.                                         *)
(***************************************************************************)
Pending(m) == [jj : Below(Nnzb(m)), k : Places(m), amount : Scalars]

LEMMA AdditionsFacts ==
  ASSUME NEW m, NEW k, IsBlock(k), NEW places \in Seq(PlacesOf(m, k.b))
  PROVE  Additions(places, k) \in Seq(Pending(m))
<1> DEFINE bb == k.b * k.b  E == PlacesOf(m, k.b)  N == Len(places)
           entry(p) == [jj |-> p.jj, k |-> p.k, amount |-> k.buf[p.from + 1]]
           s == [q \in 1 .. N |-> entry(places[q])]
<1>1. N \in Nat /\ DOMAIN places = 1 .. N /\ \A q \in 1 .. N : places[q] \in E
  <2>1. places \in Seq(E) OBVIOUS
  <2> HIDE DEF E
  <2> QED BY <2>1
<1>2. Additions(places, k) = s BY <1>1 DEF Additions
<1>3. \A p \in E : entry(p) \in Pending(m)
  <2> TAKE p \in E
  <2>1. p.jj \in Below(Nnzb(m)) /\ p.k \in Places(m) /\ p.from \in Below(bb)
    BY DEF PlacesOf
  <2>2. bb \in Nat /\ k.buf \in [1 .. bb -> Scalars] BY DEF IsBlock
  <2> HIDE DEF bb
  <2>3. p.from + 1 \in 1 .. bb BY <2>1, <2>2 DEF Below
  <2> DEFINE a == k.buf[p.from + 1]
  <2>4. a \in Scalars BY <2>2, <2>3
  <2> HIDE DEF a
  <2> QED BY <2>1, <2>4 DEF Pending, a
<1> HIDE DEF entry, E, N
<1>4. s \in [1 .. N -> Pending(m)] BY <1>1, <1>3
<1> HIDE DEF s
<1> QED BY <1>1, <1>2, <1>4

LEMMA NoneIsPending ==
  ASSUME NEW E, NEW F, job \in [Threads -> Seq(E)], Idle
  PROVE  job \in [Threads -> Seq(F)]
<1>1. \A t \in Threads : job[t] = <<>> BY DEF Idle
<1>2. <<>> \in Seq(F) OBVIOUS
<1> QED BY <1>1, <1>2

LEMMA SameStructureFacts ==
  ASSUME NEW k, NEW m, NEW l
  PROVE  /\ SameStructure(m, m)
         /\ SameStructure(k, m) /\ SameStructure(m, l) => SameStructure(k, l)
         /\ SameStructure(k, m) => /\ Nnzb(k) = Nnzb(m) /\ Places(k) = Places(m)
                                   /\ Pending(k) = Pending(m) /\ k.nbrows = m.nbrows
BY StructuresAlike DEF Pending

-----------------------------------------------------------------------------
(***************************************************************************)
(* Matrices that differ from m in their values alone.                      *)
(***************************************************************************)
ValuesOf(m) == [Below(Nnzb(m)) -> [Places(m) -> Scalars]]
Variants(m) == {[m EXCEPT !.vals = v] : v \in ValuesOf(m)}

LEMMA VariantFacts ==
  ASSUME NEW m, Stored(m)
  PROVE  /\ m \in Variants(m)
         /\ \A n : n \in Variants(m) <=> Stored(n) /\ SameStructure(n, m)
         /\ \A n \in Variants(m) : /\ Nnzb(n) = Nnzb(m) /\ Places(n) = Places(m)
                                   /\ n.vals \in ValuesOf(m)
         /\ \A n, l \in Variants(m) :
              (\A jj \in Below(Nnzb(m)), k \in Places(m) : n.vals[jj][k] = l.vals[jj][k]) => n = l
<1>1. ASSUME NEW n \in Variants(m)
      PROVE  /\ Stored(n) /\ SameStructure(n, m) /\ n.vals \in ValuesOf(m)
             /\ n = [m EXCEPT !.vals = n.vals]
  <2>1. PICK v \in ValuesOf(m) : n = [m EXCEPT !.vals = v] BY DEF Variants
  <2>2. Stored(n) /\ SameStructure(n, m) /\ n.vals = v BY <2>1, RevaluedFacts DEF ValuesOf
  <2> QED BY <2>1, <2>2
<1>2. ASSUME NEW n, Stored(n), SameStructure(n, m) PROVE n \in Variants(m)
  <2>1. /\ n.nbrows = m.nbrows /\ n.bs = m.bs /\ n.stor = m.stor /\ n.browptr = m.browptr
        /\ n.bcolind = m.bcolind /\ n.diagind = m.diagind
    BY <1>2 DEF SameStructure, SameFrame
  <2>2. n.vals \in ValuesOf(m)
    BY <1>2, <2>1 DEF Stored, ValuesOf, Nnzb, Places
  <2>3. m = [nbrows |-> m.nbrows, bs |-> m.bs, stor |-> m.stor, browptr |-> m.browptr,
             bcolind |-> m.bcolind, vals |-> m.vals, diagind |-> m.diagind]
    BY DEF Stored, IsMatrix
  <2>4. n = [nbrows |-> m.nbrows, bs |-> m.bs, stor |-> m.stor, browptr |-> m.browptr,
             bcolind |-> m.bcolind, vals |-> n.vals, diagind |-> m.diagind]
    BY <1>2, <2>1 DEF Stored, IsMatrix
  <2>5. [m EXCEPT !.vals = n.vals] =
          [nbrows |-> m.nbrows, bs |-> m.bs, stor |-> m.stor, browptr |-> m.browptr,
           bcolind |-> m.bcolind, vals |-> n.vals, diagind |-> m.diagind]
    BY <2>3
  <2> QED BY <2>2, <2>4, <2>5 DEF Variants
<1>3. m \in Variants(m) BY <1>2, SameStructureFacts
<1>4. \A n \in Variants(m) : Nnzb(n) = Nnzb(m) /\ Places(n) = Places(m)
  BY <1>1, SameStructureFacts
<1>5. ASSUME NEW n \in Variants(m), NEW l \in Variants(m),
             \A jj \in Below(Nnzb(m)), k \in Places(m) : n.vals[jj][k] = l.vals[jj][k]
      PROVE  n = l
  <2>1. n.vals \in ValuesOf(m) /\ l.vals \in ValuesOf(m) BY <1>1
  <2>2. \A jj \in Below(Nnzb(m)) : n.vals[jj] = l.vals[jj]
    <3> TAKE jj \in Below(Nnzb(m))
    <3>1. n.vals[jj] \in [Places(m) -> Scalars] /\ l.vals[jj] \in [Places(m) -> Scalars]
      BY <2>1 DEF ValuesOf
    <3> QED BY <1>5, <3>1
  <2>3. n.vals = l.vals BY <2>1, <2>2 DEF ValuesOf
  <2> QED BY <1>1, <2>3
<1> QED BY <1>1, <1>2, <1>3, <1>4, <1>5

LEMMA AddedVariant ==
  ASSUME Field, NEW m, Stored(m), NEW n \in Variants(m), NEW add \in Pending(m)
  PROVE  /\ Added(n, add) \in Variants(m)
         /\ \A jj \in Below(Nnzb(m)), k \in Places(m) :
              Added(n, add).vals[jj][k] =
                IF add.jj = jj /\ add.k = k THEN (n.vals[jj][k] + add.amount) % Mod
                ELSE n.vals[jj][k]
<1>1. /\ add.jj \in Below(Nnzb(m)) /\ add.k \in Places(m) /\ add.amount \in Scalars
  BY DEF Pending
<1>2. Stored(n) /\ SameStructure(n, m) /\ Nnzb(n) = Nnzb(m) /\ Places(n) = Places(m)
      /\ n.vals \in ValuesOf(m)
  BY VariantFacts
<1> DEFINE a == add.jj  b == add.k  x == (n.vals[a][b] + add.amount) % Mod
           v == [n.vals EXCEPT ![a][b] = x]
           M == Added(n, add)
<1>3. Stored(M) /\ SameStructure(M, n) BY <1>1, <1>2, AddedFacts DEF Added
<1>4. M \in Variants(m)
  <2>1. SameStructure(M, m) BY <1>2, <1>3, SameStructureFacts
  <2> QED BY <1>3, <2>1, VariantFacts
<1>5. M = [n EXCEPT !.vals = v] BY DEF Added
<1>6. M.vals = v
  <2>1. "vals" \in DOMAIN n BY <1>2 DEF Stored, IsMatrix
  <2> HIDE DEF v, M
  <2> QED BY <1>5, <2>1
<1> HIDE DEF x, M
<1>7. ASSUME NEW jj \in Below(Nnzb(m)), NEW k \in Places(m)
      PROVE  v[jj][k] = IF a = jj /\ b = k THEN x ELSE n.vals[jj][k]
  <2>1. DOMAIN n.vals = Below(Nnzb(m)) /\ n.vals \in ValuesOf(m) BY <1>2 DEF ValuesOf
  <2>2. \A e \in Below(Nnzb(m)) : n.vals[e] \in [Places(m) -> Scalars] BY <1>2 DEF ValuesOf
  <2>3. DOMAIN n.vals[a] = Places(m) BY <1>1, <2>2
  <2> DEFINE w == [n.vals[a] EXCEPT ![b] = x]
  <2>4. v = [n.vals EXCEPT ![a] = w] OBVIOUS
  <2>5. w[k] = IF b = k THEN x ELSE n.vals[a][k] BY <2>3
  <2> HIDE DEF v, w
  <2>6. v[jj] = IF a = jj THEN w ELSE n.vals[jj] BY <2>1, <2>4
  <2> QED BY <2>5, <2>6
<1> HIDE DEF v
<1> QED BY <1>4, <1>6, <1>7 DEF x, M

(***************************************************************************)
(* The additions that are made to a scalar by the positions of s.          *)
(***************************************************************************)
Amounts(s, jj, k) ==
  [q \in DOMAIN s |-> IF s[q].jj = jj /\ s[q].k = k THEN s[q].amount ELSE 0]
OwedIn(s, jj, k) == SumFunctionOnSet(Amounts(s, jj, k), DOMAIN s)

LEMMA AmountFacts ==
  ASSUME Field, NEW m, NEW s \in Seq(Pending(m)), NEW jj, NEW k
  PROVE  /\ DOMAIN s = 1 .. Len(s) /\ IsFiniteSet(DOMAIN s)
         /\ \A q \in DOMAIN s : /\ Amounts(s, jj, k)[q] \in Nat
                                /\ Amounts(s, jj, k)[q] = IF s[q].jj = jj /\ s[q].k = k
                                                          THEN s[q].amount ELSE 0
         /\ OwedIn(s, jj, k) \in Nat
<1>1. DOMAIN s = 1 .. Len(s) /\ Len(s) \in Nat OBVIOUS
<1>2. IsFiniteSet(DOMAIN s) BY <1>1, CountedFacts
<1>3. ASSUME NEW q \in DOMAIN s
      PROVE  /\ Amounts(s, jj, k)[q] \in Nat
             /\ Amounts(s, jj, k)[q] = IF s[q].jj = jj /\ s[q].k = k THEN s[q].amount ELSE 0
  <2>1. s[q] \in Pending(m) OBVIOUS
  <2>2. s[q].amount \in Nat BY <2>1 DEF Pending, Field, Scalars, Below
  <2>3. Amounts(s, jj, k)[q] = IF s[q].jj = jj /\ s[q].k = k THEN s[q].amount ELSE 0
    BY DEF Amounts
  <2> QED BY <2>2, <2>3
<1>4. OwedIn(s, jj, k) \in Nat
  <2> DEFINE f == Amounts(s, jj, k)
  <2>1. \A q \in DOMAIN s : f[q] \in Nat BY <1>3
  <2> HIDE DEF f
  <2>2. SumFunctionOnSet(f, DOMAIN s) \in Nat BY <1>2, <2>1, SumOfNaturals
  <2> QED BY <2>2 DEF f, OwedIn
<1> QED BY <1>1, <1>2, <1>3, <1>4

LEMMA TwoAdditions ==
  ASSUME Field, NEW v \in Nat, NEW a \in Nat, NEW b \in Nat
  PROVE  (((v + a) % Mod) + b) % Mod = (v + (b + a)) % Mod
<1>1. Mod \in Nat \ {0} BY DEF Field
<1>2. v + a \in Nat OBVIOUS
<1>3. (((v + a) % Mod) + b) % Mod = ((v + a) + b) % Mod BY <1>1, <1>2, Modulo
<1>4. (v + a) + b = v + (b + a) OBVIOUS
<1> QED BY <1>3, <1>4

LEMMA AdditionsMade ==
  ASSUME Field, NEW m, Stored(m), NEW s \in Seq(Pending(m))
  PROVE  /\ FoldLeft(Added, m, s) \in Variants(m)
         /\ \A jj \in Below(Nnzb(m)), k \in Places(m) :
              FoldLeft(Added, m, s).vals[jj][k] = (m.vals[jj][k] + OwedIn(s, jj, k)) % Mod
<1> DEFINE U == DOMAIN s
           V == Variants(m)
           F(h) == [S \in SUBSET U |-> IF S = {} THEN m
                                       ELSE Added(h[S \ {Max(S)}], s[Max(S)])]
           iter == CHOOSE h : h = F(h)
           next == [S \in SUBSET U |-> Max(S)]
           op == [p \in U \X V |-> Added(p[2], s[p[1]])]
<1>1. U = 1 .. Len(s) /\ IsFiniteSet(U) /\ U \subseteq Nat BY AmountFacts
<1>2. \A S \in SUBSET U : S # {} => Max(S) \in S
  <2>1. Len(s) \in Nat OBVIOUS
  <2> QED BY <1>1, <2>1, MaxFacts
<1>3. \A S \in SUBSET U : next[S] = Max(S) OBVIOUS
<1>4. \A x \in U, v \in V : op[<<x, v>>] = Added(v, s[x]) OBVIOUS
<1>5. op \in [U \X V -> V]
  <2>1. ASSUME NEW x \in U, NEW v \in V PROVE Added(v, s[x]) \in V
    <3>1. s[x] \in Pending(m) OBVIOUS
    <3> QED BY <3>1, AddedVariant
  <2> QED BY <2>1
<1>6. m \in V BY VariantFacts
<1> HIDE DEF next, op, V
<1>7. Chooses(U, next) BY <1>2, <1>3 DEF Chooses
<1>8. PICK g \in [SUBSET U -> V] : FoldRule(g, U, next, m, op)
  <2> HIDE DEF U
  <2> QED BY <1>1, <1>5, <1>6, <1>7, FoldExists, Zenon
<1>9. \A S \in SUBSET U : g[S] = IF S = {} THEN m ELSE Added(g[S \ {Max(S)}], s[Max(S)])
  <2> TAKE S \in SUBSET U
  <2>1. CASE S = {} BY <1>8, <2>1 DEF FoldRule
  <2>2. CASE S # {}
    <3>1. g[S] = op[<<next[S], g[S \ {next[S]}]>>] BY <1>8, <2>2 DEF FoldRule
    <3>2. next[S] \in U /\ S \ {next[S]} \in SUBSET U BY <1>2, <1>3, <2>2
    <3>3. g[S \ {next[S]}] \in V BY <1>8, <3>2
    <3> QED BY <1>3, <1>4, <2>2, <3>1, <3>2, <3>3
  <2> QED BY <2>1, <2>2
<1>10. g = F(g)
  <2>1. g = [S \in SUBSET U |-> g[S]] OBVIOUS
  <2> QED BY <1>9, <2>1
<1>11. iter = F(iter) BY <1>10
<1>12. FoldLeft(Added, m, s) = iter[U]
  BY DEF FoldLeft, MapThenFoldSet
<1>13. \A S \in SUBSET U : iter[S] = IF S = {} THEN m ELSE Added(iter[S \ {Max(S)}], s[Max(S)])
  BY <1>11
<1> HIDE DEF iter, F
<1> DEFINE Sum(S, p) == SumFunctionOnSet(Amounts(s, p[1], p[2]), S)
           P == Below(Nnzb(m)) \X Places(m)
           T == {S \in SUBSET U : /\ iter[S] \in V
                                  /\ \A p \in P : Sum(S, p) \in Nat
                                  /\ \A p \in P : iter[S].vals[p[1]][p[2]] =
                                                    (m.vals[p[1]][p[2]] + Sum(S, p)) % Mod}
<1>14. \A p \in P : \A q \in U : Amounts(s, p[1], p[2])[q] \in Nat BY AmountFacts
<1>15. ASSUME NEW p \in P, NEW S \in SUBSET U PROVE Sum(S, p) \in Nat
  <2> DEFINE f == Amounts(s, p[1], p[2])
  <2>1. IsFiniteSet(S) BY <1>1, FS_Subset
  <2>2. \A q \in S : f[q] \in Nat BY <1>14
  <2> HIDE DEF f
  <2>3. SumFunctionOnSet(f, S) \in Nat BY <2>1, <2>2, SumOfNaturals
  <2> QED BY <2>3 DEF f
<1>16. \A p \in P : p[1] \in Below(Nnzb(m)) /\ p[2] \in Places(m) OBVIOUS
<1>17. \A v \in V, p \in P : v.vals[p[1]][p[2]] \in Nat /\ v.vals[p[1]][p[2]] \in Scalars
  <2> TAKE v \in V, p \in P
  <2>1. v.vals \in ValuesOf(m) BY VariantFacts DEF V
  <2>2. v.vals[p[1]][p[2]] \in Scalars BY <1>16, <2>1 DEF ValuesOf
  <2> QED BY <2>2 DEF Scalars, Below, Field
<1>18. {} \in T
  <2>1. iter[{}] = m BY <1>13
  <2>2. ASSUME NEW p \in P PROVE m.vals[p[1]][p[2]] = (m.vals[p[1]][p[2]] + Sum({}, p)) % Mod
    <3> DEFINE f == Amounts(s, p[1], p[2])
    <3>1. IsFiniteSet({}) /\ \A q \in {} : f[q] \in Int BY FS_EmptySet
    <3> HIDE DEF f
    <3>2. SumFunctionOnSet(f, {}) = 0 BY <3>1, SumRules
    <3>3. Sum({}, p) = 0 BY <3>2 DEF f
    <3> DEFINE v == m.vals[p[1]][p[2]]
    <3>4. v \in Nat /\ v \in Scalars BY <1>6, <1>17
    <3> HIDE DEF v
    <3>5. v < Mod /\ Mod \in Nat \ {0} BY <3>4 DEF Scalars, Below, Field
    <3>6. v % Mod = v BY <3>4, <3>5, Modulo
    <3>7. v + 0 = v BY <3>4
    <3>8. v = (v + Sum({}, p)) % Mod BY <3>3, <3>6, <3>7
    <3> QED BY <3>8 DEF v
  <2>3. {} \in SUBSET U OBVIOUS
  <2> HIDE DEF P, Sum
  <2> QED BY <1>6, <1>15, <2>1, <2>2, <2>3
<1>19. ASSUME NEW S \in SUBSET U, S # {}, \A x \in S : S \ {x} \in T PROVE S \in T
  <2> DEFINE x == Max(S)  n == iter[S \ {x}]
  <2>1. x \in S /\ x \in U BY <1>2, <1>19
  <2>2. iter[S] = Added(n, s[x]) BY <1>13, <1>19
  <2> HIDE DEF x
  <2>3. S \ {x} \in T /\ s[x] \in Pending(m)
    <3>1. s[x] \in Pending(m) BY <2>1
    <3> HIDE DEF T
    <3>2. S \ {x} \in T BY <1>19, <2>1
    <3> QED BY <3>1, <3>2
  <2>4. /\ n \in V
        /\ \A p \in P : n.vals[p[1]][p[2]] = (m.vals[p[1]][p[2]] + Sum(S \ {x}, p)) % Mod
    <3> HIDE DEF P, Sum
    <3> QED BY <2>3
  <2> HIDE DEF n
  <2>5. /\ Added(n, s[x]) \in V
        /\ \A p \in P : Added(n, s[x]).vals[p[1]][p[2]] =
                          IF s[x].jj = p[1] /\ s[x].k = p[2]
                          THEN (n.vals[p[1]][p[2]] + s[x].amount) % Mod
                          ELSE n.vals[p[1]][p[2]]
    <3>1. n \in Variants(m) BY <2>4 DEF V
    <3>2. /\ Added(n, s[x]) \in Variants(m)
          /\ \A jj \in Below(Nnzb(m)), k \in Places(m) :
               Added(n, s[x]).vals[jj][k] =
                 IF s[x].jj = jj /\ s[x].k = k THEN (n.vals[jj][k] + s[x].amount) % Mod
                 ELSE n.vals[jj][k]
      BY <2>3, <3>1, AddedVariant
    <3> HIDE DEF P
    <3> QED BY <1>16, <3>2 DEF V
  <2>6. ASSUME NEW p \in P
        PROVE  iter[S].vals[p[1]][p[2]] = (m.vals[p[1]][p[2]] + Sum(S, p)) % Mod
    <3> DEFINE f == Amounts(s, p[1], p[2])  v == m.vals[p[1]][p[2]]
               y == Sum(S \ {x}, p)  w == iter[S].vals[p[1]][p[2]]  u == n.vals[p[1]][p[2]]
    <3>1. f[x] = IF s[x].jj = p[1] /\ s[x].k = p[2] THEN s[x].amount ELSE 0
      BY <2>1, AmountFacts
    <3>2. f[x] \in Nat /\ \A q \in S : f[q] \in Int BY <1>14, <2>1
    <3>3. IsFiniteSet(S) BY <1>1, FS_Subset
    <3>4. Sum(S, p) = f[x] + y
      <4> HIDE DEF f
      <4>1. SumFunctionOnSet(f, S) = f[x] + SumFunctionOnSet(f, S \ {x})
        BY <2>1, <3>2, <3>3, SumStep
      <4> QED BY <4>1 DEF f
    <3>5. y \in Nat BY <1>15
    <3>6. v \in Nat BY <1>6, <1>17
    <3>7. u = (v + y) % Mod BY <2>4
    <3>8. w = IF s[x].jj = p[1] /\ s[x].k = p[2] THEN (u + s[x].amount) % Mod ELSE u
      BY <2>2, <2>5
    <3> HIDE DEF f, v, y, w, u
    <3>9. CASE s[x].jj = p[1] /\ s[x].k = p[2]
      <4>1. w = (((v + y) % Mod) + f[x]) % Mod BY <3>1, <3>7, <3>8, <3>9
      <4>2. w = (v + (f[x] + y)) % Mod BY <3>2, <3>5, <3>6, <4>1, TwoAdditions
      <4> QED BY <3>4, <4>2 DEF v, w
    <3>10. CASE ~(s[x].jj = p[1] /\ s[x].k = p[2])
      <4>1. w = (v + y) % Mod /\ f[x] = 0 BY <3>1, <3>7, <3>8, <3>10
      <4>2. f[x] + y = y BY <3>5, <4>1
      <4> QED BY <3>4, <4>1, <4>2 DEF v, w
    <3> QED BY <3>9, <3>10
  <2>7. iter[S] \in V BY <2>2, <2>5
  <2>8. \A p \in P : Sum(S, p) \in Nat BY <1>15
  <2> HIDE DEF P, Sum
  <2> QED BY <2>6, <2>7, <2>8
<1> HIDE DEF T
<1>20. SUBSET U \subseteq T
  <2> HIDE DEF U
  <2> QED BY <1>1, <1>18, <1>19, FiniteInduction
<1>21. U \in T BY <1>20
<1>22. /\ iter[U] \in V
       /\ \A p \in P : iter[U].vals[p[1]][p[2]] = (m.vals[p[1]][p[2]] + Sum(U, p)) % Mod
  <2> HIDE DEF P, Sum
  <2> QED BY <1>21 DEF T
<1>23. ASSUME NEW jj \in Below(Nnzb(m)), NEW k \in Places(m)
       PROVE  iter[U].vals[jj][k] = (m.vals[jj][k] + OwedIn(s, jj, k)) % Mod
  <2> DEFINE p == <<jj, k>>
  <2>1. p \in P /\ p[1] = jj /\ p[2] = k OBVIOUS
  <2>2. Sum(U, p) = OwedIn(s, jj, k) BY <2>1 DEF OwedIn
  <2> HIDE DEF p, P, Sum
  <2> QED BY <1>22, <2>1, <2>2
<1> QED BY <1>12, <1>22, <1>23 DEF V

-----------------------------------------------------------------------------
(***************************************************************************)
(* The matrix with the additions of all threads made.                      *)
(***************************************************************************)
CompletedOf(m, j) == FoldSet(LAMBDA t, n : FoldLeft(Added, n, j[t]), m, Threads)
Shares(j, jj, k) == [t \in Threads |-> OwedIn(j[t], jj, k)]
Owed(j, jj, k) == SumFunctionOnSet(Shares(j, jj, k), Threads)

LEMMA VariantOf ==
  ASSUME NEW m, Stored(m), NEW n \in Variants(m)
  PROVE  Variants(n) = Variants(m) /\ Pending(n) = Pending(m)
<1>1. Stored(n) /\ SameStructure(n, m) BY VariantFacts
<1>2. Pending(n) = Pending(m) BY <1>1, SameStructureFacts
<1>3. SameStructure(m, n) BY <1>1 DEF SameStructure, SameFrame
<1>4. ASSUME NEW l PROVE l \in Variants(n) <=> l \in Variants(m)
  <2>1. l \in Variants(n) <=> Stored(l) /\ SameStructure(l, n) BY <1>1, VariantFacts
  <2>2. l \in Variants(m) <=> Stored(l) /\ SameStructure(l, m) BY VariantFacts
  <2> QED BY <1>1, <1>3, <2>1, <2>2, SameStructureFacts
<1> QED BY <1>2, <1>4

LEMMA VariantScalars ==
  ASSUME Field, NEW m, Stored(m), NEW n \in Variants(m),
         NEW jj \in Below(Nnzb(m)), NEW k \in Places(m)
  PROVE  /\ n.vals[jj][k] \in Scalars /\ n.vals[jj][k] \in Nat
         /\ n.vals[jj][k] % Mod = n.vals[jj][k]
<1> DEFINE v == n.vals[jj][k]
<1>1. n.vals \in ValuesOf(m) BY VariantFacts
<1>2. v \in Scalars BY <1>1 DEF ValuesOf
<1> HIDE DEF v
<1>3. v \in Nat /\ v < Mod /\ Mod \in Nat \ {0} BY <1>2 DEF Scalars, Below, Field
<1>4. v % Mod = v BY <1>3, Modulo
<1> QED BY <1>2, <1>3, <1>4 DEF v

LEMMA OwedFacts ==
  ASSUME Field, NEW m, NEW j \in [Threads -> Seq(Pending(m))], NEW jj, NEW k
  PROVE  /\ \A t \in Threads : Shares(j, jj, k)[t] = OwedIn(j[t], jj, k)
                               /\ Shares(j, jj, k)[t] \in Nat
         /\ IsFiniteSet(Threads) /\ Owed(j, jj, k) \in Nat
<1>1. IsFiniteSet(Threads) BY ThreadsAssumption
<1>2. ASSUME NEW t \in Threads
      PROVE  Shares(j, jj, k)[t] = OwedIn(j[t], jj, k) /\ Shares(j, jj, k)[t] \in Nat
  <2>1. j[t] \in Seq(Pending(m)) OBVIOUS
  <2>2. OwedIn(j[t], jj, k) \in Nat BY <2>1, AmountFacts
  <2>3. Shares(j, jj, k)[t] = OwedIn(j[t], jj, k) BY DEF Shares
  <2> QED BY <2>2, <2>3
<1>3. Owed(j, jj, k) \in Nat
  <2> DEFINE f == Shares(j, jj, k)
  <2>1. \A t \in Threads : f[t] \in Nat BY <1>2
  <2> HIDE DEF f
  <2>2. SumFunctionOnSet(f, Threads) \in Nat BY <1>1, <2>1, SumOfNaturals
  <2> QED BY <2>2 DEF Owed, f
<1> QED BY <1>1, <1>2, <1>3

LEMMA ThreadsAdd ==
  ASSUME Field, NEW m, Stored(m), NEW j \in [Threads -> Seq(Pending(m))]
  PROVE  /\ CompletedOf(m, j) \in Variants(m)
         /\ \A jj \in Below(Nnzb(m)), k \in Places(m) :
              CompletedOf(m, j).vals[jj][k] = (m.vals[jj][k] + Owed(j, jj, k)) % Mod
<1> DEFINE U == Threads
           V == Variants(m)
           F(h) == [S \in SUBSET U |->
                      IF S = {} THEN m
                      ELSE FoldLeft(Added, h[S \ {CHOOSE x \in S : TRUE}], j[CHOOSE x \in S : TRUE])]
           iter == CHOOSE h : h = F(h)
           next == [S \in SUBSET U |-> Chosen(S)]
           op == [p \in U \X V |-> FoldLeft(Added, p[2], j[p[1]])]
<1>1. IsFiniteSet(U) BY ThreadsAssumption
<1>2. \A S \in SUBSET U : S # {} => Chosen(S) \in S BY DEF Chosen
<1>3. \A S \in SUBSET U : next[S] = Chosen(S) OBVIOUS
<1>4. \A x \in U, v \in V : op[<<x, v>>] = FoldLeft(Added, v, j[x]) OBVIOUS
<1>5. ASSUME NEW x \in U, NEW v \in V
      PROVE  /\ FoldLeft(Added, v, j[x]) \in V
             /\ \A jj \in Below(Nnzb(m)), k \in Places(m) :
                  FoldLeft(Added, v, j[x]).vals[jj][k] = (v.vals[jj][k] + OwedIn(j[x], jj, k)) % Mod
  <2>1. Variants(v) = V /\ Pending(v) = Pending(m) BY VariantOf
  <2>2. Stored(v) /\ Nnzb(v) = Nnzb(m) /\ Places(v) = Places(m) BY VariantFacts
  <2>3. j[x] \in Seq(Pending(v)) BY <2>1
  <2>4. /\ FoldLeft(Added, v, j[x]) \in Variants(v)
        /\ \A jj \in Below(Nnzb(v)), k \in Places(v) :
             FoldLeft(Added, v, j[x]).vals[jj][k] = (v.vals[jj][k] + OwedIn(j[x], jj, k)) % Mod
    BY <2>2, <2>3, AdditionsMade
  <2> QED BY <2>1, <2>2, <2>4
<1>6. op \in [U \X V -> V]
  <2> HIDE DEF V
  <2>1. \A x \in U, v \in V : FoldLeft(Added, v, j[x]) \in V BY <1>5
  <2> QED BY <2>1
<1>7. m \in V BY VariantFacts
<1> HIDE DEF next, op, V
<1>8. Chooses(U, next) BY <1>2, <1>3 DEF Chooses
<1>9. PICK g \in [SUBSET U -> V] : FoldRule(g, U, next, m, op)
  BY <1>1, <1>6, <1>7, <1>8, FoldExists, Zenon
<1>10. \A S \in SUBSET U : g[S] = IF S = {} THEN m
                                  ELSE FoldLeft(Added, g[S \ {Chosen(S)}], j[Chosen(S)])
  <2> TAKE S \in SUBSET U
  <2>1. CASE S = {} BY <1>9, <2>1 DEF FoldRule
  <2>2. CASE S # {}
    <3>1. g[S] = op[<<next[S], g[S \ {next[S]}]>>] BY <1>9, <2>2 DEF FoldRule
    <3>2. next[S] \in U /\ S \ {next[S]} \in SUBSET U BY <1>2, <1>3, <2>2
    <3>3. g[S \ {next[S]}] \in V BY <1>9, <3>2
    <3> QED BY <1>3, <1>4, <2>2, <3>1, <3>2, <3>3
  <2> QED BY <2>1, <2>2
<1>11. g = F(g)
  <2>1. g = [S \in SUBSET U |-> g[S]] OBVIOUS
  <2>2. \A S \in SUBSET U :
          g[S] = IF S = {} THEN m
                 ELSE FoldLeft(Added, g[S \ {CHOOSE x \in S : TRUE}], j[CHOOSE x \in S : TRUE])
    BY <1>10 DEF Chosen
  <2> QED BY <2>1, <2>2
<1>12. iter = F(iter) BY <1>11
<1>13. CompletedOf(m, j) = iter[U]
  BY DEF CompletedOf, FoldSet, MapThenFoldSet
<1>14. \A S \in SUBSET U : iter[S] = IF S = {} THEN m
                                     ELSE FoldLeft(Added, iter[S \ {Chosen(S)}], j[Chosen(S)])
  BY <1>12 DEF Chosen
<1> HIDE DEF iter, F
<1> DEFINE Sum(S, p) == SumFunctionOnSet(Shares(j, p[1], p[2]), S)
           P == Below(Nnzb(m)) \X Places(m)
           T == {S \in SUBSET U : /\ iter[S] \in V
                                  /\ \A p \in P : iter[S].vals[p[1]][p[2]] =
                                                    (m.vals[p[1]][p[2]] + Sum(S, p)) % Mod}
<1>15. \A p \in P : p[1] \in Below(Nnzb(m)) /\ p[2] \in Places(m) OBVIOUS
<1>16. \A p \in P : \A t \in U : /\ Shares(j, p[1], p[2])[t] = OwedIn(j[t], p[1], p[2])
                                 /\ Shares(j, p[1], p[2])[t] \in Nat
  BY OwedFacts
<1>17. ASSUME NEW p \in P, NEW S \in SUBSET U PROVE Sum(S, p) \in Nat
  <2> DEFINE f == Shares(j, p[1], p[2])
  <2>1. IsFiniteSet(S) BY <1>1, FS_Subset
  <2>2. \A t \in S : f[t] \in Nat BY <1>16
  <2> HIDE DEF f
  <2>3. SumFunctionOnSet(f, S) \in Nat BY <2>1, <2>2, SumOfNaturals
  <2> QED BY <2>3 DEF f
<1>18. {} \in T
  <2>1. iter[{}] = m BY <1>14
  <2>2. ASSUME NEW p \in P PROVE m.vals[p[1]][p[2]] = (m.vals[p[1]][p[2]] + Sum({}, p)) % Mod
    <3> DEFINE f == Shares(j, p[1], p[2])
    <3>1. IsFiniteSet({}) /\ \A q \in {} : f[q] \in Int BY FS_EmptySet
    <3> HIDE DEF f
    <3>2. SumFunctionOnSet(f, {}) = 0 BY <3>1, SumRules
    <3>3. Sum({}, p) = 0 BY <3>2 DEF f
    <3> DEFINE v == m.vals[p[1]][p[2]]
    <3>4. v \in Nat /\ v % Mod = v BY <1>7, <1>15, VariantScalars DEF V
    <3> HIDE DEF v
    <3>5. v + 0 = v BY <3>4
    <3>6. v = (v + Sum({}, p)) % Mod BY <3>3, <3>4, <3>5
    <3> QED BY <3>6 DEF v
  <2>3. {} \in SUBSET U OBVIOUS
  <2> HIDE DEF P, Sum
  <2> QED BY <1>7, <2>1, <2>2, <2>3
<1>19. ASSUME NEW S \in SUBSET U, S # {}, \A x \in S : S \ {x} \in T PROVE S \in T
  <2> DEFINE x == Chosen(S)  n == iter[S \ {x}]
  <2>1. x \in S /\ x \in U BY <1>2, <1>19
  <2>2. iter[S] = FoldLeft(Added, n, j[x]) BY <1>14, <1>19
  <2> HIDE DEF x
  <2>3. S \ {x} \in T
    <3> HIDE DEF T
    <3> QED BY <1>19, <2>1
  <2>4. /\ n \in V
        /\ \A p \in P : n.vals[p[1]][p[2]] = (m.vals[p[1]][p[2]] + Sum(S \ {x}, p)) % Mod
    <3> HIDE DEF P, Sum
    <3> QED BY <2>3
  <2> HIDE DEF n
  <2>5. /\ iter[S] \in V
        /\ \A p \in P : iter[S].vals[p[1]][p[2]] =
                          (n.vals[p[1]][p[2]] + OwedIn(j[x], p[1], p[2])) % Mod
    BY <1>5, <1>15, <2>1, <2>2, <2>4
  <2>6. ASSUME NEW p \in P
        PROVE  iter[S].vals[p[1]][p[2]] = (m.vals[p[1]][p[2]] + Sum(S, p)) % Mod
    <3> DEFINE f == Shares(j, p[1], p[2])  v == m.vals[p[1]][p[2]]
               y == Sum(S \ {x}, p)  w == iter[S].vals[p[1]][p[2]]  u == n.vals[p[1]][p[2]]
    <3>1. f[x] = OwedIn(j[x], p[1], p[2]) /\ f[x] \in Nat /\ \A t \in S : f[t] \in Int
      BY <1>16, <2>1
    <3>2. IsFiniteSet(S) BY <1>1, FS_Subset
    <3>3. Sum(S, p) = f[x] + y
      <4> HIDE DEF f
      <4>1. SumFunctionOnSet(f, S) = f[x] + SumFunctionOnSet(f, S \ {x})
        BY <2>1, <3>1, <3>2, SumStep
      <4> QED BY <4>1 DEF f
    <3>4. y \in Nat BY <1>17
    <3>5. v \in Nat BY <1>7, <1>15, VariantScalars DEF V
    <3>6. u = (v + y) % Mod BY <2>4
    <3>7. w = (u + OwedIn(j[x], p[1], p[2])) % Mod BY <2>5
    <3> HIDE DEF f, v, y, w, u
    <3>8. w = (((v + y) % Mod) + f[x]) % Mod BY <3>1, <3>6, <3>7
    <3>9. w = (v + (f[x] + y)) % Mod BY <3>1, <3>4, <3>5, <3>8, TwoAdditions
    <3> QED BY <3>3, <3>9 DEF v, w
  <2> HIDE DEF P, Sum
  <2> QED BY <2>5, <2>6
<1> HIDE DEF T
<1>20. SUBSET U \subseteq T BY <1>1, <1>18, <1>19, FiniteInduction
<1>21. U \in T BY <1>20
<1>22. /\ iter[U] \in V
       /\ \A p \in P : iter[U].vals[p[1]][p[2]] = (m.vals[p[1]][p[2]] + Sum(U, p)) % Mod
  <2> HIDE DEF P, Sum
  <2> QED BY <1>21 DEF T
<1>23. ASSUME NEW jj \in Below(Nnzb(m)), NEW k \in Places(m)
       PROVE  iter[U].vals[jj][k] = (m.vals[jj][k] + Owed(j, jj, k)) % Mod
  <2> DEFINE p == <<jj, k>>
  <2>1. p \in P /\ p[1] = jj /\ p[2] = k OBVIOUS
  <2>2. Sum(U, p) = Owed(j, jj, k) BY <2>1 DEF Owed
  <2> HIDE DEF p, P, Sum
  <2> QED BY <1>22, <2>1, <2>2
<1> QED BY <1>13, <1>22, <1>23 DEF V

-----------------------------------------------------------------------------
LEMMA NothingOwed ==
  ASSUME NEW jj, NEW k
  PROVE  OwedIn(<<>>, jj, k) = 0
<1> DEFINE f == Amounts(<<>>, jj, k)
<1>1. DOMAIN <<>> = {} OBVIOUS
<1>2. IsFiniteSet({}) /\ \A q \in {} : f[q] \in Int BY FS_EmptySet
<1> HIDE DEF f
<1>3. SumFunctionOnSet(f, {}) = 0 BY <1>2, SumRules
<1> QED BY <1>1, <1>3 DEF OwedIn, f

\* The first addition, and the others.
LEMMA OwedHead ==
  ASSUME Field, NEW m, NEW s \in Seq(Pending(m)), s # <<>>, NEW jj, NEW k
  PROVE  /\ Head(s) \in Pending(m) /\ Tail(s) \in Seq(Pending(m))
         /\ OwedIn(s, jj, k) = (IF Head(s).jj = jj /\ Head(s).k = k THEN Head(s).amount ELSE 0)
                                 + OwedIn(Tail(s), jj, k)
<1> DEFINE t == Tail(s)  f == Amounts(s, jj, k)  g == Amounts(t, jj, k)
           n == Len(s)  R == 1 .. n - 1  S == 2 .. n  h == [a \in R |-> a + 1]
<1>1. /\ Head(s) = s[1] /\ Head(s) \in Pending(m) /\ t \in Seq(Pending(m)) /\ n \in Nat \ {0}
      /\ Len(t) = n - 1 /\ DOMAIN s = 1 .. n /\ DOMAIN t = R /\ \A a \in R : t[a] = s[a + 1]
  OBVIOUS
<1>2. /\ IsFiniteSet(1 .. n) /\ \A q \in 1 .. n : f[q] \in Int
      /\ f[1] = IF Head(s).jj = jj /\ Head(s).k = k THEN Head(s).amount ELSE 0
  <2>1. \A q \in DOMAIN s : f[q] \in Nat /\ f[q] = IF s[q].jj = jj /\ s[q].k = k
                                                  THEN s[q].amount ELSE 0
    BY AmountFacts
  <2>2. 1 \in DOMAIN s /\ IsFiniteSet(DOMAIN s) BY <1>1, AmountFacts
  <2> HIDE DEF f
  <2> QED BY <1>1, <2>1, <2>2
<1>3. SumFunctionOnSet(f, 1 .. n) = f[1] + SumFunctionOnSet(f, (1 .. n) \ {1})
  <2>1. 1 \in 1 .. n BY <1>1
  <2> HIDE DEF f
  <2> QED BY <1>2, <2>1, SumStep
<1>4. (1 .. n) \ {1} = S BY <1>1
<1>5. SumFunctionOnSet(f, S) = SumFunctionOnSet(g, R)
  <2>1. IsFiniteSet(R) /\ IsFiniteSet(S)
    <3>1. n - 1 \in Nat /\ S \subseteq 1 .. n BY <1>1
    <3> QED BY <1>2, <3>1, CountedFacts, FS_Subset
  <2>2. \A x \in S : f[x] \in Int
    <3>1. S \subseteq 1 .. n BY <1>1
    <3> HIDE DEF f
    <3> QED BY <1>2, <3>1
  <2>3. /\ h \in [R -> S] /\ \A a, b \in R : h[a] = h[b] => a = b
        /\ \A a \in R : h[a] = a + 1
    BY <1>1
  <2>4. \A x \in S : \E a \in R : h[a] = x
    <3> TAKE x \in S
    <3>1. x - 1 \in R /\ (x - 1) + 1 = x BY <1>1
    <3> HIDE DEF h
    <3> QED BY <2>3, <3>1
  <2>5. ASSUME NEW a \in R PROVE g[a] = f[h[a]]
    <3>1. h[a] = a + 1 /\ a + 1 \in 1 .. n BY <1>1
    <3>2. g[a] = IF t[a].jj = jj /\ t[a].k = k THEN t[a].amount ELSE 0
      <4>1. t \in Seq(Pending(m)) /\ a \in DOMAIN t BY <1>1
      <4> HIDE DEF t
      <4> QED BY <4>1, AmountFacts
    <3>3. f[a + 1] = IF s[a + 1].jj = jj /\ s[a + 1].k = k THEN s[a + 1].amount ELSE 0
      BY <1>1, <3>1, AmountFacts
    <3>4. t[a] = s[a + 1] BY <1>1
    <3> HIDE DEF f, g, h, t
    <3> QED BY <3>1, <3>2, <3>3, <3>4
  <2> HIDE DEF f, g, h, R, S
  <2> QED BY <2>1, <2>2, <2>3, <2>4, <2>5, SumRenamed
<1> HIDE DEF f, g, R, S
<1>6. OwedIn(s, jj, k) = SumFunctionOnSet(f, 1 .. n) /\ OwedIn(t, jj, k) = SumFunctionOnSet(g, R)
  BY <1>1 DEF OwedIn, f, g
<1>7. OwedIn(s, jj, k) = f[1] + OwedIn(t, jj, k) BY <1>3, <1>4, <1>5, <1>6
<1> QED BY <1>1, <1>2, <1>7

\* One thread's additions are replaced.
Replaces(i, j, t, s) == i = [j EXCEPT ![t] = s]
OthersOwe(i, j, t, s, jj, k) ==
  \E rest \in Nat : /\ Owed(j, jj, k) = OwedIn(j[t], jj, k) + rest
                    /\ Owed(i, jj, k) = OwedIn(s, jj, k) + rest

LEMMA OwedReplaced ==
  ASSUME Field, NEW m, NEW j \in [Threads -> Seq(Pending(m))], NEW t \in Threads,
         NEW s \in Seq(Pending(m)), NEW j2, Replaces(j2, j, t, s), NEW jj, NEW k
  PROVE  OthersOwe(j2, j, t, s, jj, k)
<1> DEFINE f == Shares(j, jj, k)  g == Shares(j2, jj, k)
           R == Threads \ {t}
<1>1. j2 \in [Threads -> Seq(Pending(m))] /\ j2[t] = s /\ \A x \in R : j2[x] = j[x]
  BY DEF Replaces
<1>2. /\ IsFiniteSet(Threads)
      /\ \A x \in Threads : f[x] = OwedIn(j[x], jj, k) /\ f[x] \in Nat
      /\ \A x \in Threads : g[x] = OwedIn(j2[x], jj, k) /\ g[x] \in Nat
  BY <1>1, OwedFacts
<1> HIDE DEF f, g
<1>3. IsFiniteSet(R) BY <1>2, FS_Subset
<1>4. \A x \in Threads : f[x] \in Int /\ g[x] \in Int BY <1>2
<1>5. \A x \in R : f[x] \in Int /\ g[x] = f[x] BY <1>1, <1>2
<1>6. SumFunctionOnSet(f, R) = SumFunctionOnSet(g, R) BY <1>3, <1>5, SameSum
<1>7. SumFunctionOnSet(f, Threads) = f[t] + SumFunctionOnSet(f, R) BY <1>2, <1>4, SumStep
<1>8. SumFunctionOnSet(g, Threads) = g[t] + SumFunctionOnSet(g, R) BY <1>2, <1>4, SumStep
<1>9. \A x \in R : f[x] \in Nat BY <1>2
<1>10. SumFunctionOnSet(f, R) \in Nat BY <1>3, <1>9, SumOfNaturals
<1>11. Owed(j, jj, k) = OwedIn(j[t], jj, k) + SumFunctionOnSet(f, R)
  BY <1>2, <1>7 DEF Owed, f
<1>12. Owed(j2, jj, k) = OwedIn(s, jj, k) + SumFunctionOnSet(f, R)
  BY <1>1, <1>2, <1>6, <1>8 DEF Owed, g
<1> QED BY <1>10, <1>11, <1>12 DEF OthersOwe

\* A thread makes its next addition.
LEMMA OneMade ==
  ASSUME Field, NEW m, Stored(m), NEW j \in [Threads -> Seq(Pending(m))], NEW t \in Threads,
         j[t] # <<>>
  PROVE  CompletedOf(Added(m, Head(j[t])), [j EXCEPT ![t] = Tail(@)]) = CompletedOf(m, j)
<1> DEFINE s == j[t]  a == Head(s)  j2 == [j EXCEPT ![t] = Tail(@)]  m2 == Added(m, a)
           c == CompletedOf(m, j)  c2 == CompletedOf(m2, j2)
<1>1. s \in Seq(Pending(m)) /\ s # <<>> OBVIOUS
<1>2. a \in Pending(m) /\ Tail(s) \in Seq(Pending(m)) BY <1>1
<1>3. j2 = [j EXCEPT ![t] = Tail(s)] OBVIOUS
<1> HIDE DEF s, j2
<1>4. j2 \in [Threads -> Seq(Pending(m))] BY <1>2, <1>3
<1>5. m \in Variants(m) BY VariantFacts
<1>6. /\ m2 \in Variants(m)
      /\ \A jj \in Below(Nnzb(m)), k \in Places(m) :
           m2.vals[jj][k] = IF a.jj = jj /\ a.k = k THEN (m.vals[jj][k] + a.amount) % Mod
                            ELSE m.vals[jj][k]
  BY <1>2, <1>5, AddedVariant
<1> HIDE DEF a, m2
<1>7. /\ Stored(m2) /\ Variants(m2) = Variants(m) /\ Pending(m2) = Pending(m)
      /\ Nnzb(m2) = Nnzb(m) /\ Places(m2) = Places(m)
  BY <1>6, VariantFacts, VariantOf
<1>8. /\ c \in Variants(m)
      /\ \A jj \in Below(Nnzb(m)), k \in Places(m) :
           c.vals[jj][k] = (m.vals[jj][k] + Owed(j, jj, k)) % Mod
  BY ThreadsAdd
<1>9. /\ c2 \in Variants(m)
      /\ \A jj \in Below(Nnzb(m)), k \in Places(m) :
           c2.vals[jj][k] = (m2.vals[jj][k] + Owed(j2, jj, k)) % Mod
  <2>1. j2 \in [Threads -> Seq(Pending(m2))] BY <1>4, <1>7
  <2> QED BY <1>7, <2>1, ThreadsAdd
<1> HIDE DEF c, c2
<1>10. ASSUME NEW jj \in Below(Nnzb(m)), NEW k \in Places(m)
       PROVE  c2.vals[jj][k] = c.vals[jj][k]
  <2> DEFINE v == m.vals[jj][k]  u == m2.vals[jj][k]
             amt == IF a.jj = jj /\ a.k = k THEN a.amount ELSE 0
             o == Owed(j, jj, k)  o2 == Owed(j2, jj, k)  y == OwedIn(Tail(s), jj, k)
             here == a.jj = jj /\ a.k = k
             z == OwedIn(s, jj, k)
  <2>1. v \in Nat /\ v % Mod = v BY <1>5, VariantScalars
  <2>2. z = amt + y BY <1>1, OwedHead DEF a
  <2>3. PICK rest \in Nat : o = z + rest /\ o2 = y + rest
    <3>1. Replaces(j2, j, t, Tail(s)) /\ Tail(s) \in Seq(Pending(m)) BY <1>2, <1>3 DEF Replaces
    <3>2. OthersOwe(j2, j, t, Tail(s), jj, k) BY <3>1, OwedReplaced
    <3> QED BY <3>2, Zenon DEF s, OthersOwe
  <2>4. y \in Nat BY <1>2, AmountFacts
  <2>5. a.amount \in Nat /\ amt \in Nat
    <3>1. a.amount \in Nat BY <1>2 DEF a, Pending, Field, Scalars, Below
    <3> QED BY <3>1
  <2>6. u = IF here THEN (v + a.amount) % Mod ELSE v BY <1>6
  <2>7. amt = IF here THEN a.amount ELSE 0 OBVIOUS
  <2>8. c.vals[jj][k] = (v + o) % Mod /\ c2.vals[jj][k] = (u + o2) % Mod BY <1>8, <1>9
  <2> HIDE DEF v, u, amt, o, o2, y, here, z
  <2>9. o2 \in Nat /\ o = o2 + amt BY <2>2, <2>3, <2>4, <2>5
  <2>10. CASE here
    <3>1. u = (v + amt) % Mod BY <2>6, <2>7, <2>10
    <3>2. (((v + amt) % Mod) + o2) % Mod = (v + (o2 + amt)) % Mod BY <2>1, <2>5, <2>9, TwoAdditions
    <3>3. (u + o2) % Mod = (v + o) % Mod BY <2>9, <3>1, <3>2, Zenon
    <3> QED BY <2>8, <3>3
  <2>11. CASE ~here
    <3>1. u = v /\ o2 = o BY <2>5, <2>6, <2>7, <2>9, <2>11
    <3> QED BY <2>8, <3>1
  <2> QED BY <2>10, <2>11
<1>11. c2 = c BY <1>8, <1>9, <1>10, VariantFacts
<1> QED BY <1>11 DEF c, c2, m2, j2, a, s

\* When none is pending.
LEMMA NoneMade ==
  ASSUME Field, NEW m, Stored(m), NEW j, j \in [Threads -> Seq(Pending(m))],
         \A t \in Threads : j[t] = <<>>
  PROVE  CompletedOf(m, j) = m
<1> DEFINE c == CompletedOf(m, j)
<1>1. /\ c \in Variants(m)
      /\ \A jj \in Below(Nnzb(m)), k \in Places(m) :
           c.vals[jj][k] = (m.vals[jj][k] + Owed(j, jj, k)) % Mod
  BY ThreadsAdd
<1> HIDE DEF c
<1>2. m \in Variants(m) BY VariantFacts
<1>3. ASSUME NEW jj, NEW k PROVE Owed(j, jj, k) = 0
  <2> DEFINE f == Shares(j, jj, k)
             T == {S \in SUBSET Threads : SumFunctionOnSet(f, S) = 0}
  <2>1. IsFiniteSet(Threads) /\ \A t \in Threads : f[t] = OwedIn(j[t], jj, k) BY OwedFacts
  <2> HIDE DEF f
  <2>2. \A t \in Threads : f[t] = 0 BY <2>1, NothingOwed
  <2>3. \A t \in Threads : f[t] \in Int BY <2>2
  <2>4. {} \in T BY <2>1, <2>3, SumFacts
  <2>5. \A S \in SUBSET Threads : \A x \in Threads \ S : S \in T => S \cup {x} \in T
    <3> SUFFICES ASSUME NEW S \in SUBSET Threads, NEW x \in Threads \ S, S \in T
                 PROVE  S \cup {x} \in T
      OBVIOUS
    <3>1. SumFunctionOnSet(f, S) = 0 OBVIOUS
    <3>2. SumFunctionOnSet(f, S \cup {x}) = f[x] + SumFunctionOnSet(f, S) BY <2>1, <2>3, SumFacts
    <3>3. SumFunctionOnSet(f, S \cup {x}) = 0 BY <2>2, <3>1, <3>2
    <3>4. S \cup {x} \in SUBSET Threads OBVIOUS
    <3> QED BY <3>3, <3>4
  <2> HIDE DEF T
  <2>6. SUBSET Threads \subseteq T BY <2>1, <2>4, <2>5, SubsetsInduction
  <2>7. Threads \in T BY <2>6
  <2> QED BY <2>7 DEF T, Owed, f
<1>4. ASSUME NEW jj \in Below(Nnzb(m)), NEW k \in Places(m) PROVE c.vals[jj][k] = m.vals[jj][k]
  <2> DEFINE v == m.vals[jj][k]
  <2>1. v \in Nat /\ v % Mod = v BY <1>2, VariantScalars
  <2>2. c.vals[jj][k] = (v + 0) % Mod BY <1>1, <1>3
  <2> HIDE DEF v
  <2>3. v + 0 = v BY <2>1
  <2>4. c.vals[jj][k] = v BY <2>1, <2>2, <2>3
  <2> QED BY <2>4 DEF v
<1>5. c = m BY <1>1, <1>2, <1>4, VariantFacts
<1> QED BY <1>5 DEF c

\* A thread without any gets a list of additions.
LEMMA ListTaken ==
  ASSUME Field, NEW m, Stored(m), NEW j \in [Threads -> Seq(Pending(m))], NEW t \in Threads,
         j[t] = <<>>, NEW s \in Seq(Pending(m)), NEW j2, Replaces(j2, j, t, s)
  PROVE  /\ CompletedOf(m, j2) \in Variants(m)
         /\ \A jj \in Below(Nnzb(m)), k \in Places(m) :
              CompletedOf(m, j2).vals[jj][k] =
                (CompletedOf(m, j).vals[jj][k] + OwedIn(s, jj, k)) % Mod
<1> DEFINE c == CompletedOf(m, j)  c2 == CompletedOf(m, j2)
<1>1. j2 \in [Threads -> Seq(Pending(m))] BY DEF Replaces
<1>2. \A jj, k : OthersOwe(j2, j, t, s, jj, k)
  BY <1>1, OwedReplaced
<1>3. \A jj \in Below(Nnzb(m)), k \in Places(m) :
        c.vals[jj][k] = (m.vals[jj][k] + Owed(j, jj, k)) % Mod
  BY ThreadsAdd
<1>4. /\ c2 \in Variants(m)
      /\ \A jj \in Below(Nnzb(m)), k \in Places(m) :
           c2.vals[jj][k] = (m.vals[jj][k] + Owed(j2, jj, k)) % Mod
  BY <1>1, ThreadsAdd
<1> HIDE DEF c, c2
<1>5. ASSUME NEW jj \in Below(Nnzb(m)), NEW k \in Places(m)
      PROVE  c2.vals[jj][k] = (c.vals[jj][k] + OwedIn(s, jj, k)) % Mod
  <2> DEFINE v == m.vals[jj][k]  y == OwedIn(s, jj, k)  o == Owed(j, jj, k)  o2 == Owed(j2, jj, k)
  <2>1. m \in Variants(m) BY VariantFacts
  <2>2. v \in Nat BY <2>1, VariantScalars
  <2>3. y \in Nat BY AmountFacts
  <2>4. PICK rest \in Nat : o = OwedIn(j[t], jj, k) + rest /\ o2 = y + rest BY <1>2, Zenon DEF OthersOwe
  <2>5. OwedIn(j[t], jj, k) = 0 BY NothingOwed
  <2>10. o = 0 + rest BY <2>4, <2>5, Zenon
  <2>6. c.vals[jj][k] = (v + o) % Mod /\ c2.vals[jj][k] = (v + o2) % Mod BY <1>3, <1>4
  <2>11. o2 = y + rest /\ rest \in Nat BY <2>4
  <2> HIDE DEF v, y, o, o2
  <2>7. o \in Nat /\ o2 = y + o BY <2>3, <2>10, <2>11
  <2>8. (((v + o) % Mod) + y) % Mod = (v + (y + o)) % Mod BY <2>2, <2>3, <2>7, TwoAdditions
  <2>9. c2.vals[jj][k] = (c.vals[jj][k] + y) % Mod BY <2>6, <2>7, <2>8
  <2> QED BY <2>9 DEF y
<1> QED BY <1>4, <1>5 DEF c, c2

\* What a list with different places owes to one of them.
LEMMA OwedOnce ==
  ASSUME Field, NEW m, NEW s \in Seq(Pending(m)), NEW jj, NEW k
  PROVE  /\ (\A q \in DOMAIN s : ~(s[q].jj = jj /\ s[q].k = k)) => OwedIn(s, jj, k) = 0
         /\ \A r \in DOMAIN s :
              (\A q \in DOMAIN s : s[q].jj = jj /\ s[q].k = k <=> q = r)
                => OwedIn(s, jj, k) = s[r].amount
<1> DEFINE f == Amounts(s, jj, k)  U == DOMAIN s
           T(R) == {S \in SUBSET U : S \cap R = {} => SumFunctionOnSet(f, S) = 0}
<1>1. /\ IsFiniteSet(U)
      /\ \A q \in U : f[q] \in Nat /\ f[q] = IF s[q].jj = jj /\ s[q].k = k THEN s[q].amount ELSE 0
  BY AmountFacts
<1> HIDE DEF f
<1>2. \A q \in U : f[q] \in Int BY <1>1
<1>3. ASSUME NEW R, \A q \in U \ R : f[q] = 0,
             NEW Z \in SUBSET U, Z \cap R = {}
      PROVE  SumFunctionOnSet(f, Z) = 0
  <2>1. {} \in T(R) BY <1>1, <1>2, SumFacts
  <2>2. \A S \in SUBSET U : \A x \in U \ S : S \in T(R) => S \cup {x} \in T(R)
    <3> SUFFICES ASSUME NEW S \in SUBSET U, NEW x \in U \ S, S \in T(R)
                 PROVE  S \cup {x} \in T(R)
      OBVIOUS
    <3>1. S \cap R = {} => SumFunctionOnSet(f, S) = 0 OBVIOUS
    <3>2. SumFunctionOnSet(f, S \cup {x}) = f[x] + SumFunctionOnSet(f, S) BY <1>1, <1>2, SumFacts
    <3>3. (S \cup {x}) \cap R = {} => S \cap R = {} /\ f[x] = 0 BY <1>3
    <3>4. (S \cup {x}) \cap R = {} => SumFunctionOnSet(f, S \cup {x}) = 0 BY <3>1, <3>2, <3>3
    <3>5. S \cup {x} \in SUBSET U OBVIOUS
    <3> QED BY <3>4, <3>5
  <2> DEFINE TT == T(R)
  <2>3. {} \in TT /\ \A S \in SUBSET U : \A x \in U \ S : S \in TT => S \cup {x} \in TT
    BY <2>1, <2>2
  <2> HIDE DEF TT, U
  <2>4. SUBSET U \subseteq TT BY <1>1, <2>3, SubsetsInduction
  <2>5. Z \in TT BY <2>4
  <2> QED BY <1>3, <2>5 DEF TT
<1>4. ASSUME \A q \in U : ~(s[q].jj = jj /\ s[q].k = k) PROVE OwedIn(s, jj, k) = 0
  <2>1. \A q \in U \ {} : f[q] = 0 BY <1>1, <1>4
  <2>2. U \in SUBSET U /\ U \cap {} = {} OBVIOUS
  <2>3. SumFunctionOnSet(f, U) = 0 BY <1>3, <2>1, <2>2
  <2> QED BY <2>3 DEF f, OwedIn
<1>5. ASSUME NEW r \in U, \A q \in U : s[q].jj = jj /\ s[q].k = k <=> q = r
      PROVE  OwedIn(s, jj, k) = s[r].amount
  <2>1. (\A q \in U \ {r} : f[q] = 0) /\ f[r] = s[r].amount BY <1>1, <1>5
  <2>2. U \ {r} \in SUBSET U /\ (U \ {r}) \cap {r} = {} OBVIOUS
  <2>3. SumFunctionOnSet(f, U \ {r}) = 0 BY <1>3, <2>1, <2>2
  <2>4. SumFunctionOnSet(f, U) = f[r] + SumFunctionOnSet(f, U \ {r}) BY <1>1, <1>2, SumStep
  <2>5. f[r] \in Nat BY <1>1
  <2>6. SumFunctionOnSet(f, U) = s[r].amount BY <2>1, <2>3, <2>4, <2>5
  <2> QED BY <2>6 DEF f, OwedIn
<1> QED BY <1>4, <1>5

-----------------------------------------------------------------------------
\* Sequences of one length in a row.
Strips(seqs, n, w, E) == seqs \in [1 .. n -> Seq(E)] /\ \A i \in 1 .. n : Len(seqs[i]) = w
Joins(s, seqs, n, w) ==
  /\ Len(s) = n * w
  /\ \A r \in Below(n), c \in Below(w) : s[At(r, w, c) + 1] = seqs[r + 1][c + 1]

LEMMA FlattenEqual ==
  ASSUME NEW E, NEW n \in Nat \ {0}, NEW w \in Nat \ {0}, NEW seqs, Strips(seqs, n, w, E)
  PROVE  Joins(FlattenSeq(seqs), seqs, n, w)
<1>a. seqs \in [1 .. n -> Seq(E)] /\ \A i \in 1 .. n : Len(seqs[i]) = w BY DEF Strips
<1>0. PICK h : Flattens(h, seqs, n) BY <1>a, FlattenRule
<1>1. /\ FlattenSeq(seqs) = h[n]
      /\ \A i \in 1 .. n : h[i] = IF i = 1 THEN seqs[i] ELSE h[i - 1] \o seqs[i]
  BY <1>0 DEF Flattens
<1> DEFINE Good(i) == /\ h[i] \in Seq(E) /\ Len(h[i]) = i * w
                      /\ \A r \in Below(i), c \in Below(w) :
                           h[i][At(r, w, c) + 1] = seqs[r + 1][c + 1]
           T == {k \in Nat : k + 1 \in 1 .. n => Good(k + 1)}
<1>2. Good(1)
  <2>1. h[1] = seqs[1] /\ seqs[1] \in Seq(E) /\ Len(seqs[1]) = w BY <1>1, <1>a
  <2>2. \A r \in Below(1), c \in Below(w) : r = 0 /\ At(r, w, c) = c
    <3> TAKE r \in Below(1), c \in Below(w)
    <3>1. r = 0 /\ c \in Int BY DEF Below
    <3>2. 0 * w = 0 /\ 0 + c = c BY <3>1
    <3> QED BY <3>1, <3>2 DEF At
  <2>3. 1 * w = w OBVIOUS
  <2>4. \A r \in Below(1), c \in Below(w) : h[1][At(r, w, c) + 1] = seqs[r + 1][c + 1]
    <3> TAKE r \in Below(1), c \in Below(w)
    <3>1. r = 0 /\ At(r, w, c) = c BY <2>2
    <3>2. r + 1 = 1 BY <3>1
    <3> QED BY <2>1, <3>1, <3>2, Zenon
  <2> QED BY <2>1, <2>3, <2>4
<1>3. ASSUME NEW i \in 1 .. n, i + 1 \in 1 .. n, Good(i) PROVE Good(i + 1)
  <2> DEFINE s == h[i]  t == seqs[i + 1]  L == i * w
  <2>1. h[i + 1] = s \o t
    <3>1. i + 1 # 1 /\ (i + 1) - 1 = i OBVIOUS
    <3> QED BY <1>1, <1>3, <3>1
  <2>2. s \in Seq(E) /\ t \in Seq(E) /\ Len(s) = L /\ Len(t) = w BY <1>3, <1>a
  <2>3. L \in Nat /\ (i + 1) * w = L + w
    <3>1. i \in Nat OBVIOUS
    <3> QED BY <3>1
  <2> HIDE DEF s, t, L
  <2>4. /\ s \o t \in Seq(E) /\ Len(s \o t) = L + w
        /\ \A q \in 1 .. L : (s \o t)[q] = s[q]
        /\ \A q \in 1 .. w : (s \o t)[L + q] = t[q]
    <3>1. s \o t \in Seq(E) /\ Len(s \o t) = L + w BY <2>2, ConcatProperties
    <3>2. \A q \in 1 .. L : (s \o t)[q] = s[q]
      <4> TAKE q \in 1 .. L
      <4>1. q \in 1 .. L + w /\ q <= L BY <2>3
      <4> QED BY <2>2, <4>1
    <3>3. \A q \in 1 .. w : (s \o t)[L + q] = t[q]
      <4> TAKE q \in 1 .. w
      <4>1. L + q \in 1 .. L + w /\ ~(L + q <= L) /\ (L + q) - L = q BY <2>3
      <4> QED BY <2>2, <4>1
    <3> QED BY <3>1, <3>2, <3>3
  <2>5. ASSUME NEW r \in Below(i + 1), NEW c \in Below(w)
        PROVE  h[i + 1][At(r, w, c) + 1] = seqs[r + 1][c + 1]
    <3>1. CASE r = i
      <4>1. At(r, w, c) = L + c BY <3>1 DEF At, L
      <4>2. c + 1 \in 1 .. w /\ (L + c) + 1 = L + (c + 1) BY <2>3 DEF Below
      <4>4. (s \o t)[L + (c + 1)] = t[c + 1] BY <2>4, <4>2
      <4>5. At(r, w, c) + 1 = L + (c + 1) BY <4>1, <4>2
      <4>3. (s \o t)[At(r, w, c) + 1] = t[c + 1] BY <4>4, <4>5, Zenon
      <4> QED BY <2>1, <3>1, <4>3 DEF t
    <3>2. CASE r # i
      <4>1. r \in Below(i) /\ i \in Nat BY <3>2 DEF Below
      <4>2. At(r, w, c) \in Below(L) BY <4>1, IndexFacts DEF L
      <4>3. At(r, w, c) + 1 \in 1 .. L BY <2>3, <4>2 DEF Below
      <4>4. s[At(r, w, c) + 1] = seqs[r + 1][c + 1] BY <1>3, <4>1 DEF s
      <4> QED BY <2>1, <2>4, <4>3, <4>4
    <3> QED BY <3>1, <3>2
  <2> QED BY <2>1, <2>3, <2>4, <2>5
<1> HIDE DEF Good
<1>4. 0 \in T BY <1>2
<1>5. ASSUME NEW k \in Nat, k \in T PROVE k + 1 \in T
  <2> SUFFICES ASSUME (k + 1) + 1 \in 1 .. n PROVE Good((k + 1) + 1) OBVIOUS
  <2>1. k + 1 \in 1 .. n OBVIOUS
  <2>2. Good(k + 1) BY <1>5, <2>1
  <2> QED BY <1>3, <2>1, <2>2
<1> HIDE DEF T
<1>6. Nat \subseteq T BY <1>4, <1>5, NumbersInduction
<1>7. Good(n)
  <2>1. n - 1 \in T /\ (n - 1) + 1 = n /\ n \in 1 .. n BY <1>6
  <2> QED BY <2>1 DEF T
<1> QED BY <1>1, <1>7 DEF Good, Joins

\* Numbers next to each other are their own order.
LEMMA OrderedInterval ==
  ASSUME NEW a \in Nat, NEW k \in Nat, NEW S, Spans(S, a, k)
  PROVE  /\ Cardinality(S) = k
         /\ \A q \in 1 .. k : Ordered(S)[q] = a + q - 1
<1>0. S = a .. a + k - 1 BY DEF Spans
<1>1. IsFiniteSet(S) /\ Cardinality(S) = k
  <2>1. a \in Int /\ a + k - 1 \in Int OBVIOUS
  <2>2. IsFiniteSet(S) /\ Cardinality(S) = IF a > a + k - 1 THEN 0 ELSE (a + k - 1) - a + 1
    BY <1>0, <2>1, FS_Interval
  <2>3. (IF a > a + k - 1 THEN 0 ELSE (a + k - 1) - a + 1) = k OBVIOUS
  <2> QED BY <2>2, <2>3
<1> DEFINE h == Ordered(S)  p == [q \in 1 .. k |-> h[q] - a + 1]
<1>2. Enumerates(h, S) BY <1>0, <1>1, OrderedFacts
<1> HIDE DEF h
<1>3. /\ \A q \in 1 .. k : h[q] \in S /\ h[q] \in Int
      /\ \A q, r \in 1 .. k : q < r => h[q] < h[r]
  <2>1. /\ \A q \in 1 .. k : h[q] \in S
        /\ \A q, r \in 1 .. k : q < r => h[q] < h[r]
    BY <1>1, <1>2, Zenon DEF Enumerates
  <2>2. \A q \in 1 .. k : h[q] \in Int BY <1>0, <2>1
  <2> QED BY <2>1, <2>2
<1>4. p \in [1 .. k -> 1 .. k]
  <2>1. \A q \in 1 .. k : h[q] - a + 1 \in 1 .. k BY <1>0, <1>3
  <2> QED BY <2>1
<1>5. \A q, r \in 1 .. k : q < r => p[q] < p[r] BY <1>3
<1>6. \A q \in 1 .. k : p[q] = q
  <2> HIDE DEF p
  <2> QED BY <1>4, <1>5, AscendingIsIdentity
<1>7. ASSUME NEW q \in 1 .. k PROVE h[q] = a + q - 1
  <2>1. h[q] - a + 1 = q BY <1>6
  <2> QED BY <1>3, <2>1
<1> QED BY <1>1, <1>7 DEF h

-----------------------------------------------------------------------------
(***************************************************************************)
(* The places of a block that is passed: for row r and column c of it,     *)
(* the scalar of the matrix in row k.i + r and column k.j + c.             *)
(***************************************************************************)
Cell(k, r, c) == <<k.i + r, k.j + c>>

Grid(m, places, k) ==
  /\ Len(places) = k.b * k.b
  /\ \A r, c \in Below(k.b) :
       /\ Cell(k, r, c) \in SquareOf(m)
       /\ places[At(r, k.b, c) + 1].from = At(r, k.b, c)
       /\ Holds(m, places[At(r, k.b, c) + 1].jj, places[At(r, k.b, c) + 1].k, Cell(k, r, c))

\* Every scalar inside of the block has one place, and the others none.
Exact(m, places, k) ==
  /\ places \in Seq(PlacesOf(m, k.b))
  /\ \A q \in DOMAIN places : \A p \in SquareOf(m) :
       Holds(m, places[q].jj, places[q].k, p)
         => Matrix!Inside(k, p) /\ k.buf[places[q].from + 1] = Matrix!In(k, p)
  /\ \A p \in SquareOf(m) : Matrix!Inside(k, p)
       => \E q \in DOMAIN places : Holds(m, places[q].jj, places[q].k, p)
  /\ \A q, r \in DOMAIN places :
       places[q].jj = places[r].jj /\ places[q].k = places[r].k => q = r

LEMMA GridIsExact ==
  ASSUME NEW m, Stored(m), Distinct(m), NEW k, IsBlock(k), NEW places \in Seq(PlacesOf(m, k.b)),
         Grid(m, places, k)
  PROVE  Exact(m, places, k)
<1> DEFINE b == k.b  n == b * b  at(r, c) == At(r, b, c) + 1
<1>1. k.i \in Nat /\ k.j \in Nat /\ b \in Nat \ {0} /\ n \in Nat BY DEF IsBlock
<1>2. DOMAIN places = 1 .. n BY DEF Grid
<1>3. /\ \A r, c \in Below(b) : at(r, c) \in 1 .. n
      /\ \A q \in 1 .. n : \E r, c \in Below(b) : q = at(r, c)
  <2>1. /\ \A r, c \in Below(b) : At(r, b, c) \in Below(n)
        /\ \A q \in Below(n) : q \div b \in Below(b) /\ q % b \in Below(b)
                                /\ q = At(q \div b, b, q % b)
    BY <1>1, IndexFacts
  <2> HIDE DEF n, b
  <2>2. ASSUME NEW q \in 1 .. n PROVE \E r, c \in Below(b) : q = at(r, c)
    <3> DEFINE z == q - 1
    <3>1. z \in Below(n) /\ q = z + 1 BY <1>1 DEF Below
    <3> HIDE DEF z
    <3>2. /\ z \div b \in Below(b) /\ z % b \in Below(b)
          /\ z = At(z \div b, b, z % b)
      BY <2>1, <3>1
    <3>3. q = at(z \div b, z % b) BY <3>1, <3>2
    <3> QED BY <3>2, <3>3
  <2>3. \A q \in Below(n) : q + 1 \in 1 .. n BY <1>1 DEF Below
  <2>4. \A r, c \in Below(b) : at(r, c) \in 1 .. n BY <2>1, <2>3
  <2> QED BY <2>2, <2>4
<1>4. \A r, c \in Below(b) :
        /\ Cell(k, r, c) \in SquareOf(m)
        /\ places[at(r, c)].from + 1 = at(r, c)
        /\ Holds(m, places[at(r, c)].jj, places[at(r, c)].k, Cell(k, r, c))
  BY DEF Grid
<1>5. \A r, c \in Below(b) :
        /\ Matrix!Inside(k, Cell(k, r, c))
        /\ Matrix!In(k, Cell(k, r, c)) = k.buf[at(r, c)]
  <2> TAKE r, c \in Below(b)
  <2>1. r \in Nat /\ c \in Nat /\ r <= b - 1 /\ c <= b - 1 BY <1>1 DEF Below
  <2>2. Cell(k, r, c)[1] = k.i + r /\ Cell(k, r, c)[2] = k.j + c BY DEF Cell
  <2>3. (k.i + r) - k.i = r /\ (k.j + c) - k.j = c BY <1>1, <2>1
  <2>4. Matrix!Inside(k, Cell(k, r, c))
    <3>1. k.i + r \in k.i .. k.i + b - 1 /\ k.j + c \in k.j .. k.j + b - 1
      <4>1. k.i \in Nat /\ k.j \in Nat /\ b \in Nat BY <1>1
      <4> HIDE DEF b
      <4> QED BY <2>1, <4>1
    <3> QED BY <2>2, <3>1 DEF Matrix!Inside
  <2>5. Matrix!In(k, Cell(k, r, c)) = k.buf[((k.i + r) - k.i) * b + (k.j + c) - k.j + 1]
    BY <2>2 DEF Matrix!In
  <2>6. ((k.i + r) - k.i) * b + (k.j + c) - k.j + 1 = at(r, c)
    <3>1. ((k.i + r) - k.i) * b = r * b BY <2>3
    <3>2. r * b \in Int BY <1>1, <2>1
    <3> DEFINE rb == r * b
    <3>3. at(r, c) = rb + c + 1 BY DEF At
    <3>4. ((k.i + r) - k.i) * b + (k.j + c) - k.j + 1 = rb + (k.j + c) - k.j + 1 BY <3>1
    <3> HIDE DEF rb
    <3>5. rb \in Int BY <3>2 DEF rb
    <3>6. rb + (k.j + c) - k.j + 1 = rb + c + 1 BY <1>1, <2>1, <3>5
    <3> QED BY <3>3, <3>4, <3>6
  <2> QED BY <2>4, <2>5, <2>6
<1>6. \A p \in SquareOf(m) : Matrix!Inside(k, p) => \E r, c \in Below(b) : p = Cell(k, r, c)
  <2> SUFFICES ASSUME NEW p \in SquareOf(m), Matrix!Inside(k, p)
               PROVE  \E r, c \in Below(b) : p = Cell(k, r, c)
    OBVIOUS
  <2>1. p = <<p[1], p[2]>> BY DEF SquareOf
  <2>2. p[1] \in k.i .. k.i + b - 1 /\ p[2] \in k.j .. k.j + b - 1 BY DEF Matrix!Inside
  <2> DEFINE x == p[1]  y == p[2]
  <2> HIDE DEF x, y
  <2>3. x - k.i \in Below(b) /\ y - k.j \in Below(b) /\ k.i + (x - k.i) = x /\ k.j + (y - k.j) = y
    <3>1. x \in k.i .. k.i + b - 1 /\ y \in k.j .. k.j + b - 1 BY <2>2 DEF x, y
    <3>2. k.i \in Nat /\ k.j \in Nat /\ b \in Nat BY <1>1
    <3> HIDE DEF b
    <3> QED BY <3>1, <3>2 DEF Below
  <2>4. p = Cell(k, x - k.i, y - k.j) BY <2>1, <2>3 DEF Cell, x, y
  <2> QED BY <2>3, <2>4
<1> HIDE DEF b, n, at
<1>7. ASSUME NEW q \in 1 .. n, NEW p \in SquareOf(m), Holds(m, places[q].jj, places[q].k, p)
      PROVE  Matrix!Inside(k, p) /\ k.buf[places[q].from + 1] = Matrix!In(k, p)
  <2>1. PICK r, c \in Below(b) : q = at(r, c) BY <1>3
  <2>2. p = Cell(k, r, c) BY <1>4, <1>7, <2>1, HoldsOnce
  <2> QED BY <1>4, <1>5, <2>1, <2>2
<1>8. ASSUME NEW p \in SquareOf(m), Matrix!Inside(k, p)
      PROVE  \E q \in 1 .. n : Holds(m, places[q].jj, places[q].k, p)
  <2>1. PICK r, c \in Below(b) : p = Cell(k, r, c) BY <1>6, <1>8
  <2> QED BY <1>3, <1>4, <2>1
<1>9. ASSUME NEW q \in 1 .. n, NEW r \in 1 .. n,
             places[q].jj = places[r].jj, places[q].k = places[r].k
      PROVE  q = r
  <2>1. PICK e, f \in Below(b) : q = at(e, f) BY <1>3
  <2>2. PICK g, h \in Below(b) : r = at(g, h) BY <1>3
  <2>3. Cell(k, e, f) = Cell(k, g, h) BY <1>4, <1>9, <2>1, <2>2, HoldsOnce
  <2>4. e = g /\ f = h
    <3>1. k.i + e = k.i + g /\ k.j + f = k.j + h BY <2>3 DEF Cell
    <3>2. e \in Int /\ g \in Int /\ f \in Int /\ h \in Int BY DEF Below
    <3> QED BY <1>1, <3>1, <3>2
  <2> QED BY <2>1, <2>2, <2>4
<1> QED BY <1>2, <1>7, <1>8, <1>9 DEF Exact

(***************************************************************************)
(* A row that is sorted and has the columns from j on: its positions from  *)
(* column j on start with them.                                            *)
(***************************************************************************)
Begins(found, m, i, j, b) ==
  /\ Len(found) \in Nat /\ ~(Len(found) < b)
  /\ \A c \in Below(b) : found[c + 1] \in Row(m, i) /\ m.bcolind[found[c + 1]] = j + c

LEMMA PositionsFrom ==
  ASSUME NEW m, Stored(m), SortedRows(m), NEW i \in Rows(m), NEW j \in Nat, NEW b \in Nat \ {0},
         j .. j + b - 1 \subseteq ColumnsOf(m, i)
  PROVE  Begins(Positions(m, i, j .. m.nbrows - 1), m, i, j, b)
<1> DEFINE lo == j  hi == j + b - 1  C == j .. m.nbrows - 1
           S == {jj \in Row(m, i) : m.bcolind[jj] \in C}
           found == Positions(m, i, C)
<1>1. lo \in lo .. hi /\ hi \in lo .. hi /\ lo \in Int /\ hi \in Int OBVIOUS
<1>2. PICK first \in Row(m, i) : m.bcolind[first] = j BY <1>1 DEF ColumnsOf
<1>3. m.browptr[i] \in Nat /\ m.browptr[i + 1] \in Nat /\ m.nbrows \in Nat BY RowFacts, StoredBounds
<1> DEFINE end == m.browptr[i + 1]  K == end - first
<1>4. first \in Nat /\ K \in Nat \ {0} /\ first + K = end BY <1>2, <1>3 DEF Row
<1>5. \A jj \in Row(m, i) : jj \in Nat /\ m.bcolind[jj] \in Nat /\ m.bcolind[jj] <= m.nbrows - 1
  <2> TAKE jj \in Row(m, i)
  <2>1. jj \in Below(Nnzb(m)) BY RowFacts
  <2>2. m.bcolind[jj] \in Rows(m) BY <2>1 DEF Stored
  <2>3. jj \in Nat BY <1>3 DEF Row
  <2> QED BY <1>3, <2>2, <2>3 DEF Rows, Below
<1>6. \A jj \in Row(m, i) : m.bcolind[jj] \in C <=> first <= jj
  <2> TAKE jj \in Row(m, i)
  <2>1. jj < first => m.bcolind[jj] < j BY <1>2, RowAscends
  <2>2. first < jj => j < m.bcolind[jj] BY <1>2, RowAscends
  <2>3. jj = first => m.bcolind[jj] = j BY <1>2
  <2>4. jj \in Nat /\ m.bcolind[jj] \in Nat /\ m.bcolind[jj] <= m.nbrows - 1 BY <1>5
  <2> QED BY <1>3, <1>4, <2>1, <2>2, <2>3, <2>4
<1>7. \A jj \in first .. end - 1 : jj \in Row(m, i) BY <1>2, <1>3, <1>4 DEF Row
<1>8. \A jj \in Row(m, i) : jj <= end - 1 BY <1>3 DEF Row
<1> HIDE DEF C, K, end
<1>9. S = first .. first + K - 1
  <2>1. \A x : x \in S => x \in first .. first + K - 1
    <3> SUFFICES ASSUME NEW x \in S PROVE x \in first .. first + K - 1 OBVIOUS
    <3>1. x \in Row(m, i) /\ first <= x /\ x \in Nat BY <1>5, <1>6
    <3>2. x <= first + K - 1 BY <1>4, <1>8, <3>1
    <3> QED BY <1>4, <3>1, <3>2
  <2>2. \A x \in first .. first + K - 1 : x \in S
    <3> TAKE x \in first .. first + K - 1
    <3>1. x \in first .. end - 1 /\ first <= x BY <1>4
    <3>2. x \in Row(m, i) BY <1>7, <3>1
    <3> QED BY <1>6, <3>1, <3>2
  <2> HIDE DEF S
  <2> QED BY <2>1, <2>2
<1>10. found = Ordered(S) BY DEF Positions
<1> HIDE DEF S
<1>11. Cardinality(S) = K /\ \A q \in 1 .. K : Ordered(S)[q] = first + q - 1
  <2>1. Spans(S, first, K) BY <1>9 DEF Spans
  <2> QED BY <1>4, <2>1, OrderedInterval
<1>12. Len(found) = K
  <2>1. IsFiniteSet(S) /\ S \subseteq Int
    <3>1. first \in Int /\ first + K - 1 \in Int BY <1>4
    <3> QED BY <1>9, <3>1, FS_Interval
  <2> QED BY <1>10, <1>11, <2>1, OrderedFacts
<1>13. ASSUME NEW x \in lo .. hi
       PROVE  first + (x - j) \in Row(m, i) /\ m.bcolind[first + (x - j)] = x
  <2>1. lo .. hi \subseteq ColumnsOf(m, i) OBVIOUS
  <2>2. PICK l \in Row(m, i) : m.bcolind[l] = x BY <2>1 DEF ColumnsOf
  <2>3. m.bcolind[first] \in lo .. hi /\ m.bcolind[l] \in lo .. hi BY <1>1, <1>2, <2>2
  <2> HIDE DEF lo, hi
  <2>4. l - first = m.bcolind[l] - m.bcolind[first]
    BY <1>1, <2>1, <2>3, ConsecutiveColumns
  <2>5. l - first = x - j BY <1>2, <2>2, <2>4
  <2>6. l \in Int /\ first \in Int /\ x \in Int BY <1>1, <1>4, <1>5
  <2>7. first + (x - j) = l BY <2>5, <2>6
  <2> QED BY <2>2, <2>7
<1>14. first + (hi - j) <= end - 1 BY <1>1, <1>8, <1>13
<1>15. b <= K BY <1>4, <1>14
<1>16. ASSUME NEW c \in Below(b)
       PROVE  found[c + 1] \in Row(m, i) /\ m.bcolind[found[c + 1]] = j + c
  <2>1. c \in Nat /\ c + 1 \in 1 .. K BY <1>4, <1>15 DEF Below
  <2>2. found[c + 1] = first + (c + 1) - 1 BY <1>10, <1>11, <2>1
  <2>3. first + (c + 1) - 1 = first + ((j + c) - j) /\ j + c \in lo .. hi
    BY <1>4, <2>1 DEF Below
  <2> HIDE DEF found
  <2>4. found[c + 1] = first + ((j + c) - j) BY <2>2, <2>3
  <2>5. first + ((j + c) - j) \in Row(m, i) /\ m.bcolind[first + ((j + c) - j)] = j + c
    BY <1>13, <2>3
  <2> QED BY <2>4, <2>5
<1>17. Len(found) \in Nat /\ ~(Len(found) < b) BY <1>4, <1>12, <1>15
<1> QED BY <1>16, <1>17 DEF C, Begins

LEMMA FittingCells ==
  ASSUME Stored(mat), NEW k, IsBlock(k), Fits(k), mat.bs = 1, NEW r \in Below(k.b)
  PROVE  /\ k.i + r \in Rows(mat) /\ SortedRows(mat)
         /\ k.j .. k.j + k.b - 1 \subseteq ColumnsOf(mat, k.i + r)
<1>1. k.i \in Nat /\ k.b \in Nat \ {0} BY DEF IsBlock
<1>2. mat.nbrows \in Nat BY StoredBounds
<1>3. k.i + k.b <= mat.nbrows
  <2>1. mat.nbrows * 1 = mat.nbrows BY <1>2
  <2> QED BY <2>1 DEF Fits, Dim
<1>4. k.i + r \in Rows(mat) BY <1>1, <1>2, <1>3 DEF Rows, Below
<1>5. k.i + r \in k.i .. k.i + k.b - 1 BY <1>1 DEF Below
<1> QED BY <1>4, <1>5 DEF Fits

LEMMA RowsGrid ==
  ASSUME Stored(mat), NEW k, IsBlock(k), Fits(k), mat.bs = 1
  PROVE  Grid(mat, RowPlaces(mat, k.i, k.j, k.b, k.b, k.b), k)
<1> DEFINE b == k.b
           found(r) == Positions(mat, k.i + r - 1, k.j .. mat.nbrows - 1)
           L(r) == IF Len(found(r)) < b THEN Len(found(r)) ELSE b
           From(r, l) == (r - 1) * b + l - 1
           part(r) == [l \in 1 .. L(r) |-> [jj |-> found(r)[l], k |-> 0, from |-> From(r, l)]]
           seqs == [r \in 1 .. b |-> part(r)]
           E == [jj : Int, k : {0}, from : Int]
           places == RowPlaces(mat, k.i, k.j, b, b, b)
<1>1. places = FlattenSeq(seqs) BY DEF RowPlaces
<1>2. k.i \in Nat /\ k.j \in Nat /\ b \in Nat \ {0} BY DEF IsBlock
<1>3. ASSUME NEW r \in Below(b)
      PROVE  /\ L(r + 1) = b /\ k.i + r \in Rows(mat)
             /\ \A c \in Below(b) : /\ found(r + 1)[c + 1] \in Row(mat, k.i + r)
                                    /\ mat.bcolind[found(r + 1)[c + 1]] = k.j + c
  <2> DEFINE i == k.i + r  pos == Positions(mat, i, k.j .. mat.nbrows - 1)
  <2>1. k.i + (r + 1) - 1 = i BY <1>2 DEF Below
  <2>2. i \in Rows(mat) /\ SortedRows(mat) /\ k.j .. k.j + b - 1 \subseteq ColumnsOf(mat, i)
    BY FittingCells
  <2> HIDE DEF i, b
  <2>3. /\ Len(pos) \in Nat /\ ~(Len(pos) < b)
        /\ \A c \in Below(b) : pos[c + 1] \in Row(mat, i) /\ mat.bcolind[pos[c + 1]] = k.j + c
    <3>1. Begins(pos, mat, i, k.j, b) BY <1>2, <2>2, PositionsFrom
    <3> HIDE DEF pos
    <3> QED BY <3>1 DEF Begins
  <2>4. found(r + 1) = pos BY <2>1
  <2> HIDE DEF found, pos
  <2> QED BY <2>2, <2>3, <2>4 DEF i
<1>4. ASSUME NEW r \in 1 .. b, NEW l \in 1 .. b
      PROVE  /\ r - 1 \in Below(b) /\ (r - 1) + 1 = r /\ l - 1 \in Below(b) /\ (l - 1) + 1 = l
             /\ From(r, l) \in Int
  <2>1. r - 1 \in Int /\ l \in Int /\ b \in Int BY <1>2
  <2>2. (r - 1) * b \in Int BY <2>1
  <2>3. From(r, l) \in Int BY <2>1, <2>2
  <2> QED BY <1>2, <2>3 DEF Below
<1> HIDE DEF found, From
<1>5. ASSUME NEW r \in 1 .. b PROVE part(r) \in Seq(E) /\ Len(part(r)) = b
  <2>1. L(r) = b BY <1>3, <1>4
  <2>2. \A l \in 1 .. b : found(r)[l] \in Int
    <3> TAKE l \in 1 .. b
    <3>1. r - 1 \in Below(b) /\ (r - 1) + 1 = r /\ l - 1 \in Below(b) /\ (l - 1) + 1 = l BY <1>4
    <3>2. found(r)[l] \in Row(mat, k.i + (r - 1)) /\ k.i + (r - 1) \in Rows(mat)
      <4> DEFINE x == r - 1  y == l - 1
      <4>1. x \in Below(b) /\ y \in Below(b) /\ x + 1 = r /\ y + 1 = l BY <3>1
      <4> HIDE DEF x, y
      <4> QED BY <1>3, <4>1 DEF x
    <3>3. found(r)[l] \in Below(Nnzb(mat)) BY <3>2, RowFacts
    <3> QED BY <3>3 DEF Below
  <2>3. \A l \in 1 .. b : [jj |-> found(r)[l], k |-> 0, from |-> From(r, l)] \in E
    BY <1>4, <2>2
  <2> HIDE DEF E, L
  <2>4. part(r) \in [1 .. b -> E] BY <2>1, <2>3
  <2> HIDE DEF part, b
  <2> QED BY <1>2, <2>4
<1>6. ASSUME NEW r \in Below(b), NEW c \in Below(b)
      PROVE  /\ part(r + 1)[c + 1] = [jj |-> found(r + 1)[c + 1], k |-> 0, from |-> From(r + 1, c + 1)]
             /\ From(r + 1, c + 1) = At(r, b, c)
  <2>1. L(r + 1) = b BY <1>3
  <2>2. r \in Int /\ c \in Int /\ c + 1 \in 1 .. b BY <1>2 DEF Below
  <2>3. (r + 1) - 1 = r /\ r * b \in Int BY <1>2, <2>2
  <2>4. From(r + 1, c + 1) = r * b + (c + 1) - 1 BY <2>3 DEF From
  <2> DEFINE z == r * b
  <2>5. z \in Int /\ From(r + 1, c + 1) = z + (c + 1) - 1 /\ At(r, b, c) = z + c
    BY <2>3, <2>4 DEF At
  <2> HIDE DEF z
  <2>6. From(r + 1, c + 1) = At(r, b, c) BY <2>2, <2>5
  <2> HIDE DEF L
  <2> QED BY <2>1, <2>2, <2>6
<1> HIDE DEF part, E
<1>7. \A r \in Below(b) : seqs[r + 1] = part(r + 1)
  <2> TAKE r \in Below(b)
  <2>1. r + 1 \in 1 .. b BY <1>2 DEF Below
  <2> QED BY <2>1
<1>8. seqs \in [1 .. b -> Seq(E)] /\ \A r \in 1 .. b : Len(seqs[r]) = b BY <1>5
<1> HIDE DEF seqs, places, b
<1>9. /\ Len(places) = b * b
      /\ \A r, c \in Below(b) : places[At(r, b, c) + 1] = seqs[r + 1][c + 1]
  <2>1. Strips(seqs, b, b, E) BY <1>8 DEF Strips
  <2>2. Joins(places, seqs, b, b) BY <1>1, <1>2, <2>1, FlattenEqual
  <2> QED BY <2>2 DEF Joins
<1>10. ASSUME NEW r \in Below(b), NEW c \in Below(b)
       PROVE  /\ Cell(k, r, c) \in SquareOf(mat)
              /\ places[At(r, b, c) + 1].from = At(r, b, c)
              /\ Holds(mat, places[At(r, b, c) + 1].jj, places[At(r, b, c) + 1].k, Cell(k, r, c))
  <2> DEFINE jj == found(r + 1)[c + 1]  e == places[At(r, b, c) + 1]
  <2>0. e = part(r + 1)[c + 1]
    <3>1. e = seqs[r + 1][c + 1] BY <1>9
    <3>2. seqs[r + 1] = part(r + 1) BY <1>7
    <3> QED BY <3>1, <3>2, Zenon
  <2>1. e = [jj |-> jj, k |-> 0, from |-> At(r, b, c)]
    <3> HIDE DEF e
    <3> QED BY <1>6, <2>0
  <2>2. k.i + r \in Rows(mat) /\ jj \in Row(mat, k.i + r) /\ mat.bcolind[jj] = k.j + c BY <1>3
  <2>3. e.jj = jj /\ e.k = 0 /\ e.from = At(r, b, c) BY <2>1
  <2> HIDE DEF jj, e
  <2>4. Cell(k, r, c) = <<k.i + r, mat.bcolind[jj]>> BY <2>2 DEF Cell
  <2>5. Cell(k, r, c) \in SquareOf(mat) /\ Holds(mat, jj, 0, Cell(k, r, c))
    BY <2>2, <2>4, ScalarHolds
  <2> QED BY <2>3, <2>5 DEF e
<1> QED BY <1>9, <1>10 DEF Grid, places, b

\* A block of the matrix that is as large as those stored.
OneBlock(places, jj, w) ==
  Len(places) = w /\ \A x \in Below(w) : places[x + 1] = [jj |-> jj, k |-> x, from |-> x]

LEMMA BlockCells ==
  ASSUME Stored(mat), mat.stor = "rowmajor", NEW k, IsBlock(k), Fits(k), mat.bs # 1,
         NEW jj \in Row(mat, k.i \div mat.bs), mat.bcolind[jj] = k.j \div mat.bs,
         NEW places, OneBlock(places, jj, k.b * k.b)
  PROVE  Grid(mat, places, k)
<1> DEFINE b == k.b  i == k.i \div mat.bs  j == k.j \div mat.bs
<1>1. mat.nbrows \in Nat /\ mat.bs \in Nat \ {0} BY StoredBounds
<1>2. k.i \in Nat /\ k.j \in Nat BY DEF IsBlock
<1>3. b = mat.bs /\ k.i % mat.bs = 0 /\ k.j % mat.bs = 0 BY DEF Fits
<1>4. i \in Rows(mat) BY FittingRows
<1>5. k.i = mat.bs * i + 0 /\ k.j = mat.bs * j + 0 /\ i \in Nat /\ j \in Nat
  <2>1. /\ i \in Nat /\ k.i = mat.bs * i + (k.i % mat.bs)
        /\ j \in Nat /\ k.j = mat.bs * j + (k.j % mat.bs)
    BY <1>1, <1>2, DivisionFacts
  <2> QED BY <1>3, <2>1
<1> HIDE DEF i, j
<1>6. ASSUME NEW r \in Below(b), NEW c \in Below(b)
      PROVE  /\ Cell(k, r, c) = Corner(mat, i, r, j, c) /\ Place(mat, r, c) = At(r, b, c)
             /\ At(r, b, c) \in Below(b * b)
  <2>1. r \in Int /\ c \in Int BY DEF Below
  <2>2. k.i + r = At(i, mat.bs, r) /\ k.j + c = At(j, mat.bs, c)
    <3>1. mat.bs * i = i * mat.bs /\ mat.bs * j = j * mat.bs
          /\ mat.bs * i \in Int /\ mat.bs * j \in Int
      BY <1>1, <1>5
    <3> DEFINE x == mat.bs * i  y == mat.bs * j
    <3>2. x = i * mat.bs /\ y = j * mat.bs /\ x \in Int /\ y \in Int /\ k.i = x + 0 /\ k.j = y + 0
      BY <1>5, <3>1
    <3>3. At(i, mat.bs, r) = i * mat.bs + r /\ At(j, mat.bs, c) = j * mat.bs + c BY DEF At
    <3> HIDE DEF x, y
    <3>4. At(i, mat.bs, r) = x + r /\ At(j, mat.bs, c) = y + c BY <3>2, <3>3
    <3> QED BY <2>1, <3>2, <3>4
  <2>3. Cell(k, r, c) = Corner(mat, i, r, j, c) BY <2>2, Zenon DEF Cell, Corner
  <2>4. Place(mat, r, c) = At(r, b, c) BY <1>3 DEF Place, At
  <2>5. At(r, b, c) \in Below(b * b)
    <3>1. b \in Nat \ {0} BY <1>1, <1>3
    <3> HIDE DEF b
    <3> QED BY <3>1, IndexFacts
  <2> QED BY <2>3, <2>4, <2>5
<1>7. ASSUME NEW r \in Below(b), NEW c \in Below(b)
      PROVE  /\ Cell(k, r, c) \in SquareOf(mat)
             /\ places[At(r, b, c) + 1].from = At(r, b, c)
             /\ Holds(mat, places[At(r, b, c) + 1].jj, places[At(r, b, c) + 1].k, Cell(k, r, c))
  <2> DEFINE x == At(r, b, c)  e == places[x + 1]
  <2>1. x \in Below(b * b) BY <1>6
  <2>2. e = [jj |-> jj, k |-> x, from |-> x]
    <3> HIDE DEF x
    <3> QED BY <2>1 DEF OneBlock
  <2>3. e.jj = jj /\ e.k = x /\ e.from = x BY <2>2
  <2>4. Corner(mat, i, r, j, c) \in SquareOf(mat)
        /\ Holds(mat, jj, Place(mat, r, c), Corner(mat, i, r, j, c))
    <3>1. jj \in Row(mat, i) /\ j = mat.bcolind[jj] BY DEF i, j
    <3>2. r \in Below(mat.bs) /\ c \in Below(mat.bs) BY <1>3
    <3> QED BY <1>4, <3>1, <3>2, CornerHolds
  <2>5. Cell(k, r, c) = Corner(mat, i, r, j, c) /\ Place(mat, r, c) = x BY <1>6
  <2> HIDE DEF e, x
  <2>6. Cell(k, r, c) \in SquareOf(mat) /\ e.from = x /\ Holds(mat, e.jj, e.k, Cell(k, r, c))
    BY <2>3, <2>4, <2>5
  <2> QED BY <2>6 DEF e, x
<1>8. Len(places) = b * b BY DEF OneBlock
<1> QED BY <1>7, <1>8 DEF Grid

LEMMA BlocksGrid ==
  ASSUME Stored(mat), Distinct(mat), mat.stor = "rowmajor", NEW k, IsBlock(k), Fits(k), mat.bs # 1
  PROVE  Grid(mat, BlockPlaces(mat, k.i, k.j), k)
<1> DEFINE i == k.i \div mat.bs  j == k.j \div mat.bs  C == {j}
           S == {jj \in Row(mat, i) : mat.bcolind[jj] = j}
           S2 == {jj \in Row(mat, i) : mat.bcolind[jj] \in C}
           N == Cardinality(S)
           found == Positions(mat, i, C)
           w == mat.bs * mat.bs
           part(q) == [l \in 1 .. w |-> [jj |-> found[q], k |-> l - 1, from |-> l - 1]]
           seqs == [q \in 1 .. N |-> part(q)]
           places == BlockPlaces(mat, k.i, k.j)
           E == [jj : Int, k : Int, from : Int]
<1>1. mat.bs \in Nat \ {0} BY StoredBounds
<1>2. i \in Rows(mat) /\ k.b = mat.bs BY FittingRows
<1>3. j \in ColumnsOf(mat, i) BY DEF Fits
<1>4. places = FlattenSeq(seqs) BY DEF BlockPlaces
<1>5. S2 = S OBVIOUS
<1> HIDE DEF i, j, C
<1>6. PICK jj \in Row(mat, i) : mat.bcolind[jj] = j BY <1>3 DEF ColumnsOf
<1>7. S = {jj} BY <1>2, <1>6 DEF Distinct
<1>8. N = 1
  <2> HIDE DEF S
  <2> QED BY <1>7, FS_Singleton
<1>9. found[1] = jj
  <2>1. /\ \A l \in 1 .. Cardinality(S2) : found[l] \in S2
        /\ Cardinality(S2) \in Nat
    BY <1>2, PositionsFacts
  <2> HIDE DEF S, S2, found
  <2>2. found[1] \in S2 BY <1>5, <1>8, <2>1
  <2> QED BY <1>5, <1>7, <2>2
<1>10. jj \in Int
  <2>1. jj \in Below(Nnzb(mat)) BY <1>2, <1>6, RowFacts
  <2> QED BY <2>1 DEF Below
<1>11. w \in Nat \ {0} BY <1>1
<1> HIDE DEF found, S, S2, w, N, places
<1>12. part(1) \in Seq(E) /\ Len(part(1)) = w
  <2>1. \A l \in 1 .. w : [jj |-> found[1], k |-> l - 1, from |-> l - 1] \in E
    BY <1>9, <1>10
  <2> HIDE DEF E
  <2>2. part(1) \in [1 .. w -> E] BY <2>1
  <2> HIDE DEF part
  <2> QED BY <1>11, <2>2
<1>13. \A x \in Below(w) : part(1)[x + 1] = [jj |-> jj, k |-> x, from |-> x]
  <2> TAKE x \in Below(w)
  <2>1. x + 1 \in 1 .. w /\ (x + 1) - 1 = x BY <1>11 DEF Below
  <2>2. part(1)[x + 1] = [jj |-> found[1], k |-> (x + 1) - 1, from |-> (x + 1) - 1] BY <2>1
  <2> HIDE DEF part
  <2> QED BY <1>9, <2>1, <2>2
<1> HIDE DEF part, E
<1>14. seqs \in [1 .. 1 -> Seq(E)] /\ seqs[1] = part(1) /\ \A q \in 1 .. 1 : Len(seqs[q]) = w
  <2>1. \A q \in 1 .. 1 : q = 1 OBVIOUS
  <2> QED BY <1>8, <1>12, <2>1
<1> HIDE DEF seqs
<1>15. /\ Len(places) = 1 * w
       /\ \A r \in Below(1), c \in Below(w) : places[At(r, w, c) + 1] = seqs[r + 1][c + 1]
  <2>1. Strips(seqs, 1, w, E) BY <1>14 DEF Strips
  <2>2. Joins(places, seqs, 1, w) BY <1>4, <1>11, <2>1, FlattenEqual
  <2> QED BY <2>2 DEF Joins
<1>16. OneBlock(places, jj, w)
  <2>1. 1 * w = w BY <1>11
  <2>2. ASSUME NEW x \in Below(w) PROVE places[x + 1] = [jj |-> jj, k |-> x, from |-> x]
    <3>1. 0 \in Below(1) /\ 0 + 1 = 1 BY DEF Below
    <3>2. At(0, w, x) = x
      <4>1. 0 * w = 0 /\ x \in Int BY <1>11 DEF Below
      <4> QED BY <4>1 DEF At
    <3>3. places[At(0, w, x) + 1] = seqs[0 + 1][x + 1] BY <1>15, <3>1
    <3>4. places[x + 1] = part(1)[x + 1] BY <1>14, <3>1, <3>2, <3>3, Zenon
    <3> QED BY <1>13, <3>4
  <2> QED BY <1>15, <2>1, <2>2 DEF OneBlock
<1>17. OneBlock(places, jj, k.b * k.b) BY <1>2, <1>16 DEF w
<1> QED BY <1>6, <1>17, BlockCells DEF i, j, places

LEMMA DiagonalGrid ==
  ASSUME Sound(mat), mat.stor = "rowmajor", NEW k, IsBlock(k), Fits(k), k.i = k.j
  PROVE  Grid(mat, DiagPlaces(mat, k.i, k.b), k)
<1> DEFINE b == k.b  n == b * b  places == DiagPlaces(mat, k.i, b)
<1>1. Stored(mat) BY DEF Sound
<1>2. k.i \in Nat /\ k.j \in Nat /\ b \in Nat \ {0} /\ n \in Nat BY DEF IsBlock
<1>3. CASE mat.bs = 1
  <2> DEFINE entry(q) == [jj |-> mat.diagind[k.i + ((q - 1) \div b)] - ((q - 1) \div b) + ((q - 1) % b),
                          k |-> 0, from |-> ((q - 1) \div b) * b + ((q - 1) % b)]
  <2>1. places = [q \in 1 .. n |-> entry(q)] BY <1>3 DEF DiagPlaces, DiagRowPlaces
  <2>2. Len(places) = n
    <3> HIDE DEF n, entry
    <3> QED BY <1>2, <2>1
  <2>3. ASSUME NEW r \in Below(b), NEW c \in Below(b)
        PROVE  /\ Cell(k, r, c) \in SquareOf(mat)
               /\ places[At(r, b, c) + 1].from = At(r, b, c)
               /\ Holds(mat, places[At(r, b, c) + 1].jj, places[At(r, b, c) + 1].k, Cell(k, r, c))
    <3> DEFINE x == At(r, b, c)  e == places[x + 1]  jj == mat.diagind[k.i + r] - r + c
    <3>1. x \in Below(n) /\ x \div b = r /\ x % b = c BY <1>2, IndexFacts
    <3>2. x + 1 \in 1 .. n /\ (x + 1) - 1 = x
      <4> HIDE DEF x, n
      <4> QED BY <1>2, <3>1 DEF Below
    <3>3. e = entry(x + 1)
      <4> HIDE DEF x, n, entry, places
      <4> QED BY <2>1, <3>2 DEF x
    <3>4. entry(x + 1) = [jj |-> mat.diagind[k.i + (x \div b)] - (x \div b) + (x % b), k |-> 0,
                          from |-> (x \div b) * b + (x % b)]
      <4> HIDE DEF x, b
      <4> QED BY <3>2
    <3>5. e = [jj |-> jj, k |-> 0, from |-> r * b + c]
      <4> HIDE DEF x, b, e, entry
      <4> QED BY <3>1, <3>3, <3>4
    <3>6. e.jj = jj /\ e.k = 0 /\ e.from = x BY <3>5 DEF At
    <3>7. k.i + r \in Rows(mat) /\ jj \in Row(mat, k.i + r) /\ mat.bcolind[jj] = k.i + c
      BY <1>3, DiagonalEntries
    <3> HIDE DEF jj, e, x
    <3>8. Cell(k, r, c) = <<k.i + r, mat.bcolind[jj]>> BY <3>7 DEF Cell
    <3>9. Cell(k, r, c) \in SquareOf(mat) /\ Holds(mat, jj, 0, Cell(k, r, c))
      BY <1>1, <1>3, <3>7, <3>8, ScalarHolds
    <3> QED BY <3>6, <3>9 DEF e, x
  <2> QED BY <2>2, <2>3 DEF Grid
<1>4. CASE mat.bs # 1
  <2> DEFINE i == k.i \div mat.bs  d == mat.diagind[i]
  <2>1. b = mat.bs /\ i \in Rows(mat) BY <1>1, <1>4, FittingRows
  <2>2. places = [q \in 1 .. n |-> [jj |-> d, k |-> q - 1, from |-> q - 1]]
    BY <1>4, <2>1 DEF DiagPlaces
  <2>3. d \in Row(mat, i) /\ mat.bcolind[d] = i
    <3>1. i \in ColumnsOf(mat, i) BY <1>4 DEF Fits
    <3>2. \E jj \in Row(mat, i) : mat.bcolind[jj] = i BY <3>1 DEF ColumnsOf
    <3> QED BY <2>1, <3>2 DEF Sound, Found
  <2> HIDE DEF d, n, places
  <2>4. Len(places) = n BY <1>2, <2>2
  <2>5. ASSUME NEW x \in Below(n) PROVE places[x + 1] = [jj |-> d, k |-> x, from |-> x]
    <3>1. x + 1 \in 1 .. n /\ (x + 1) - 1 = x BY <1>2 DEF Below
    <3>2. places[x + 1] = [jj |-> d, k |-> (x + 1) - 1, from |-> (x + 1) - 1] BY <2>2, <3>1
    <3> QED BY <3>1, <3>2
  <2>6. OneBlock(places, d, n) BY <2>4, <2>5 DEF OneBlock
  <2> QED BY <1>1, <1>4, <2>3, <2>6, BlockCells DEF n, places
<1> QED BY <1>3, <1>4

LEMMA FittingExact ==
  ASSUME Stored(mat), Distinct(mat), mat.stor = "rowmajor", NEW k, IsBlock(k), Fits(k)
  PROVE  /\ Exact(mat, SubmitPlaces(mat, k.i, k.j, k.b, k.b), k)
         /\ Exact(mat, UpdatePlaces(mat, k.i, k.j, k.b, k.b), k)
<1>1. /\ SubmitPlaces(mat, k.i, k.j, k.b, k.b) \in Seq(PlacesOf(mat, k.b))
      /\ UpdatePlaces(mat, k.i, k.j, k.b, k.b) \in Seq(PlacesOf(mat, k.b))
  BY FittingPlaces
<1>2. Grid(mat, SubmitPlaces(mat, k.i, k.j, k.b, k.b), k)
      /\ Grid(mat, UpdatePlaces(mat, k.i, k.j, k.b, k.b), k)
  <2>1. CASE mat.bs = 1 BY <2>1, RowsGrid DEF SubmitPlaces, UpdatePlaces
  <2>2. CASE mat.bs # 1 BY <2>2, BlocksGrid DEF SubmitPlaces, UpdatePlaces
  <2> QED BY <2>1, <2>2
<1> QED BY <1>1, <1>2, GridIsExact

LEMMA FittingDiagonal ==
  ASSUME Sound(mat), mat.stor = "rowmajor", NEW k, IsBlock(k), Fits(k), k.i = k.j
  PROVE  Exact(mat, DiagPlaces(mat, k.i, k.b), k)
BY FittingDiagPlaces, DiagonalGrid, GridIsExact DEF Sound

-----------------------------------------------------------------------------
(***************************************************************************)
(* What becomes of the matrix when a block is inserted, or added to it.    *)
(***************************************************************************)
Pair(m) == SquareOf(m) \X Scalars

LEMMA ExactFacts ==
  ASSUME NEW m, Stored(m), Distinct(m), NEW k, IsBlock(k), NEW places, Exact(m, places, k),
         NEW p \in SquareOf(m), NEW jj, NEW l, Holds(m, jj, l, p)
  PROVE  \/ /\ Matrix!Inside(k, p)
            /\ \E q \in DOMAIN places :
                 /\ places[q].jj = jj /\ places[q].k = l
                 /\ k.buf[places[q].from + 1] = Matrix!In(k, p)
                 /\ \A r \in DOMAIN places : places[r].jj = jj /\ places[r].k = l => r = q
         \/ /\ ~Matrix!Inside(k, p)
            /\ \A q \in DOMAIN places : ~(places[q].jj = jj /\ places[q].k = l)
<1>1. CASE Matrix!Inside(k, p)
  <2>1. PICK q \in DOMAIN places : Holds(m, places[q].jj, places[q].k, p) BY <1>1 DEF Exact
  <2>2. places[q].jj = jj /\ places[q].k = l BY <2>1, HoldsOnce
  <2>3. k.buf[places[q].from + 1] = Matrix!In(k, p) BY <2>1 DEF Exact
  <2>4. \A r \in DOMAIN places : places[r].jj = jj /\ places[r].k = l => r = q
    BY <2>2 DEF Exact
  <2> QED BY <1>1, <2>2, <2>3, <2>4
<1>2. CASE ~Matrix!Inside(k, p)
  <2>1. \A q \in DOMAIN places : ~(places[q].jj = jj /\ places[q].k = l) BY <1>2 DEF Exact
  <2> QED BY <1>2, <2>1
<1> QED BY <1>1, <1>2

LEMMA ExactElsewhere ==
  ASSUME NEW m, NEW k, NEW places, Exact(m, places, k),
         NEW p \in SquareOf(m), \A jj, l : ~Holds(m, jj, l, p)
  PROVE  ~Matrix!Inside(k, p)
BY DEF Exact

LEMMA SubmittedDense ==
  ASSUME Field, NEW m, Stored(m), Distinct(m), NEW k, IsBlock(k), NEW places, Exact(m, places, k)
  PROVE  Dense(Submitted(m, places, k.buf)) =
           [p \in SquareOf(m) |-> IF Matrix!Inside(k, p) THEN Matrix!In(k, p) ELSE Dense(m)[p]]
<1> DEFINE S == Submitted(m, places, k.buf)
           here(jj, l) == {q \in DOMAIN places : places[q].jj = jj /\ places[q].k = l}
           f == [x \in Pair(m) |-> IF Matrix!Inside(k, x[1]) THEN Matrix!In(k, x[1]) ELSE x[2]]
<1>1. /\ places \in Seq(PlacesOf(m, k.b)) /\ k.b \in Nat \ {0}
      /\ k.buf \in [1 .. k.b * k.b -> Scalars]
  BY DEF Exact, IsBlock
<1>2. Stored(S) /\ SameStructure(S, m) BY <1>1, SubmittedFacts
<1>3. ASSUME NEW jj \in Below(Nnzb(m)), NEW l \in Places(m)
      PROVE  S.vals[jj][l] = IF here(jj, l) = {} THEN m.vals[jj][l]
                             ELSE k.buf[places[Max(here(jj, l))].from + 1]
  <2>1. DOMAIN m.vals = Below(Nnzb(m)) /\ DOMAIN m.vals[jj] = Places(m) BY StoredValues
  <2>2. S.vals = [ll \in DOMAIN m.vals |-> [c \in DOMAIN m.vals[ll] |->
                   IF here(ll, c) = {} THEN m.vals[ll][c]
                   ELSE k.buf[places[Max(here(ll, c))].from + 1]]]
    BY DEF Submitted, Stored, IsMatrix
  <2> HIDE DEF here, S
  <2> QED BY <2>1, <2>2
<1>4. \A jj, l : here(jj, l) # {} => Max(here(jj, l)) \in here(jj, l)
  <2> TAKE jj, l
  <2>1. Len(places) \in Nat /\ DOMAIN places = 1 .. Len(places) BY <1>1
  <2>2. here(jj, l) \in SUBSET (1 .. Len(places)) BY <2>1
  <2> HIDE DEF here
  <2> QED BY <2>1, <2>2, MaxFacts
<1>5. \A p \in SquareOf(m), v \in Scalars :
        f[<<p, v>>] = IF Matrix!Inside(k, p) THEN Matrix!In(k, p) ELSE v
  BY DEF Pair
<1> HIDE DEF S, f
<1>6. ASSUME NEW p \in SquareOf(m), NEW jj, NEW l, Holds(m, jj, l, p)
      PROVE  S.vals[jj][l] = f[<<p, m.vals[jj][l]>>]
  <2>1. jj \in Below(Nnzb(m)) /\ l \in Places(m) BY <1>6, HoldsInside
  <2>2. m.vals[jj][l] \in Scalars BY <2>1 DEF Stored
  <2>3. CASE Matrix!Inside(k, p)
    <3>1. PICK q \in DOMAIN places :
            /\ places[q].jj = jj /\ places[q].k = l
            /\ k.buf[places[q].from + 1] = Matrix!In(k, p)
            /\ \A r \in DOMAIN places : places[r].jj = jj /\ places[r].k = l => r = q
      BY <1>6, <2>3, ExactFacts
    <3>2. here(jj, l) # {} BY <3>1
    <3>3. Max(here(jj, l)) = q
      <4> DEFINE top == Max(here(jj, l))
      <4> HIDE DEF here
      <4>1. top \in here(jj, l) BY <1>4, <3>2, Zenon
      <4> HIDE DEF top
      <4>2. top = q BY <3>1, <4>1 DEF here
      <4> QED BY <4>2 DEF top
    <3> HIDE DEF here
    <3>4. S.vals[jj][l] = Matrix!In(k, p) BY <1>3, <2>1, <3>1, <3>2, <3>3
    <3> QED BY <1>5, <2>2, <2>3, <3>4
  <2>4. CASE ~Matrix!Inside(k, p)
    <3>1. \A q \in DOMAIN places : ~(places[q].jj = jj /\ places[q].k = l)
      BY <1>6, <2>4, ExactFacts
    <3>2. here(jj, l) = {} BY <3>1
    <3> HIDE DEF here
    <3> QED BY <1>3, <1>5, <2>1, <2>2, <2>4, <3>2
  <2> QED BY <2>3, <2>4
<1>7. ASSUME NEW p \in SquareOf(m), \A jj, l : ~Holds(m, jj, l, p)
      PROVE  f[<<p, 0>>] = 0
  <2>1. ~Matrix!Inside(k, p) BY <1>7, ExactElsewhere
  <2>2. 0 \in Scalars BY DEF Field, Scalars, Below
  <2> QED BY <1>5, <2>1, <2>2
<1>8. Dense(S) = [p \in SquareOf(m) |-> f[<<p, Dense(m)[p]>>]]
  <2>1. Becoming(S, m, f) BY <1>6, <1>7 DEF Becoming
  <2> QED BY <1>2, <2>1, DenseChanged
<1>9. \A p \in SquareOf(m) : Dense(m)[p] \in Scalars BY DenseFacts
<1> QED BY <1>5, <1>8, <1>9 DEF S

(***************************************************************************)
(* c is the matrix with what is owed before, e with that and a block.      *)
(***************************************************************************)
LEMMA AddedDense ==
  ASSUME Field, NEW m, Stored(m), Distinct(m), NEW k, IsBlock(k), NEW places, Exact(m, places, k),
         NEW c \in Variants(m), NEW e \in Variants(m),
         \A jj \in Below(Nnzb(m)), l \in Places(m) :
           e.vals[jj][l] = (c.vals[jj][l] + OwedIn(Additions(places, k), jj, l)) % Mod
  PROVE  Dense(e) =
           [p \in SquareOf(m) |-> IF Matrix!Inside(k, p) THEN (Dense(c)[p] + Matrix!In(k, p)) % Mod
                                  ELSE Dense(c)[p]]
<1> DEFINE f == [x \in Pair(m) |-> IF Matrix!Inside(k, x[1]) THEN (x[2] + Matrix!In(k, x[1])) % Mod
                                   ELSE x[2]]
           s == Additions(places, k)
<1>1. places \in Seq(PlacesOf(m, k.b)) BY DEF Exact
<1>2. s \in Seq(Pending(m)) BY <1>1, AdditionsFacts
<1>3. /\ DOMAIN s = DOMAIN places
      /\ \A q \in DOMAIN places : /\ s[q].jj = places[q].jj /\ s[q].k = places[q].k
                                  /\ s[q].amount = k.buf[places[q].from + 1]
  BY DEF Additions
<1>4. /\ Stored(c) /\ SameStructure(c, m) /\ Nnzb(c) = Nnzb(m) /\ Places(c) = Places(m)
      /\ Stored(e) /\ SameStructure(e, m)
  BY VariantFacts
<1>5. SameStructure(e, c) BY <1>4 DEF SameStructure, SameFrame
<1>6. /\ SquareOf(c) = SquareOf(m) /\ Distinct(c)
      /\ \A jj, l, p : Holds(c, jj, l, p) <=> Holds(m, jj, l, p)
  BY <1>4, SameHolds
<1>7. \A p \in SquareOf(m), v \in Scalars :
        f[<<p, v>>] = IF Matrix!Inside(k, p) THEN (v + Matrix!In(k, p)) % Mod ELSE v
  BY DEF Pair
<1> HIDE DEF s, f
<1>8. ASSUME NEW p \in SquareOf(m), NEW jj, NEW l, Holds(m, jj, l, p)
      PROVE  e.vals[jj][l] = f[<<p, c.vals[jj][l]>>]
  <2>1. jj \in Below(Nnzb(m)) /\ l \in Places(m) BY <1>8, HoldsInside
  <2>2. /\ c.vals[jj][l] \in Scalars /\ c.vals[jj][l] \in Nat
        /\ c.vals[jj][l] % Mod = c.vals[jj][l]
    BY <2>1, VariantScalars
  <2>3. e.vals[jj][l] = (c.vals[jj][l] + OwedIn(s, jj, l)) % Mod BY <2>1 DEF s
  <2>4. CASE Matrix!Inside(k, p)
    <3>1. PICK q \in DOMAIN places :
            /\ places[q].jj = jj /\ places[q].k = l
            /\ k.buf[places[q].from + 1] = Matrix!In(k, p)
            /\ \A r \in DOMAIN places : places[r].jj = jj /\ places[r].k = l => r = q
      BY <1>8, <2>4, ExactFacts
    <3>2. \A r \in DOMAIN s : s[r].jj = jj /\ s[r].k = l <=> r = q BY <1>3, <3>1
    <3>3. q \in DOMAIN s BY <1>3
    <3>4. OwedIn(s, jj, l) = s[q].amount BY <1>2, <3>2, <3>3, OwedOnce
    <3>5. OwedIn(s, jj, l) = Matrix!In(k, p) BY <1>3, <3>1, <3>4
    <3> QED BY <1>7, <2>2, <2>3, <2>4, <3>5
  <2>5. CASE ~Matrix!Inside(k, p)
    <3>1. \A q \in DOMAIN places : ~(places[q].jj = jj /\ places[q].k = l)
      BY <1>8, <2>5, ExactFacts
    <3>2. \A q \in DOMAIN s : ~(s[q].jj = jj /\ s[q].k = l) BY <1>3, <3>1
    <3>3. OwedIn(s, jj, l) = 0 BY <1>2, <3>2, OwedOnce
    <3>4. e.vals[jj][l] = c.vals[jj][l] BY <2>2, <2>3, <3>3
    <3> QED BY <1>7, <2>2, <2>5, <3>4
  <2> QED BY <2>4, <2>5
<1>9. ASSUME NEW p \in SquareOf(m), \A jj, l : ~Holds(m, jj, l, p)
      PROVE  f[<<p, 0>>] = 0
  <2>1. ~Matrix!Inside(k, p) BY <1>9, ExactElsewhere
  <2>2. 0 \in Scalars BY DEF Field, Scalars, Below
  <2> QED BY <1>7, <2>1, <2>2
<1>10. Dense(e) = [p \in SquareOf(c) |-> f[<<p, Dense(c)[p]>>]]
  <2>1. Becoming(e, c, f) BY <1>6, <1>8, <1>9 DEF Becoming
  <2> QED BY <1>4, <1>5, <1>6, <2>1, DenseChanged
<1>11. \A p \in SquareOf(m) : Dense(c)[p] \in Scalars BY <1>4, <1>6, DenseFacts
<1> QED BY <1>6, <1>7, <1>10, <1>11

-----------------------------------------------------------------------------
(***************************************************************************)
(* What becomes of the matrix when it is set to zero, in its diagonal or   *)
(* everywhere, or scaled.                                                  *)
(***************************************************************************)
LEMMA ZeroDense ==
  ASSUME Field, NEW m, Stored(m), Distinct(m)
  PROVE  Dense(AllZero(m)) = [p \in SquareOf(m) |-> 0]
<1> DEFINE S == AllZero(m)  f == [x \in Pair(m) |-> 0]
<1>1. Stored(S) /\ SameStructure(S, m) BY ZeroFacts
<1>2. ASSUME NEW jj \in Below(Nnzb(m)), NEW l \in Places(m) PROVE S.vals[jj][l] = 0
  <2>1. DOMAIN m.vals = Below(Nnzb(m)) /\ DOMAIN m.vals[jj] = Places(m) BY StoredValues
  <2>2. S.vals = [ll \in DOMAIN m.vals |-> [c \in DOMAIN m.vals[ll] |-> 0]]
    BY DEF AllZero, Valued, Stored, IsMatrix
  <2> HIDE DEF S
  <2> QED BY <2>1, <2>2
<1>3. 0 \in Scalars BY DEF Field, Scalars, Below
<1>4. \A p \in SquareOf(m), v \in Scalars : f[<<p, v>>] = 0 BY DEF Pair
<1> HIDE DEF S, f
<1>5. ASSUME NEW p \in SquareOf(m), NEW jj, NEW l, Holds(m, jj, l, p)
      PROVE  S.vals[jj][l] = f[<<p, m.vals[jj][l]>>]
  <2>1. jj \in Below(Nnzb(m)) /\ l \in Places(m) BY <1>5, HoldsInside
  <2>2. m.vals[jj][l] \in Scalars BY <2>1 DEF Stored
  <2> QED BY <1>2, <1>4, <2>1, <2>2
<1>6. Becoming(S, m, f) BY <1>3, <1>4, <1>5 DEF Becoming
<1>7. Dense(S) = [p \in SquareOf(m) |-> f[<<p, Dense(m)[p]>>]] BY <1>1, <1>6, DenseChanged
<1>8. \A p \in SquareOf(m) : Dense(m)[p] \in Scalars BY DenseFacts
<1> QED BY <1>4, <1>7, <1>8 DEF S

LEMMA DiagZeroDense ==
  ASSUME Field, NEW m, Stored(m), Distinct(m), DiagonalsFound(m)
  PROVE  Dense(DiagZero(m)) =
           [p \in SquareOf(m) |-> IF p[1] \div m.bs = p[2] \div m.bs THEN 0 ELSE Dense(m)[p]]
<1> DEFINE S == DiagZero(m)
           f == [x \in Pair(m) |-> IF x[1][1] \div m.bs = x[1][2] \div m.bs THEN 0 ELSE x[2]]
<1>1. Stored(S) /\ SameStructure(S, m) BY ZeroFacts
<1>2. ASSUME NEW jj \in Below(Nnzb(m)), NEW l \in Places(m)
      PROVE  S.vals[jj][l] = IF \E i \in Rows(m) : m.diagind[i] = jj THEN 0 ELSE m.vals[jj][l]
  <2>1. DOMAIN m.vals = Below(Nnzb(m)) /\ DOMAIN m.vals[jj] = Places(m) BY StoredValues
  <2>2. S.vals = [ll \in DOMAIN m.vals |-> [c \in DOMAIN m.vals[ll] |->
                   IF \E i \in Rows(m) : m.diagind[i] = ll THEN 0 ELSE m.vals[ll][c]]]
    BY DEF DiagZero, Valued, Stored, IsMatrix
  <2> HIDE DEF S
  <2> QED BY <2>1, <2>2
<1>3. 0 \in Scalars BY DEF Field, Scalars, Below
<1>4. \A p \in SquareOf(m), v \in Scalars :
        f[<<p, v>>] = IF p[1] \div m.bs = p[2] \div m.bs THEN 0 ELSE v
  BY DEF Pair
<1> HIDE DEF S, f
<1>5. ASSUME NEW p \in SquareOf(m), NEW jj, NEW l, Holds(m, jj, l, p)
      PROVE  S.vals[jj][l] = f[<<p, m.vals[jj][l]>>]
  <2> DEFINE r == p[1] \div m.bs  c == p[2] \div m.bs
  <2>1. jj \in Below(Nnzb(m)) /\ l \in Places(m) BY <1>5, HoldsInside
  <2>2. m.vals[jj][l] \in Scalars BY <2>1 DEF Stored
  <2>3. r \in Rows(m) /\ jj \in Row(m, r) /\ m.bcolind[jj] = c
    <3>1. r \in Rows(m) BY StoredBounds, CornerFacts
    <3> QED BY <1>5, <3>1 DEF Holds
  <2>4. f[<<p, m.vals[jj][l]>>] = IF r = c THEN 0 ELSE m.vals[jj][l] BY <1>4, <2>2
  <2> HIDE DEF r, c
  <2>5. ASSUME NEW i \in Rows(m), m.diagind[i] = jj PROVE r = c
    <3>1. jj \in Row(m, i) /\ m.bcolind[jj] = i BY <2>5 DEF DiagonalsFound
    <3>2. i = r BY <2>3, <3>1, RowFacts
    <3> QED BY <2>3, <3>1, <3>2
  <2>6. ASSUME r = c PROVE m.diagind[r] = jj
    <3>1. m.diagind[r] \in Row(m, r) /\ m.bcolind[m.diagind[r]] = r BY <2>3 DEF DiagonalsFound
    <3> QED BY <2>3, <2>6, <3>1 DEF Distinct
  <2> QED BY <1>2, <2>1, <2>3, <2>4, <2>5, <2>6
<1>6. Becoming(S, m, f) BY <1>3, <1>4, <1>5 DEF Becoming
<1>7. Dense(S) = [p \in SquareOf(m) |-> f[<<p, Dense(m)[p]>>]] BY <1>1, <1>6, DenseChanged
<1>8. \A p \in SquareOf(m) : Dense(m)[p] \in Scalars BY DenseFacts
<1> QED BY <1>4, <1>7, <1>8 DEF S

LEMMA ScaledDense ==
  ASSUME Field, NEW m, Stored(m), Distinct(m), NEW factor \in Nat
  PROVE  Dense(Scaled(m, factor)) = [p \in SquareOf(m) |-> (factor * Dense(m)[p]) % Mod]
<1> DEFINE S == Scaled(m, factor)  f == [x \in Pair(m) |-> (factor * x[2]) % Mod]
<1>1. Stored(S) /\ SameStructure(S, m) BY ScaleFacts
<1>2. ASSUME NEW jj \in Below(Nnzb(m)), NEW l \in Places(m)
      PROVE  S.vals[jj][l] = (factor * m.vals[jj][l]) % Mod
  <2>1. DOMAIN m.vals = Below(Nnzb(m)) /\ DOMAIN m.vals[jj] = Places(m) BY StoredValues
  <2>2. S.vals = [ll \in DOMAIN m.vals |-> [c \in DOMAIN m.vals[ll] |->
                   (factor * m.vals[ll][c]) % Mod]]
    BY DEF Scaled, Valued, Stored, IsMatrix
  <2> HIDE DEF S
  <2> QED BY <2>1, <2>2
<1>3. 0 \in Scalars BY DEF Field, Scalars, Below
<1>4. \A p \in SquareOf(m), v \in Scalars : f[<<p, v>>] = (factor * v) % Mod BY DEF Pair
<1>5. (factor * 0) % Mod = 0 BY DEF Field
<1> HIDE DEF S, f
<1>6. ASSUME NEW p \in SquareOf(m), NEW jj, NEW l, Holds(m, jj, l, p)
      PROVE  S.vals[jj][l] = f[<<p, m.vals[jj][l]>>]
  <2>1. jj \in Below(Nnzb(m)) /\ l \in Places(m) BY <1>6, HoldsInside
  <2>2. m.vals[jj][l] \in Scalars BY <2>1 DEF Stored
  <2> QED BY <1>2, <1>4, <2>1, <2>2
<1>7. \A p \in SquareOf(m) : f[<<p, 0>>] = 0 BY <1>3, <1>4, <1>5
<1>8. Becoming(S, m, f) BY <1>6, <1>7 DEF Becoming
<1>9. Dense(S) = [p \in SquareOf(m) |-> f[<<p, Dense(m)[p]>>]] BY <1>1, <1>8, DenseChanged
<1>10. \A p \in SquareOf(m) : Dense(m)[p] \in Scalars BY DenseFacts
<1> QED BY <1>4, <1>9, <1>10 DEF S

-----------------------------------------------------------------------------
(***************************************************************************)
(* What DenseMatrix says of a reordering, by blocks.                       *)
(***************************************************************************)
LEMMA OldIndex ==
  ASSUME NEW n \in Nat, NEW bs \in Nat \ {0}, NEW p, Permutes(p, n), NEW i \in Below(n * bs)
  PROVE  Matrix!Old(p, bs, i) = At(Old(p, i \div bs), bs, i % bs)
<1>1. i \div bs \in Below(n) /\ i % bs \in Below(bs) /\ i = At(i \div bs, bs, i % bs)
  BY IndexFacts
<1> DEFINE b == i \div bs  r == i % bs
<1>2. CASE p = None
  <2>1. Matrix!Old(p, bs, i) = i BY <1>2 DEF Matrix!Old, None
  <2>2. Old(p, b) = b BY <1>2 DEF Old
  <2> QED BY <1>1, <2>1, <2>2, Zenon
<1>3. CASE p # None
  <2>1. Matrix!Old(p, bs, i) = bs * p[b] + r BY <1>3 DEF Matrix!Old, None
  <2>2. Old(p, b) = p[b] BY <1>3 DEF Old
  <2>3. p[b] \in Below(n) BY <1>1, <1>3 DEF Permutes, IsPermutation
  <2>4. p[b] \in Nat /\ r \in Nat BY <1>1, <2>3 DEF Below
  <2> DEFINE x == p[b]
  <2>5. At(Old(p, b), bs, r) = x * bs + r BY <2>2 DEF At
  <2>6. x \in Nat BY <2>4
  <2> HIDE DEF x
  <2>7. bs * x = x * bs BY <2>6
  <2> HIDE DEF b, r
  <2>8. Matrix!Old(p, bs, i) = bs * x + r BY <2>1 DEF x
  <2>9. Matrix!Old(p, bs, i) = At(Old(p, b), bs, r) BY <2>5, <2>7, <2>8
  <2> QED BY <2>9 DEF b, r
<1> QED BY <1>2, <1>3

LEMMA FactorIndex ==
  ASSUME NEW bs, NEW i, NEW b, i \div bs = b, NEW scale
  PROVE  Matrix!Factor(scale, bs, i) = Factor(scale, b)
BY DEF Matrix!Factor, Factor, None

\* Each entry of F is one of m, and each of m is one of F.
MovedFrom(F, m, o) ==
  \A i \in Rows(m) : Old(o.rp, i) \in Rows(m) /\ \E h : EntriesMatch(h, F, m, o, i)

LEMMA ForwardMoved ==
  ASSUME Field, NEW m, Stored(m), NEW o, OrdersRows(o, m.nbrows),
         NEW F, F = ReorderScaleForward(m, o)
  PROVE  Stored(F) /\ SameFrame(F, m) /\ MovedFrom(F, m, o)
<1>1. Stored(F) /\ SameFrame(F, m)
      /\ \A i \in Rows(m) : Old(o.rp, i) \in Rows(m) /\ \E h : EntriesMatch(h, F, m, o, i)
  BY EntriesFollow
<1> QED BY <1>1 DEF MovedFrom

LEMMA OrdersPermute ==
  ASSUME NEW n \in Nat, NEW o, OrdersRows(o, n)
  PROVE  /\ Permutes(o.rp, n) /\ Permutes(o.cp, n)
         /\ \A i \in Below(n) : /\ Old(o.cp, i) \in Below(n) /\ New(o.cp, i) \in Below(n)
                                /\ Old(o.cp, New(o.cp, i)) = i /\ New(o.cp, Old(o.cp, i)) = i
<1>1. Permutes(o.rp, n) /\ Permutes(o.cp, n) BY DEF OrdersRows, Permutes
<1> QED BY <1>1, OldNew

LEMMA MovedDistinct ==
  ASSUME NEW m, Stored(m), Distinct(m), NEW o, OrdersRows(o, m.nbrows),
         NEW F, Stored(F), SameFrame(F, m), MovedFrom(F, m, o)
  PROVE  Distinct(F)
<1>1. m.nbrows \in Nat /\ Rows(m) = Below(m.nbrows) /\ Rows(F) = Rows(m)
  BY StoredBounds, SameFrameFacts DEF Rows
<1> SUFFICES ASSUME NEW i \in Rows(m), NEW x \in Row(F, i), NEW y \in Row(F, i),
                    F.bcolind[x] = F.bcolind[y]
             PROVE  x = y
  BY <1>1 DEF Distinct
<1> DEFINE old == Old(o.rp, i)
<1>2. PICK h : EntriesMatch(h, F, m, o, i) BY DEF MovedFrom
<1>3. old \in Rows(m) BY DEF MovedFrom
<1>4. /\ h[x] \in Row(m, old) /\ h[y] \in Row(m, old) /\ (h[x] = h[y] => x = y)
      /\ F.bcolind[x] = New(o.cp, m.bcolind[h[x]]) /\ F.bcolind[y] = New(o.cp, m.bcolind[h[y]])
  BY <1>2 DEF EntriesMatch
<1>5. m.bcolind[h[x]] \in Below(m.nbrows) /\ m.bcolind[h[y]] \in Below(m.nbrows)
  <2>1. h[x] \in Below(Nnzb(m)) /\ h[y] \in Below(Nnzb(m)) BY <1>3, <1>4, RowFacts
  <2> QED BY <1>1, <2>1 DEF Stored
<1>6. m.bcolind[h[x]] = m.bcolind[h[y]]
  <2>1. \A j \in Below(m.nbrows) : Old(o.cp, New(o.cp, j)) = j BY <1>1, OrdersPermute
  <2>2. New(o.cp, m.bcolind[h[x]]) = New(o.cp, m.bcolind[h[y]]) BY <1>4
  <2> QED BY <1>5, <2>1, <2>2
<1>7. h[x] = h[y] BY <1>3, <1>4, <1>6 DEF Distinct
<1> QED BY <1>4, <1>7

(***************************************************************************)
(* reorderScale(..., FORWARD) reorders and scales the matrix that the      *)
(* arrays represent as DenseMatrix says: the entry of every row and column *)
(* is the one that was in the old row and column, times their factors.     *)
(***************************************************************************)
THEOREM DenseMoved ==
  ASSUME Field, NEW m, Stored(m), Distinct(m), NEW o, OrdersRows(o, m.nbrows),
         NEW F, F = ReorderScaleForward(m, o)
  PROVE  /\ Stored(F) /\ SameFrame(F, m) /\ Distinct(F)
         /\ Dense(F) = Matrix!Moved(Dense(m), o, m.bs)
<1> DEFINE n == m.nbrows  b == m.bs
           mi(p) == Matrix!Old(o.rp, b, p[1])
           mj(p) == Matrix!Old(o.cp, b, p[2])
           val(p) == (Dense(m)[<<mi(p), mj(p)>>] * Matrix!Factor(o.rowscale, b, mi(p))
                        * Matrix!Factor(o.colscale, b, mj(p))) % Mod
<1>1. n \in Nat /\ b \in Nat \ {0} BY StoredBounds
<1>2. Stored(F) /\ SameFrame(F, m) /\ MovedFrom(F, m, o) BY ForwardMoved
<1>3. Distinct(F) BY <1>2, MovedDistinct
<1>4. F.bs = b /\ F.stor = m.stor /\ Rows(F) = Rows(m) /\ Dim(F) = Dim(m) /\ SquareOf(F) = SquareOf(m)
      /\ Rows(m) = Below(n) /\ Dim(m) = n * b
  BY <1>2, SameFrameFacts DEF SquareOf, Rows, Dim
<1>5. Dense(m) \in [SquareOf(m) -> Scalars] /\ Dense(F) \in [SquareOf(m) -> Scalars]
  BY <1>2, <1>3, <1>4, DenseFacts
<1>6. Matrix!Moved(Dense(m), o, b) = [p \in SquareOf(m) |-> val(p)]
  <2>1. DOMAIN Dense(m) = SquareOf(m) BY <1>5
  <2> QED BY <2>1 DEF Matrix!Moved
<1>7. ASSUME NEW p \in SquareOf(m) PROVE Dense(F)[p] = val(p)
  <2> DEFINE I == p[1] \div b  r == p[1] % b  J == p[2] \div b  c == p[2] % b
             oi == Old(o.rp, I)  oj == Old(o.cp, J)
             q == Corner(m, oi, r, oj, c)
             fr == Factor(o.rowscale, oi)  fc == Factor(o.colscale, oj)
  <2>1. I \in Below(n) /\ J \in Below(n) /\ r \in Below(b) /\ c \in Below(b)
    BY <1>1, <1>4, CornerFacts
  <2>2. oi \in Below(n) /\ oj \in Below(n) /\ New(o.cp, oj) = J
    <3>1. oj \in Below(n) /\ New(o.cp, oj) = J BY <1>1, <2>1, OrdersPermute
    <3>2. oi \in Below(n) BY <1>2, <1>4, <2>1 DEF MovedFrom
    <3> QED BY <3>1, <3>2
  <2>3. mi(p) = At(oi, b, r) /\ mj(p) = At(oj, b, c)
    <3>1. p[1] \in Below(n * b) /\ p[2] \in Below(n * b) BY <1>4 DEF SquareOf
    <3>2. Permutes(o.rp, n) /\ Permutes(o.cp, n) BY <1>1, OrdersPermute
    <3> QED BY <1>1, <3>1, <3>2, OldIndex
  <2>4. /\ q \in SquareOf(m) /\ q[1] \div b = oi /\ q[1] % b = r /\ q[2] \div b = oj /\ q[2] % b = c
    BY <1>1, <1>4, <2>1, <2>2, CornerFacts
  <2>5. q = <<mi(p), mj(p)>> /\ q[1] = mi(p) /\ q[2] = mj(p)
    <3>1. q = <<mi(p), mj(p)>> BY <2>3, Zenon DEF Corner
    <3> HIDE DEF mi, mj, q
    <3> QED BY <3>1
  <2>6. Matrix!Factor(o.rowscale, b, mi(p)) = fr /\ Matrix!Factor(o.colscale, b, mj(p)) = fc
    <3>1. mi(p) \div b = oi /\ mj(p) \div b = oj BY <2>4, <2>5, Zenon
    <3> HIDE DEF mi, mj, oi, oj
    <3> QED BY <3>1, FactorIndex
  <2>7. val(p) = (Dense(m)[q] * fr * fc) % Mod BY <2>5, <2>6, Zenon
  <2> HIDE DEF val, mi, mj
  <2>8. PICK h : EntriesMatch(h, F, m, o, I) BY <1>2, <1>4, <2>1 DEF MovedFrom
  <2>9. /\ h \in [Row(F, I) -> Row(m, oi)]
        /\ \A z \in Row(m, oi) : \E x \in Row(F, I) : h[x] = z
        /\ \A jj \in Row(F, I) :
             /\ F.bcolind[jj] = New(o.cp, m.bcolind[h[jj]])
             /\ Values(F, jj, m, h[jj], fr, o.colscale)
    BY <2>8 DEF EntriesMatch
  <2> DEFINE l == Place(m, r, c)
  <2>10. l \in Places(m) /\ Place(F, r, c) = l
    <3>1. l \in Places(m) BY <1>1, <2>1, PlaceOnce
    <3>2. Place(F, r, c) = l BY <1>4 DEF Place
    <3> QED BY <3>1, <3>2
  <2>11. /\ \A jj, k : Holds(F, jj, k, p) <=> jj \in Row(F, I) /\ F.bcolind[jj] = J /\ k = l
         /\ \A jj, k : Holds(m, jj, k, q) <=> jj \in Row(m, oi) /\ m.bcolind[jj] = oj /\ k = l
    <3>1. \A jj, k : Holds(F, jj, k, p) <=> jj \in Row(F, I) /\ F.bcolind[jj] = J /\ k = l
      BY <1>4, <2>10 DEF Holds
    <3> HIDE DEF q, I, J, r, c, oi, oj
    <3>2. \A jj, k : Holds(m, jj, k, q) <=> jj \in Row(m, oi) /\ m.bcolind[jj] = oj /\ k = l
      BY <2>4 DEF Holds
    <3> QED BY <3>1, <3>2
  <2> HIDE DEF q, I, J, r, c, oi, oj, l
  <2>12. CASE \E ll : ll \in Row(m, oi) /\ m.bcolind[ll] = oj
    <3>1. PICK ll : ll \in Row(m, oi) /\ m.bcolind[ll] = oj BY <2>12
    <3>2. PICK jj \in Row(F, I) : h[jj] = ll BY <2>9, <3>1
    <3>3. F.bcolind[jj] = J /\ Values(F, jj, m, ll, fr, o.colscale)
      BY <2>2, <2>9, <3>1, <3>2
    <3>4. F.vals[jj][l] = (m.vals[ll][l] * fr * fc) % Mod
      BY <2>10, <3>1, <3>3 DEF Values, oj
    <3>5. Holds(F, jj, l, p) /\ Holds(m, ll, l, q) BY <2>11, <3>1, <3>2, <3>3
    <3>6. Dense(F)[p] = F.vals[jj][l] BY <1>2, <1>3, <1>4, <3>5, DenseFacts
    <3>7. Dense(m)[q] = m.vals[ll][l] BY <2>4, <3>5, DenseFacts
    <3> QED BY <2>7, <3>4, <3>6, <3>7
  <2>13. CASE ~(\E ll : ll \in Row(m, oi) /\ m.bcolind[ll] = oj)
    <3>1. \A jj, k : ~Holds(m, jj, k, q) BY <2>11, <2>13
    <3>2. Dense(m)[q] = 0 BY <2>4, <3>1, DenseFacts
    <3>3. ASSUME NEW jj, NEW k, Holds(F, jj, k, p) PROVE FALSE
      <4>1. jj \in Row(F, I) /\ F.bcolind[jj] = J BY <2>11, <3>3
      <4>2. h[jj] \in Row(m, oi) /\ J = New(o.cp, m.bcolind[h[jj]]) BY <2>9, <4>1
      <4>3. m.bcolind[h[jj]] \in Below(n)
        <5>1. h[jj] \in Below(Nnzb(m)) BY <1>4, <2>2, <4>2, RowFacts
        <5> QED BY <1>4, <5>1 DEF Stored
      <4>4. Old(o.cp, J) = m.bcolind[h[jj]] BY <1>1, <4>2, <4>3, OrdersPermute
      <4> QED BY <2>13, <4>2, <4>4 DEF oj
    <3>4. Dense(F)[p] = 0 BY <1>2, <1>3, <1>4, <3>3, DenseFacts
    <3>5. (0 * fr * fc) % Mod = 0
      <4>1. fr \in Nat /\ fc \in Nat
        <5>1. \A i \in Below(n) : Factor(o.rowscale, i) \in Nat
          BY InversesFacts DEF OrdersRows
        <5>2. \A i \in Below(n) : Factor(o.colscale, i) \in Nat
          BY InversesFacts DEF OrdersRows
        <5> QED BY <2>2, <5>1, <5>2
      <4> HIDE DEF fr, fc
      <4>2. 0 * fr = 0 BY <4>1
      <4>3. 0 * fr * fc = 0 BY <4>1, <4>2
      <4>4. 0 % Mod = 0
        <5>1. Mod \in Nat \ {0} BY DEF Field
        <5>2. 0 < Mod BY <5>1
        <5>3. 0 \in Nat OBVIOUS
        <5> QED BY <5>1, <5>2, <5>3, Modulo
      <4> QED BY <4>3, <4>4
    <3> QED BY <2>7, <3>2, <3>4, <3>5
  <2> QED BY <2>12, <2>13
<1> HIDE DEF val
<1>8. Dense(F) = [p \in SquareOf(m) |-> val(p)] BY <1>5, <1>7
<1> QED BY <1>2, <1>3, <1>6, <1>8

\* Renamed rows are sorted, and no column is there twice.
LEMMA ForwardAscends ==
  ASSUME NEW s, Stored(s), NEW o, OrdersRows(o, s.nbrows), o.cp # None,
         NEW F, F = OrderedForward(s, o), Distinct(F)
  PROVE  \A i \in Rows(s) : Ascending(RowList(F)[i])
<1> DEFINE n == s.nbrows  V == [Places(s) -> Scalars]
<1>1. n \in Nat /\ Rows(s) = Below(n) BY DEF Stored, IsMatrix, Rows
<1>2. Stored(F) /\ SameFrame(F, s) BY ForwardFacts
<1>3. \A i \in Rows(s) : /\ ForwardRow(s, o, i) \in Seq(Entries(s))
                         /\ RowList(F)[i] = Renamed(ForwardRow(s, o, i), o.icp)
  BY ForwardFacts
<1>4. IsPermutation(o.icp, Below(n)) BY InverseIsPermutation DEF OrdersRows
<1>5. Rows(F) = Rows(s) BY <1>2, SameFrameFacts
<1> TAKE i \in Rows(s)
<1> DEFINE row == ForwardRow(s, o, i)  t == RowList(F)[i]  N == Len(t)
<1>6. row \in Seq(EntriesOf(n, V)) BY <1>3 DEF Entries
<1>7. t \in Seq(EntriesOf(n, V)) /\ Len(t) = Len(row)
      /\ \A b \in 1 .. Len(row) : \A a \in 1 .. b : t[a].col <= t[b].col
  <2>1. t = Renamed(row, o.icp) BY <1>3
  <2> HIDE DEF t, row, n, V
  <2> QED BY <1>1, <1>4, <1>6, <2>1, RenamedFacts
<1>8. \A q \in 1 .. N : /\ F.browptr[i] + q - 1 \in Row(F, i)
                        /\ t[q] = [col |-> F.bcolind[F.browptr[i] + q - 1],
                                   val |-> F.vals[F.browptr[i] + q - 1]]
  BY <1>2, <1>5, RowListFacts
<1>9. F.browptr[i] \in Nat BY <1>2, <1>5, RowFacts
<1> HIDE DEF t, row
<1>10. N \in Nat /\ \A q \in 1 .. N : t[q].col \in Int
  <2>1. \A q \in 1 .. N : t[q] \in EntriesOf(n, V) BY <1>7
  <2> HIDE DEF n, V
  <2>2. \A e \in EntriesOf(n, V) : e.col \in Int BY DEF EntriesOf, Below
  <2> QED BY <1>7, <2>1, <2>2
<1>11. ASSUME NEW a \in 1 .. N, NEW b \in 1 .. N, a < b PROVE t[a].col < t[b].col
  <2>1. t[a].col <= t[b].col BY <1>7, <1>10, <1>11
  <2>2. ASSUME t[a].col = t[b].col PROVE FALSE
    <3> DEFINE x == F.browptr[i] + a - 1  y == F.browptr[i] + b - 1
    <3>1. /\ x \in Row(F, i) /\ t[a] = [col |-> F.bcolind[x], val |-> F.vals[x]]
          /\ y \in Row(F, i) /\ t[b] = [col |-> F.bcolind[y], val |-> F.vals[y]]
      BY <1>8
    <3> HIDE DEF x, y
    <3>2. F.bcolind[x] = F.bcolind[y] BY <2>2, <3>1
    <3>3. x = y BY <1>5, <3>1, <3>2 DEF Distinct
    <3>4. a = b BY <1>9, <1>10, <3>3 DEF x, y
    <3> QED BY <1>10, <1>11, <3>4
  <2> QED BY <1>10, <2>1, <2>2
<1>12. Ascending(t) BY <1>11 DEF Ascending
<1> QED BY <1>12 DEF t

LEMMA SameAscending ==
  ASSUME NEW s, NEW t, SameColumns(s, t), Ascending(t)
  PROVE  Ascending(s)
BY DEF SameColumns, Ascending

(***************************************************************************)
(* Reordering again what reorderScale(..., INVERSE) gives back makes what  *)
(* was there before.                                                       *)
(***************************************************************************)
LEMMA InverseMoved ==
  ASSUME Field, NEW m, Stored(m), Distinct(m), SortedRows(m), NEW o, OrdersRows(o, m.nbrows),
         NEW k, Stored(k), SameStructure(k, ReorderScaleForward(m, o)),
         NEW K, K = ReorderScaleInverse(k, o)
  PROVE  /\ Stored(K) /\ SameStructure(K, m) /\ Distinct(K)
         /\ k = ReorderScaleForward(K, o)
<1> DEFINE F == ReorderScaleForward(m, o)
           s == ScaledBy(m, o.rowscale, o.colscale)
           I == OrderedInverse(k, o)
<1>1. Stored(K) /\ SameStructure(K, m) BY RestoredStructure
<1>2. Distinct(K) BY <1>1, SameHolds
<1>3. Stored(F) /\ SameFrame(F, m) /\ Distinct(F) BY DenseMoved
<1>4. SameStructure(k, F) OBVIOUS
<1>5. F = OrderedForward(s, o) BY DEF ReorderScaleForward
<1>6. Stored(s) /\ SameFrame(s, m)
  <2>1. Scales(o.rowscale, m.nbrows) /\ Scales(o.colscale, m.nbrows)
    BY DEF OrdersRows, Scales, Units
  <2> QED BY <2>1, ScaledFacts
<1> HIDE DEF F, s
<1>7. s.nbrows = m.nbrows /\ Rows(s) = Rows(m) /\ Rows(F) = Rows(m) /\ k.nbrows = m.nbrows
      /\ OrdersRows(o, s.nbrows) /\ OrdersRows(o, k.nbrows) /\ Rows(k) = Rows(m)
  BY <1>3, <1>4, <1>6, SameFrameFacts DEF SameStructure
<1>8. o.cp # None => \A i \in Rows(k) : Ascending(RowList(k)[i])
  <2> SUFFICES ASSUME o.cp # None, NEW i \in Rows(k) PROVE Ascending(RowList(k)[i]) OBVIOUS
  <2>1. Ascending(RowList(F)[i]) BY <1>3, <1>5, <1>6, <1>7, ForwardAscends
  <2>2. SameColumns(RowList(k)[i], RowList(F)[i]) BY <1>3, <1>4, <1>7, StructureOfRows
  <2> QED BY <2>1, <2>2, SameAscending
<1>9. OrderedForward(I, o) = k BY <1>7, <1>8, OrderDone
<1>10. Stored(I) /\ I.nbrows = k.nbrows BY <1>7, InverseFacts, SameFrameFacts
<1>11. K = Unscaled(I, o) BY DEF ReorderScaleInverse
<1> HIDE DEF I
<1>12. ScaledBy(Unscaled(I, o), o.rowscale, o.colscale) = I
  <2>1. OrdersRows(o, I.nbrows) BY <1>7, <1>10
  <2> QED BY <1>10, <2>1, ScaleUndone
<1>13. ReorderScaleForward(K, o) = OrderedForward(I, o) BY <1>11, <1>12 DEF ReorderScaleForward
<1> QED BY <1>1, <1>2, <1>9, <1>13

LEMMA InverseDense ==
  ASSUME Field, NEW m, Stored(m), Distinct(m), SortedRows(m), NEW o, OrdersRows(o, m.nbrows),
         NEW k, Stored(k), SameStructure(k, ReorderScaleForward(m, o)),
         NEW K, K = ReorderScaleInverse(k, o)
  PROVE  Dense(k) = Matrix!Moved(Dense(K), o, k.bs) /\ DOMAIN Dense(K) = DOMAIN Dense(k)
<1>1. Stored(K) /\ SameStructure(K, m) /\ Distinct(K) /\ k = ReorderScaleForward(K, o)
  BY InverseMoved
<1>2. OrdersRows(o, K.nbrows) BY <1>1 DEF SameStructure, SameFrame
<1>3. SameFrame(k, K) /\ Dense(k) = Matrix!Moved(Dense(K), o, K.bs)
  BY <1>1, <1>2, DenseMoved
<1>4. k.bs = K.bs BY <1>3 DEF SameFrame
<1>5. DOMAIN Dense(K) = DOMAIN Dense(k) BY <1>3 DEF Matrix!Moved
<1> QED BY <1>3, <1>4, <1>5

-----------------------------------------------------------------------------
(***************************************************************************)
(* The inductive invariant.  What is stored is a matrix whose blocks all   *)
(* pending additions name.  Outside of a reordering its diagonal blocks    *)
(* are where they are said to be, and it is the copy if there is one; in   *)
(* a reordering its structure is that of a sorted matrix reordered, the    *)
(* copy if there is one.  There is none while additions are pending.       *)
(***************************************************************************)
Reordered(k, m, o) ==
  /\ Sound(m) /\ SortedRows(m) /\ OrdersRows(o, m.nbrows)
  /\ SameStructure(k, ReorderScaleForward(m, o))

CopyReordered(s, k, m, o) == s = <<>> \/ (s = <<m>> /\ k = ReorderScaleForward(m, o))

MatrixInv ==
  /\ moved \in BOOLEAN
  /\ Stored(mat) /\ mat.nbrows # 0
  /\ job \in [Threads -> Seq(Pending(mat))]
  /\ saved = <<>> \/ Idle
  /\ ~moved => Sound(mat) /\ (saved = <<>> \/ saved = <<mat>>)
  /\ moved => \E m, o : order = <<o>> /\ Reordered(mat, m, o) /\ CopyReordered(saved, mat, m, o)

\* Calls that change values or pending additions.
LEMMA StructureKept ==
  ASSUME MatrixInv, Stored(mat'), SameStructure(mat', mat), saved' = <<>>,
         UNCHANGED <<order, moved>>, job' \in [Threads -> Seq(Pending(mat))]
  PROVE  MatrixInv'
<1>1. Pending(mat') = Pending(mat) /\ mat'.nbrows = mat.nbrows BY SameStructureFacts
<1>2. job' \in [Threads -> Seq(Pending(mat'))] BY <1>1
<1>3. moved' \in BOOLEAN /\ mat'.nbrows # 0 BY <1>1 DEF MatrixInv
<1>4. ASSUME ~moved' PROVE Sound(mat')
  <2>1. Sound(mat) BY <1>4 DEF MatrixInv
  <2> QED BY <2>1, SoundStructure
<1>5. ASSUME moved'
      PROVE  \E m, o : order' = <<o>> /\ Reordered(mat', m, o) /\ CopyReordered(saved', mat', m, o)
  <2>1. PICK m, o : order = <<o>> /\ Reordered(mat, m, o) BY <1>5 DEF MatrixInv
  <2>2. SameStructure(mat, ReorderScaleForward(m, o)) BY <2>1 DEF Reordered
  <2>3. SameStructure(mat', ReorderScaleForward(m, o)) BY <2>2, SameStructureFacts
  <2>4. Reordered(mat', m, o) BY <2>1, <2>3 DEF Reordered
  <2>5. CopyReordered(saved', mat', m, o) BY DEF CopyReordered
  <2> QED BY <2>1, <2>4, <2>5
<1> QED BY <1>2, <1>3, <1>4, <1>5 DEF MatrixInv

\* Calls that set the matrix.
LEMMA MatrixSet ==
  ASSUME MatrixInv, Idle, UNCHANGED job, moved' = FALSE, Sound(mat'), saved' = <<>> \/ saved' = <<mat'>>
  PROVE  MatrixInv'
<1>1. job \in [Threads -> Seq(Pending(mat'))]
  BY NoneIsPending DEF MatrixInv
<1>2. Idle' BY DEF Idle
<1> QED BY <1>1, <1>2 DEF MatrixInv, Sound

LEMMA InitMatrix == Init => MatrixInv
<1> SUFFICES ASSUME Init PROVE MatrixInv OBVIOUS
<1>1. Sound(mat)
  <2>1. ASSUME NEW s \in Structures, NEW garbage \in {1, 2}, mat = Structured(s, s.bs, garbage)
        PROVE  Sound(mat)
    BY <2>1, Passed, StructuredSound
  <2>2. ASSUME NEW f \in Files, NEW bs \in BlockSizes, Readable(f), f.n % bs = 0,
               mat = GetSRMatrixFromCOO(ReadMatrixMarket(f), bs, "rowmajor", -1)
        PROVE  Sound(mat)
    BY <2>2, Passed, LoadedSound
  <2> QED BY <2>1, <2>2 DEF Init
<1>2. saved = <<>> /\ moved = FALSE /\ job = [t \in Threads |-> <<>>] BY DEF Init
<1>3. job \in [Threads -> Seq(Pending(mat))]
  <2>1. <<>> \in Seq(Pending(mat)) OBVIOUS
  <2> QED BY <1>2, <2>1
<1> QED BY <1>1, <1>2, <1>3 DEF MatrixInv, Sound

LEMMA UpdatesFacts ==
  ASSUME MatrixInv, NEW t \in Threads, NEW k, IsBlock(k), NEW places \in Seq(PlacesOf(mat, k.b)),
         Updates(t, places, k)
  PROVE  MatrixInv'
<1>1. Additions(places, k) \in Seq(Pending(mat)) BY AdditionsFacts
<1> DEFINE s == Additions(places, k)  E == Seq(Pending(mat))
<1>2. job' = [job EXCEPT ![t] = s] /\ saved' = <<>> /\ UNCHANGED <<mat, order, moved>>
  BY DEF Updates
<1>3. job \in [Threads -> E] /\ s \in E BY <1>1 DEF MatrixInv
<1> HIDE DEF s, E
<1>4. job' \in [Threads -> E] BY <1>2, <1>3
<1>5. Stored(mat') /\ SameStructure(mat', mat)
  BY <1>2, SameStructureFacts DEF MatrixInv
<1> QED BY <1>2, <1>4, <1>5, StructureKept DEF E

LEMMA AddKeeps ==
  ASSUME MatrixInv, NEW t \in Threads, Add(t)
  PROVE  MatrixInv'
<1> DEFINE E == Pending(mat)  add == Head(job[t])  rest == Tail(job[t])
<1>1. job[t] \in Seq(E) /\ job \in [Threads -> Seq(E)] BY DEF MatrixInv
<1>2. job[t] # <<>> BY DEF Add
<1> HIDE DEF E
<1>3. add \in E /\ rest \in Seq(E) BY <1>1, <1>2
<1>4. job' = [job EXCEPT ![t] = rest] /\ UNCHANGED <<order, moved, saved>>
  BY DEF Add
<1>5. mat' = [mat EXCEPT !.vals[add.jj][add.k] = (@ + add.amount) % Mod] BY DEF Add, Added
<1> HIDE DEF add, rest
<1>6. add.jj \in Below(Nnzb(mat)) /\ add.k \in Places(mat) /\ add.amount \in Scalars
  BY <1>3 DEF E, Pending
<1> DEFINE jj == add.jj  k == add.k  amount == add.amount
<1>7. mat' = [mat EXCEPT !.vals[jj][k] = (@ + amount) % Mod] BY <1>5
<1>8. jj \in Below(Nnzb(mat)) /\ k \in Places(mat) /\ amount \in Scalars BY <1>6
<1> HIDE DEF jj, k, amount
<1>9. Stored(mat') /\ SameStructure(mat', mat)
  <2>1. Stored(mat) BY DEF MatrixInv
  <2> QED BY <1>7, <1>8, <2>1, AddedFacts, Passed
<1>10. job' \in [Threads -> Seq(E)]
  <2> DEFINE F == Seq(E)
  <2>1. job \in [Threads -> F] /\ rest \in F BY <1>1, <1>3
  <2> HIDE DEF F
  <2>2. job' \in [Threads -> F] BY <1>4, <2>1
  <2> QED BY <2>2 DEF F
<1>11. saved' = <<>> BY <1>2, <1>4 DEF MatrixInv, Idle
<1> QED BY <1>4, <1>9, <1>10, <1>11, StructureKept DEF E

LEMMA ReorderKeeps ==
  ASSUME MatrixInv, NEW o \in Orderings, ReorderScale(o)
  PROVE  MatrixInv'
<1>1. /\ Idle /\ ~moved /\ SortedRows(mat)
      /\ mat' = ReorderScaleForward(mat, o) /\ order' = <<o>> /\ saved' = <<mat>>
      /\ moved' = TRUE /\ UNCHANGED job
  BY DEF ReorderScale
<1>2. Sound(mat) BY <1>1 DEF MatrixInv
<1>3. OrdersRows(o, mat.nbrows)
  <2>1. mat.nbrows \in {Cardinality(DOMAIN p) : p \in {o.rp, o.cp}}
    BY DEF ReorderScale
  <2>2. mat.nbrows \in Nat \ {0} BY <1>2 DEF Sound, Stored, IsMatrix
  <2> QED BY <2>1, <2>2, PassedOrderings
<1>4. Stored(mat') /\ SameFrame(mat', mat)
  BY <1>1, <1>2, <1>3, EntriesFollow, Passed DEF Sound
<1>5. mat'.nbrows # 0 BY <1>2, <1>4 DEF SameFrame, Sound
<1>6. job' \in [Threads -> Seq(Pending(mat'))] /\ Idle'
  <2>1. job \in [Threads -> Seq(Pending(mat'))] BY <1>1, NoneIsPending DEF MatrixInv
  <2> QED BY <1>1, <2>1 DEF Idle
<1>7. Reordered(mat', mat, o) BY <1>1, <1>2, <1>3, SameStructureFacts DEF Reordered
<1>8. \E m, p : order' = <<p>> /\ Reordered(mat', m, p) /\ CopyReordered(saved', mat', m, p)
  <2>1. saved' = <<mat>> /\ mat' = ReorderScaleForward(mat, o) BY <1>1
  <2> QED BY <1>1, <1>7, <2>1 DEF CopyReordered
<1> QED BY <1>1, <1>4, <1>5, <1>6, <1>8 DEF MatrixInv

LEMMA RestoreKeeps ==
  ASSUME MatrixInv, Restore
  PROVE  MatrixInv'
<1>1. /\ Idle /\ moved /\ mat' = ReorderScaleInverse(mat, order[1])
      /\ moved' = FALSE /\ UNCHANGED <<saved, derived, job>>
  BY DEF Restore
<1>2. PICK m, o : order = <<o>> /\ Reordered(mat, m, o) /\ CopyReordered(saved, mat, m, o)
  BY <1>1 DEF MatrixInv
<1>3. mat' = ReorderScaleInverse(mat, o) BY <1>1, <1>2
<1>4. Stored(mat') /\ SameStructure(mat', m)
  BY <1>2, <1>3, RestoredStructure, Passed DEF Reordered, Sound, MatrixInv
<1>5. Sound(mat') BY <1>2, <1>4, SoundStructure DEF Reordered
<1>6. saved' = <<>> \/ saved' = <<mat'>>
  <2>1. CASE saved = <<>> BY <1>1, <2>1
  <2>2. CASE saved = <<m>> /\ mat = ReorderScaleForward(m, o)
    <3>1. ReorderScaleInverse(ReorderScaleForward(m, o), o) = m
      BY <1>2, ReorderingUndone, Passed DEF Reordered, Sound
    <3>2. mat' = m BY <1>3, <2>2, <3>1
    <3> QED BY <1>1, <2>2, <3>2
  <2> QED BY <1>2, <2>1, <2>2 DEF CopyReordered
<1> QED BY <1>1, <1>5, <1>6, MatrixSet

LEMMA NextMatrix == MatrixInv /\ [Next]_vars => MatrixInv'
<1> SUFFICES ASSUME MatrixInv, [Next]_vars PROVE MatrixInv' OBVIOUS
<1>1. Stored(mat) /\ job \in [Threads -> Seq(Pending(mat))] BY DEF MatrixInv
<1>2. ASSUME NEW s \in Structures, NEW garbage \in {1, 2}, SetStructure(s, garbage)
      PROVE  MatrixInv'
  <2>1. Sound(Structured(s, s.bs, garbage)) BY Passed, StructuredSound
  <2> QED BY <1>2, <2>1, MatrixSet DEF SetStructure, Becomes
<1>3. ASSUME NEW f \in Files, NEW bs \in BlockSizes, NEW stor \in {"rowmajor", "colmajor"},
             Load(f, bs, stor)
      PROVE  MatrixInv'
  <2>1. Sound(GetSRMatrixFromCOO(ReadMatrixMarket(f), bs, stor, -1))
    BY <1>3, Passed, LoadedSound DEF Load
  <2> QED BY <1>3, <2>1, MatrixSet DEF Load, Becomes
<1>4. ASSUME NEW k \in Blocks, SubmitBlock(k) PROVE MatrixInv'
  <2> DEFINE places == SubmitPlaces(mat, k.i, k.j, k.b, k.b)
  <2>1. IsBlock(k) /\ Fits(k) BY <1>4, Passed DEF SubmitBlock
  <2>2. places \in Seq(PlacesOf(mat, k.b)) BY <1>1, <2>1, FittingPlaces
  <2>3. mat' = Submitted(mat, places, k.buf) /\ saved' = <<>> /\ UNCHANGED <<order, moved, job>>
    BY <1>4 DEF SubmitBlock, Becomes
  <2> HIDE DEF places
  <2>4. k.b \in Nat \ {0} /\ k.buf \in [1 .. k.b * k.b -> Scalars]
    BY <2>1 DEF IsBlock
  <2>5. Stored(mat') /\ SameStructure(mat', mat)
    BY <1>1, <2>2, <2>3, <2>4, SubmittedFacts
  <2> QED BY <1>1, <2>3, <2>5, StructureKept
<1>5. ASSUME NEW t \in Threads, NEW k \in Blocks, UpdateBlock(t, k) PROVE MatrixInv'
  <2>1. IsBlock(k) /\ Fits(k) BY <1>5, Passed DEF UpdateBlock
  <2>2. UpdatePlaces(mat, k.i, k.j, k.b, k.b) \in Seq(PlacesOf(mat, k.b))
    BY <1>1, <2>1, FittingPlaces
  <2> QED BY <1>5, <2>1, <2>2, UpdatesFacts DEF UpdateBlock
<1>6. ASSUME NEW t \in Threads, NEW k \in Blocks, UpdateDiagBlock(t, k) PROVE MatrixInv'
  <2>1. IsBlock(k) /\ Fits(k) /\ k.i = k.j /\ ~moved
    BY <1>6, Passed DEF UpdateDiagBlock
  <2>2. Sound(mat) BY <2>1 DEF MatrixInv
  <2>3. DiagPlaces(mat, k.i, k.b) \in Seq(PlacesOf(mat, k.b))
    BY <2>1, <2>2, FittingDiagPlaces
  <2> QED BY <1>6, <2>1, <2>3, UpdatesFacts DEF UpdateDiagBlock
<1>7. ASSUME NEW t \in Threads, Add(t) PROVE MatrixInv'
  BY <1>7, AddKeeps
<1>8. ASSUME SetAllZero PROVE MatrixInv'
  <2>1. mat' = AllZero(mat) /\ saved' = <<>> /\ UNCHANGED <<order, moved, job>>
    BY <1>8 DEF SetAllZero, Becomes
  <2> QED BY <1>1, <2>1, ZeroFacts, Passed, StructureKept
<1>9. ASSUME SetDiagZero PROVE MatrixInv'
  <2>1. mat' = DiagZero(mat) /\ saved' = <<>> /\ UNCHANGED <<order, moved, job>>
    BY <1>9 DEF SetDiagZero, Becomes
  <2> QED BY <1>1, <2>1, ZeroFacts, Passed, StructureKept
<1>10. ASSUME NEW factor \in Factors, ScaleAll(factor) PROVE MatrixInv'
  <2>1. mat' = Scaled(mat, factor) /\ saved' = <<>> /\ UNCHANGED <<order, moved, job>>
    BY <1>10 DEF ScaleAll, Becomes
  <2> QED BY <1>1, <2>1, ScaleFacts, Passed, StructureKept
<1>11. ASSUME NEW o \in Orderings, ReorderScale(o) PROVE MatrixInv'
  BY <1>11, ReorderKeeps
<1>12. CASE Restore BY <1>12, RestoreKeeps
<1>13. CASE UNCHANGED <<mat, order, moved, saved, job>>
  BY <1>13 DEF MatrixInv, Idle, CopyReordered
<1>14. CASE Derive BY <1>13, <1>14 DEF Derive
<1>15. CASE UNCHANGED vars BY <1>13, <1>15 DEF vars
<1> QED
  BY <1>2, <1>3, <1>4, <1>5, <1>6, <1>7, <1>8, <1>9, <1>10, <1>11, <1>12, <1>14, <1>15 DEF Next

(***************************************************************************)
(* However calls are mixed, by threads that submit and update blocks and   *)
(* by those who set, scale, reorder and restore the matrix, it stays one   *)
(* that its rows, columns and diagonal pointers describe; every addition   *)
(* under way names a place inside of it; and a copy kept from before is    *)
(* what restoring gives.                                                   *)
(***************************************************************************)
THEOREM MatrixStaysSound == Spec => []MatrixInv
<1>1. Init => MatrixInv BY InitMatrix
<1>2. MatrixInv /\ [Next]_vars => MatrixInv' BY NextMatrix
<1> QED BY <1>1, <1>2, PTL DEF Spec

-----------------------------------------------------------------------------
(***************************************************************************)
(* The product of the diagonal: 0 if and only if a factor is.              *)
(***************************************************************************)
LEMMA ZeroProduct ==
  ASSUME Field, NEW d \in Scalars, NEW v \in Scalars \cup {1}
  PROVE  /\ (d * v) % Mod \in Scalars
         /\ (d * v) % Mod = 0 <=> d = 0 \/ v = 0
<1>1. Mod \in Nat \ {0} /\ d \in Nat /\ v \in Nat /\ d < Mod
  BY DEF Field, Scalars, Below
<1>2. d * v \in Nat BY <1>1
<1>3. (d * v) % Mod \in Scalars BY <1>1, <1>2, SameRules DEF Scalars, Below
<1>4. 0 % Mod = 0 BY <1>1, Modulo
<1>5. CASE d = 0 \/ v = 0
  <2>1. d * v = 0 BY <1>1, <1>5
  <2> QED BY <1>3, <1>4, <1>5, <2>1
<1>6. CASE d # 0 /\ v = 1
  <2>1. d * v = d BY <1>1, <1>6
  <2>2. d % Mod = d BY <1>1, Modulo
  <2> QED BY <1>3, <1>6, <2>1, <2>2
<1>7. CASE d # 0 /\ v # 0 /\ v # 1
  <2> SUFFICES ASSUME (d * v) % Mod = 0 PROVE FALSE BY <1>3, <1>7
  <2>1. d \in Units /\ v \in Scalars BY <1>7 DEF Units
  <2>2. PICK e \in Scalars : (d * e) % Mod = 1 BY <2>1 DEF Field
  <2>3. e \in Nat BY <2>2 DEF Scalars, Below
  <2>4. v < Mod /\ v % Mod = v
    <3>1. v < Mod BY <1>1, <2>1 DEF Scalars, Below
    <3> QED BY <1>1, <3>1, Modulo
  <2>5. Mod # 1 BY <1>1, <1>7, <2>4
  <2>6. 1 % Mod = 1
    <3>1. 1 < Mod BY <1>1, <2>5
    <3> QED BY <1>1, <3>1, Modulo
  <2>7. Same(Mod, d * e, 1) BY <2>2, <2>6 DEF Same
  <2>8. Same(Mod, d * v, 0) BY <1>4 DEF Same
  <2>9. d * e \in Nat BY <1>1, <2>3
  <2> DEFINE de == d * e  dv == d * v
  <2>10. Same(Mod, v * de, v * 1)
    <3>1. Same(Mod, v, v) BY <1>1, SameRules
    <3> HIDE DEF de
    <3>2. de \in Nat /\ Same(Mod, de, 1) BY <2>7, <2>9 DEF de
    <3> QED BY <1>1, <3>1, <3>2, SameProducts
  <2>11. Same(Mod, dv * e, 0 * e)
    <3>1. Same(Mod, e, e) BY <1>1, SameRules
    <3> HIDE DEF dv
    <3>2. dv \in Nat /\ Same(Mod, dv, 0) BY <1>2, <2>8 DEF dv
    <3> QED BY <1>1, <2>3, <3>1, <3>2, SameProducts
  <2>12. v * de = dv * e BY <1>1, <2>3
  <2>13. v * 1 = v /\ 0 * e = 0 BY <1>1, <2>3
  <2> HIDE DEF de, dv
  <2>14. v % Mod = 0 % Mod BY <2>10, <2>11, <2>12, <2>13 DEF Same
  <2> QED BY <1>4, <1>7, <2>4, <2>14
<1> QED BY <1>5, <1>6, <1>7

LEMMA ProductFacts ==
  ASSUME Field, NEW U, IsFiniteSet(U), NEW D \in [U -> Scalars]
  PROVE  FoldFunction(LAMBDA d, prod : (d * prod) % Mod, 1, D) = 0 <=> \E x \in U : D[x] = 0
<1> DEFINE V == Scalars \cup {1}
           F(h) == [s \in SUBSET U |-> IF s = {} THEN 1
                                       ELSE (D[CHOOSE x \in s : TRUE]
                                             * h[s \ {CHOOSE x \in s : TRUE}]) % Mod]
           iter == CHOOSE h : h = F(h)
           next == [s \in SUBSET U |-> Chosen(s)]
           op == [p \in U \X V |-> (D[p[1]] * p[2]) % Mod]
<1>1. \A s \in SUBSET U : next[s] = Chosen(s) OBVIOUS
<1>2. \A s \in SUBSET U : s # {} => next[s] \in s BY DEF Chosen
<1>3. Chooses(U, next) BY <1>2 DEF Chooses
<1>4. \A x \in U, v \in V : op[<<x, v>>] = (D[x] * v) % Mod OBVIOUS
<1>5. op \in [U \X V -> V]
  <2>1. \A x \in U, v \in V : (D[x] * v) % Mod \in V BY ZeroProduct
  <2> QED BY <2>1
<1>6. 1 \in V OBVIOUS
<1> HIDE DEF next, op, V
<1>7. PICK g \in [SUBSET U -> V] : FoldRule(g, U, next, 1, op)
  BY <1>3, <1>5, <1>6, FoldExists, Zenon
<1>8. \A s \in SUBSET U : g[s] = IF s = {} THEN 1 ELSE (D[Chosen(s)] * g[s \ {Chosen(s)}]) % Mod
  <2> TAKE s \in SUBSET U
  <2>1. CASE s = {} BY <1>7, <2>1 DEF FoldRule
  <2>2. CASE s # {}
    <3>1. g[s] = op[<<next[s], g[s \ {next[s]}]>>] BY <1>7, <2>2 DEF FoldRule
    <3>2. next[s] \in U /\ s \ {next[s]} \in SUBSET U BY <1>2, <2>2
    <3>3. g[s \ {next[s]}] \in V BY <1>7, <3>2
    <3> QED BY <1>1, <1>4, <2>2, <3>1, <3>2, <3>3
  <2> QED BY <2>1, <2>2
<1>9. g = F(g)
  <2>1. g = [s \in SUBSET U |-> g[s]] OBVIOUS
  <2>2. \A s \in SUBSET U : g[s] = IF s = {} THEN 1
                                   ELSE (D[CHOOSE x \in s : TRUE]
                                         * g[s \ {CHOOSE x \in s : TRUE}]) % Mod
    BY <1>8 DEF Chosen
  <2> QED BY <2>1, <2>2
<1>10. iter = F(iter) BY <1>9
<1>11. FoldFunction(LAMBDA d, prod : (d * prod) % Mod, 1, D) = iter[U]
  BY DEF FoldFunction, FoldFunctionOnSet, MapThenFoldSet
<1>12. \A s \in SUBSET U : iter[s] = IF s = {} THEN 1 ELSE (D[Chosen(s)] * iter[s \ {Chosen(s)}]) % Mod
  BY <1>10 DEF Chosen
<1> HIDE DEF iter, F
<1> DEFINE T == {s \in SUBSET U : iter[s] \in V /\ (iter[s] = 0 <=> \E x \in s : D[x] = 0)}
<1>13. {} \in T
  <2>1. iter[{}] = 1 BY <1>12
  <2> QED BY <1>6, <2>1
<1>14. ASSUME NEW s \in SUBSET U, s # {}, \A x \in s : s \ {x} \in T PROVE s \in T
  <2> DEFINE c == Chosen(s)  v == iter[s \ {c}]
  <2>1. c \in s BY <1>14 DEF Chosen
  <2>2. iter[s] = (D[c] * v) % Mod BY <1>12, <1>14
  <2> HIDE DEF c
  <2>3. v \in V /\ (v = 0 <=> \E x \in s \ {c} : D[x] = 0) BY <1>14, <2>1
  <2> HIDE DEF v
  <2>4. D[c] \in Scalars BY <2>1
  <2>5. (D[c] * v) % Mod \in Scalars /\ ((D[c] * v) % Mod = 0 <=> D[c] = 0 \/ v = 0)
    BY <2>3, <2>4, ZeroProduct DEF V
  <2>6. iter[s] \in V BY <2>2, <2>5 DEF V
  <2> QED BY <2>1, <2>2, <2>3, <2>5, <2>6
<1> HIDE DEF T
<1>15. SUBSET U \subseteq T BY <1>13, <1>14, FiniteInduction
<1>16. U \in T BY <1>15
<1> QED BY <1>11, <1>16 DEF T

(***************************************************************************)
(* The diagonal of a CSR matrix, as it is stored and as it is.             *)
(***************************************************************************)
LEMMA DiagonalFacts ==
  ASSUME Field, NEW m, Sound(m), m.bs = 1, StoresDiagonals(m)
  PROVE  /\ [i \in Rows(m) |-> Dense(m)[<<i, i>>]] = Diagonal(m)
         /\ Diagonal(m) \in [Rows(m) -> Scalars]
<1> DEFINE D(i) == m.diagind[i]
           dense == Dense(m)
<1>1. m.nbrows \in Nat /\ Dim(m) = m.nbrows
  <2>1. m.nbrows \in Nat BY DEF Sound, Stored, IsMatrix
  <2> QED BY <2>1 DEF Dim
<1>2. ASSUME NEW i \in Rows(m)
      PROVE  /\ D(i) \in Row(m, i) /\ m.bcolind[D(i)] = i
             /\ \A jj \in Row(m, i) : m.bcolind[jj] = i => jj = D(i)
             /\ m.vals[D(i)][0] \in Scalars
  <2>1. \E jj \in Row(m, i) : m.bcolind[jj] = i BY DEF StoresDiagonals
  <2>2. D(i) \in Row(m, i) /\ m.bcolind[D(i)] = i BY <2>1 DEF Sound, Found
  <2>3. \A jj \in Row(m, i) : m.bcolind[jj] = i => jj = D(i)
    BY <2>2 DEF Sound, Distinct
  <2>4. D(i) \in Below(Nnzb(m)) BY <2>2, RowFacts DEF Sound
  <2>5. m.vals[D(i)] \in [Places(m) -> Scalars] BY <2>4, StoredValues DEF Sound
  <2>6. 0 \in Places(m) BY DEF Places, Below
  <2> QED BY <2>2, <2>3, <2>5, <2>6
<1>3. ASSUME NEW i \in Rows(m) PROVE dense[<<i, i>>] = m.vals[D(i)][0]
  <2>1. i \in Nat /\ i \in Below(Dim(m)) BY <1>1 DEF Rows, Below
  <2>2. i \div 1 = i /\ i % 1 = 0 BY <2>1
  <2> DEFINE here == {jj \in Row(m, i \div m.bs) : m.bcolind[jj] = i \div m.bs}
             pos == CHOOSE jj \in here : TRUE
             N == Below(Dim(m))
             entry(p) == LET h == {jj \in Row(m, p[1] \div m.bs) : m.bcolind[jj] = p[2] \div m.bs}
                         IN IF h = {} THEN 0
                            ELSE m.vals[CHOOSE jj \in h : TRUE][Place(m, p[1] % m.bs, p[2] % m.bs)]
  <2>3. dense = [p \in N \X N |-> entry(p)] BY DEF Dense
  <2> HIDE DEF dense, N
  <2>4. <<i, i>> \in N \X N BY <2>1 DEF N
  <2> DEFINE ii == <<i, i>>
  <2>5. ii[1] = i /\ ii[2] = i /\ ii \in N \X N BY <2>4
  <2> HIDE DEF ii
  <2>6. entry(ii) = IF here = {} THEN 0 ELSE m.vals[pos][Place(m, i % m.bs, i % m.bs)]
    BY <2>5
  <2> HIDE DEF entry
  <2>7. dense[ii] = entry(ii) BY <2>3, <2>5
  <2>8. here = {D(i)}
    <3>1. here = {jj \in Row(m, i) : m.bcolind[jj] = i} BY <2>2
    <3> QED BY <1>2, <3>1
  <2>9. Place(m, i % m.bs, i % m.bs) = 0 BY <2>2 DEF Place
  <2> QED BY <2>6, <2>7, <2>8, <2>9 DEF ii
<1>5. Diagonal(m) = [i \in Rows(m) |-> m.vals[D(i)][0]] BY DEF Diagonal
<1>4. \A i \in Rows(m) : Dense(m)[<<i, i>>] = m.vals[D(i)][0] BY <1>3
<1> HIDE DEF dense, D
<1>6. [i \in Rows(m) |-> Dense(m)[<<i, i>>]] = Diagonal(m) BY <1>4, <1>5
<1> QED BY <1>2, <1>5, <1>6

(***************************************************************************)
(* A matrix that is restored.                                              *)
(***************************************************************************)
LEMMA SameIsEqual == ASSUME NEW m PROVE AreEqual(m, m) = <<TRUE, TRUE, TRUE, TRUE, TRUE>>
BY DEF AreEqual

LEMMA InvRestores == MatrixInv => Restored
<1> SUFFICES ASSUME MatrixInv, ~moved, StoresDiagonals(mat)
             PROVE  /\ DiagonalsFound(mat)
                    /\ saved # <<>> => AreEqual(mat, saved[1]) = <<TRUE, TRUE, TRUE, TRUE, TRUE>>
                    /\ mat.bs = 1 =>
                         LET D == [i \in Rows(mat) |-> Dense(mat)[<<i, i>>]]
                             values == {D[i] : i \in Rows(mat)}
                         IN /\ ZeroDiagonalRow(mat) =
                                 IF 0 \in values THEN Min({i \in Rows(mat) : D[i] = 0}) ELSE -1
                            /\ GetNumZeroDiagonals(mat) = Cardinality({i \in Rows(mat) : D[i] = 0})
                            /\ (GetDiagonalProduct(mat) = 0) <=> (0 \in values)
                            /\ GetDiagonalAbsSum(mat) = SumFunction(D)
                            /\ GetAbsMinDiagonalEntry(mat) = Min(values)
                            /\ GetAbsMaxDiagonalEntry(mat) = Max(values)
  BY DEF Restored
<1>1. Sound(mat) /\ (saved = <<>> \/ saved = <<mat>>) BY DEF MatrixInv
<1>2. DiagonalsFound(mat) BY <1>1 DEF Sound, Found, StoresDiagonals, DiagonalsFound
<1>3. saved # <<>> => AreEqual(mat, saved[1]) = <<TRUE, TRUE, TRUE, TRUE, TRUE>>
  <2>1. saved # <<>> => saved[1] = mat BY <1>1
  <2> QED BY <2>1, SameIsEqual
<1>4. ASSUME mat.bs = 1
      PROVE  LET D == [i \in Rows(mat) |-> Dense(mat)[<<i, i>>]]
                 values == {D[i] : i \in Rows(mat)}
             IN /\ ZeroDiagonalRow(mat) =
                     IF 0 \in values THEN Min({i \in Rows(mat) : D[i] = 0}) ELSE -1
                /\ GetNumZeroDiagonals(mat) = Cardinality({i \in Rows(mat) : D[i] = 0})
                /\ (GetDiagonalProduct(mat) = 0) <=> (0 \in values)
                /\ GetDiagonalAbsSum(mat) = SumFunction(D)
                /\ GetAbsMinDiagonalEntry(mat) = Min(values)
                /\ GetAbsMaxDiagonalEntry(mat) = Max(values)
  <2> DEFINE D == [i \in Rows(mat) |-> Dense(mat)[<<i, i>>]]
             values == {D[i] : i \in Rows(mat)}
             zeros == {i \in Rows(mat) : D[i] = 0}
  <2>1. D = Diagonal(mat) /\ Diagonal(mat) \in [Rows(mat) -> Scalars]
    BY <1>1, <1>4, DiagonalFacts, Passed
  <2> HIDE DEF D
  <2>2. ZeroDiagonalRow(mat) = IF 0 \in values THEN Min(zeros) ELSE -1
    <3>1. ZeroDiagonalRow(mat) = IF zeros = {} THEN -1 ELSE Min(zeros)
      BY <2>1 DEF ZeroDiagonalRow
    <3>2. zeros = {} <=> 0 \notin values OBVIOUS
    <3> QED BY <3>1, <3>2
  <2>3. GetNumZeroDiagonals(mat) = Cardinality(zeros)
    BY <2>1 DEF GetNumZeroDiagonals
  <2>4. (GetDiagonalProduct(mat) = 0) <=> (0 \in values)
    <3>1. IsFiniteSet(Rows(mat))
      <4>1. mat.nbrows \in Nat BY <1>1 DEF Sound, Stored, IsMatrix
      <4> QED BY <4>1, BelowFacts DEF Rows
    <3>2. GetDiagonalProduct(mat) = 0 <=> \E i \in Rows(mat) : Diagonal(mat)[i] = 0
      BY <2>1, <3>1, ProductFacts, Passed DEF GetDiagonalProduct
    <3> QED BY <2>1, <3>2
  <2>5. GetDiagonalAbsSum(mat) = SumFunction(D) BY <2>1 DEF GetDiagonalAbsSum
  <2>6. GetAbsMinDiagonalEntry(mat) = Min(values) /\ GetAbsMaxDiagonalEntry(mat) = Max(values)
    BY <2>1 DEF GetAbsMinDiagonalEntry, GetAbsMaxDiagonalEntry
  <2> QED BY <2>2, <2>3, <2>4, <2>5, <2>6 DEF D
<1> QED BY <1>2, <1>3, <1>4

(***************************************************************************)
(* A matrix that was reordered and scaled, and then restored, is equal to  *)
(* the copy from before (isEqual), whose structure and values it has.      *)
(* Outside of a reordering diagind is right, and so is what a CSR matrix   *)
(* tells of its diagonal: zeros, sum, product and extreme entries.         *)
(***************************************************************************)
THEOREM RestoredAsBefore == Spec => []Restored
<1>1. MatrixInv => Restored BY InvRestores
<1> QED BY <1>1, MatrixStaysSound, PTL

(***************************************************************************)
(* The vectors of a system that is reordered.                              *)
(***************************************************************************)
LEMMA InvFollows == MatrixInv => VectorsFollow
<1> DEFINE bs == mat.bs
           x == [p \in Below(Dim(mat)) |-> (p * p + 1) % Mod]
           y(o) == OrderVectorForward(ScaleVector(x, Inverses(o.colscale), bs), o.cp, bs)
           r(m) == Apply(m, x)
           Follow(m, o) ==
             /\ Apply(mat, y(o)) = OrderVectorForward(ScaleVector(r(m), o.rowscale, bs), o.rp, bs)
             /\ ScaleVector(OrderVectorInverse(y(o), o.cp, bs), o.colscale, bs) = x
             /\ OrderVectorInverse(OrderVectorForward(r(m), o.rp, bs), o.rp, bs) = r(m)
<1> SUFFICES ASSUME MatrixInv, moved, saved # <<>> PROVE Follow(saved[1], order[1])
  BY DEF VectorsFollow
<1>1. PICK m, o : order = <<o>> /\ Reordered(mat, m, o) /\ CopyReordered(saved, mat, m, o)
  BY DEF MatrixInv
<1>2. saved[1] = m /\ order[1] = o /\ mat = ReorderScaleForward(m, o)
  BY <1>1 DEF CopyReordered
<1>3. Stored(m) /\ OrdersRows(o, m.nbrows) BY <1>1 DEF Reordered, Sound
<1>4. mat.nbrows = m.nbrows /\ mat.bs = m.bs /\ m.nbrows \in Nat /\ m.bs \in Nat \ {0}
  <2>1. SameStructure(mat, ReorderScaleForward(m, o)) BY <1>1 DEF Reordered
  <2>2. SameFrame(ReorderScaleForward(m, o), m) BY <1>3, EntriesFollow, Passed
  <2>3. m.nbrows \in Nat /\ m.bs \in Nat \ {0} BY <1>3 DEF Stored, IsMatrix
  <2> QED BY <2>1, <2>2, <2>3 DEF SameStructure, SameFrame
<1> SUFFICES Follow(m, o) BY <1>2
<1>5. x \in Vectors(m.nbrows, m.bs, Scalars)
  <2>1. Below(Dim(mat)) = Below(m.nbrows * m.bs) BY <1>4 DEF Dim
  <2>2. Mod \in Nat \ {0} BY Passed DEF Field
  <2>3. ASSUME NEW p \in Below(Dim(mat)) PROVE (p * p + 1) % Mod \in Scalars
    <3>1. p \in Nat
      <4>1. m.nbrows * m.bs \in Nat BY <1>4
      <4> QED BY <2>1, <4>1 DEF Below
    <3> DEFINE k == p * p + 1
    <3>2. k \in Nat BY <3>1
    <3> HIDE DEF k
    <3>3. k % Mod \in 0 .. Mod - 1 BY <2>2, <3>2, SameRules
    <3> QED BY <3>3 DEF k, Scalars, Below
  <2> QED BY <2>1, <2>3 DEF Vectors
<1> HIDE DEF x
<1>6. y(o) = Moved(x, o, m.bs) BY <1>4 DEF Moved
<1>7. Apply(mat, y(o)) = OrderVectorForward(ScaleVector(r(m), o.rowscale, bs), o.rp, bs)
  BY <1>2, <1>3, <1>4, <1>5, <1>6, ProductsFollow, Passed
<1>8. ScaleVector(OrderVectorInverse(y(o), o.cp, bs), o.colscale, bs) = x
  BY <1>3, <1>4, <1>5, <1>6, MovedBack, Passed
<1>9. OrderVectorInverse(OrderVectorForward(r(m), o.rp, bs), o.rp, bs) = r(m)
  <2>1. r(m) \in Vectors(m.nbrows, m.bs, Scalars) BY <1>3, <1>5, ApplyFacts, Passed
  <2>2. Permutes(o.rp, m.nbrows) BY <1>3 DEF OrdersRows, Permutes
  <2> HIDE DEF r
  <2> QED BY <1>4, <2>1, <2>2, OrderedVectorUndone
<1> QED BY <1>7, <1>8, <1>9

(***************************************************************************)
(* A system whose matrix is reordered and scaled, its right-hand side with *)
(* the rows and its solution with the columns, is the same system; and the *)
(* solution is moved back to what it was.                                  *)
(***************************************************************************)
THEOREM VectorsFollowMatrix == Spec => []VectorsFollow
<1>1. MatrixInv => VectorsFollow BY InvFollows
<1> QED BY <1>1, MatrixStaysSound, PTL

-----------------------------------------------------------------------------
(***************************************************************************)
(* What is derived from a matrix.  It is dropped whenever the matrix may   *)
(* change, so the caller finds there what the operators make of the matrix *)
(* as it is.                                                               *)
(***************************************************************************)
\* What is derived from a matrix m.
DerivedFrom(d, m) ==
  /\ d.bsc = ConvertBSRToBSC(m) /\ d.bsc1 = ConvertBSRToBSC1Based(m)
  /\ d.adj = ColumnAdjacency(m)
  /\ StoresDiagonals(m) => d.sai = LeftSAIPattern(m) /\ d.isai = LeftIncompleteSAIPattern(m)

\* What is derived is up to date, and dropped as soon as anyone may change it.
DerivedInv ==
  \/ derived = <<>>
  \/ Idle /\ ~moved /\ \E d, m : derived = <<d>> /\ m = mat /\ DerivedFrom(d, m)

LEMMA InitDerived == Init => DerivedInv
<1> SUFFICES ASSUME Init PROVE DerivedInv OBVIOUS
<1>1. derived = <<>> BY DEF Init
<1> QED BY <1>1 DEF DerivedInv

LEMMA NextDerived == DerivedInv /\ [Next]_vars => DerivedInv'
<1> SUFFICES ASSUME DerivedInv, [Next]_vars PROVE DerivedInv' OBVIOUS
<1>1. ASSUME derived' = <<>> PROVE DerivedInv' BY <1>1 DEF DerivedInv
<1>2. ASSUME NEW s \in Structures, NEW garbage \in {1, 2}, SetStructure(s, garbage)
      PROVE  DerivedInv'
  BY <1>1, <1>2 DEF SetStructure, Becomes
<1>3. ASSUME NEW f \in Files, NEW bs \in BlockSizes, NEW stor \in {"rowmajor", "colmajor"},
             Load(f, bs, stor)
      PROVE  DerivedInv'
  BY <1>1, <1>3 DEF Load, Becomes
<1>4. ASSUME NEW k \in Blocks, SubmitBlock(k) PROVE DerivedInv'
  BY <1>1, <1>4 DEF SubmitBlock, Becomes
<1>5. ASSUME NEW t \in Threads, NEW k \in Blocks, UpdateBlock(t, k) PROVE DerivedInv'
  BY <1>1, <1>5 DEF UpdateBlock, Updates
<1>6. ASSUME NEW t \in Threads, NEW k \in Blocks, UpdateDiagBlock(t, k) PROVE DerivedInv'
  BY <1>1, <1>6 DEF UpdateDiagBlock, Updates
<1>7. ASSUME NEW t \in Threads, Add(t) PROVE DerivedInv'
  <2>1. ~Idle /\ derived' = derived BY <1>7 DEF Add, Idle
  <2> QED BY <1>1, <2>1 DEF DerivedInv
<1>8. CASE SetAllZero BY <1>1, <1>8 DEF SetAllZero, Becomes
<1>9. CASE SetDiagZero BY <1>1, <1>9 DEF SetDiagZero, Becomes
<1>10. ASSUME NEW factor \in Factors, ScaleAll(factor) PROVE DerivedInv'
  BY <1>1, <1>10 DEF ScaleAll, Becomes
<1>11. ASSUME NEW o \in Orderings, ReorderScale(o) PROVE DerivedInv'
  BY <1>1, <1>11 DEF ReorderScale
<1>12. CASE Restore
  <2>1. moved /\ derived' = derived BY <1>12 DEF Restore
  <2> QED BY <1>1, <2>1 DEF DerivedInv
<1>13. CASE Derive
  <2> DEFINE d == [bsc |-> ConvertBSRToBSC(mat), bsc1 |-> ConvertBSRToBSC1Based(mat),
                   adj |-> ColumnAdjacency(mat),
                   sai |-> IF StoresDiagonals(mat) THEN LeftSAIPattern(mat) ELSE None,
                   isai |-> IF StoresDiagonals(mat) THEN LeftIncompleteSAIPattern(mat)
                            ELSE None]
  <2>1. DerivedFrom(d, mat) BY DEF DerivedFrom
  <2>2. Idle /\ ~moved /\ derived' = <<d>> /\ UNCHANGED <<mat, moved, job>> BY <1>13 DEF Derive
  <2> HIDE DEF d
  <2>3. PICK e, m : derived' = <<e>> /\ m = mat' /\ DerivedFrom(e, m) BY <2>1, <2>2
  <2>4. Idle' /\ ~moved' BY <2>2 DEF Idle
  <2> QED BY <2>3, <2>4 DEF DerivedInv
<1>14. CASE UNCHANGED vars BY <1>14 DEF vars, DerivedInv, Idle
<1> QED
  BY <1>2, <1>3, <1>4, <1>5, <1>6, <1>7, <1>8, <1>9, <1>10, <1>11, <1>12, <1>13, <1>14 DEF Next

LEMMA StaysDerived == Spec => []DerivedInv
BY InitDerived, NextDerived, PTL DEF Spec

LEMMA InvColumns == MatrixInv /\ DerivedInv => ColumnsExact
<1> DEFINE s == ConvertBSRToBSC(mat)  one == ConvertBSRToBSC1Based(mat)
           adj == ColumnAdjacency(mat)  ptr == ColumnPointers(mat)
           row == RowsListed(mat, Columns(mat))
           x == [p \in Below(Dim(mat)) |-> (p * p + 1) % Mod]
           y == [p \in Below(Dim(mat)) |-> (p + 2) % Mod]
           Right(d) ==
             /\ ColumnGemv3(d.bsc, 2, x, 3, y) = Gemv3(mat, 2, x, 3, y)
             /\ \A c \in Rows(mat) :
                  /\ IF c \in ColumnsOf(mat, c)
                     THEN /\ d.bsc.browind[d.bsc.diagind[c]] = c
                          /\ d.bsc1.browind[d.bsc1.diagind[c] - 1] = c + 1
                     ELSE d.bsc.diagind[c] = -1
                  /\ \A q \in d.bsc.bcolptr[c] .. d.bsc.bcolptr[c + 1] - 2 :
                       d.bsc.browind[q] < d.bsc.browind[q + 1]
                  /\ {<<d.adj.col_rows[q], d.adj.rows_loc[q]>> :
                         q \in d.adj.ptrs[c] .. d.adj.ptrs[c + 1] - 1} =
                       {e \in Rows(mat) \X Below(Nnzb(mat)) :
                          e[2] \in Row(mat, e[1]) /\ mat.bcolind[e[2]] = c}
<1> SUFFICES ASSUME MatrixInv, DerivedInv, derived # <<>> PROVE Right(derived[1])
  BY DEF ColumnsExact
<1>1. PICK d : derived = <<d>> /\ DerivedFrom(d, mat) BY DEF DerivedInv
<1>2. derived[1] = d /\ d.bsc = s /\ d.bsc1 = one /\ d.adj = adj
  BY <1>1 DEF DerivedFrom
<1>3. Sound(mat) BY DEF MatrixInv, DerivedInv
<1>4. mat.nbrows \in Nat /\ mat.bs \in Nat \ {0} BY <1>3 DEF Sound, Stored, IsMatrix
<1>5. x \in Vectors(mat.nbrows, mat.bs, Scalars)
  <2>1. Below(Dim(mat)) = Below(mat.nbrows * mat.bs) BY DEF Dim
  <2>2. Mod \in Nat \ {0} BY Passed DEF Field
  <2>3. ASSUME NEW p \in Below(Dim(mat)) PROVE (p * p + 1) % Mod \in Scalars
    <3>1. p \in Nat
      <4>1. mat.nbrows * mat.bs \in Nat BY <1>4
      <4> QED BY <2>1, <4>1 DEF Below
    <3> DEFINE k == p * p + 1
    <3>2. k \in Nat BY <3>1
    <3> HIDE DEF k
    <3>3. k % Mod \in 0 .. Mod - 1 BY <2>2, <3>2, SameRules
    <3> QED BY <3>3 DEF k, Scalars, Below
  <2> QED BY <2>1, <2>3 DEF Vectors
<1> HIDE DEF x, y
<1>6. ColumnGemv3(s, 2, x, 3, y) = Gemv3(mat, 2, x, 3, y)
  BY <1>3, <1>5, ProductThroughColumns, Passed
<1>7. ListsColumns(mat, ptr, Columns(mat)) BY <1>3, ColumnsListed DEF Sound
<1>8. s.bcolptr = ptr /\ s.browind = row BY <1>3, BSCFacts DEF ColumnsOfEntries
<1>9. adj.ptrs = ptr BY DEF ColumnAdjacency
<1>10. ASSUME NEW c \in Rows(mat)
       PROVE  /\ IF c \in ColumnsOf(mat, c)
                 THEN /\ s.browind[s.diagind[c]] = c /\ one.browind[one.diagind[c] - 1] = c + 1
                 ELSE s.diagind[c] = -1
              /\ \A q \in ptr[c] .. ptr[c + 1] - 2 : row[q] < row[q + 1]
              /\ {<<adj.col_rows[q], adj.rows_loc[q]>> : q \in Span(ptr, c)} =
                   {e \in Rows(mat) \X Below(Nnzb(mat)) :
                      e[2] \in Row(mat, e[1]) /\ mat.bcolind[e[2]] = c}
  <2>1. IF c \in ColumnsOf(mat, c) THEN row[s.diagind[c]] = c ELSE s.diagind[c] = -1
    BY <1>3, BSCFacts
  <2>2. c \in ColumnsOf(mat, c) => one.browind[one.diagind[c] - 1] = c + 1
    BY <1>3, OneBasedFacts
  <2>3. \A q \in ptr[c] .. ptr[c + 1] - 2 : row[q] < row[q + 1]
    <3>1. \A q, r \in Span(ptr, c) : q < r => row[q] < row[r] BY <1>3, <1>7, ListedFacts
    <3>2. ptr[c] \in Nat /\ ptr[c + 1] \in Nat
      BY <1>4, <1>7 DEF ListsColumns, Pointers, Rows, Below
    <3> HIDE DEF ptr, row
    <3> TAKE q \in ptr[c] .. ptr[c + 1] - 2
    <3>3. q \in Span(ptr, c) /\ q + 1 \in Span(ptr, c) /\ q < q + 1 BY <3>2 DEF Span
    <3> QED BY <3>1, <3>3
  <2>4. {<<adj.col_rows[q], adj.rows_loc[q]>> : q \in Span(adj.ptrs, c)} =
          {e \in Rows(mat) \X Below(Nnzb(mat)) : e[2] \in Row(mat, e[1]) /\ mat.bcolind[e[2]] = c}
    BY <1>3, AdjacencyFacts
  <2> QED BY <1>8, <1>9, <2>1, <2>2, <2>3, <2>4
<1> HIDE DEF s, one, adj, ptr, row
<1>11. \A c : Span(ptr, c) = ptr[c] .. ptr[c + 1] - 1 BY DEF Span
<1>12. Right(d)
  <2>1. /\ ColumnGemv3(d.bsc, 2, x, 3, y) = Gemv3(mat, 2, x, 3, y)
        /\ d.bsc = s /\ d.bsc1 = one /\ d.adj = adj
        /\ d.bsc.bcolptr = ptr /\ d.bsc.browind = row /\ d.adj.ptrs = ptr
    BY <1>2, <1>6, <1>8, <1>9
  <2>2. ASSUME NEW c \in Rows(mat)
        PROVE  /\ IF c \in ColumnsOf(mat, c)
                  THEN /\ d.bsc.browind[d.bsc.diagind[c]] = c
                       /\ d.bsc1.browind[d.bsc1.diagind[c] - 1] = c + 1
                  ELSE d.bsc.diagind[c] = -1
               /\ \A q \in d.bsc.bcolptr[c] .. d.bsc.bcolptr[c + 1] - 2 :
                    d.bsc.browind[q] < d.bsc.browind[q + 1]
               /\ {<<d.adj.col_rows[q], d.adj.rows_loc[q]>> :
                      q \in d.adj.ptrs[c] .. d.adj.ptrs[c + 1] - 1} =
                    {e \in Rows(mat) \X Below(Nnzb(mat)) :
                       e[2] \in Row(mat, e[1]) /\ mat.bcolind[e[2]] = c}
    <3>1. IF c \in ColumnsOf(mat, c)
          THEN /\ d.bsc.browind[d.bsc.diagind[c]] = c
               /\ d.bsc1.browind[d.bsc1.diagind[c] - 1] = c + 1
          ELSE d.bsc.diagind[c] = -1
      BY <1>10, <2>1
    <3>2. \A q \in d.bsc.bcolptr[c] .. d.bsc.bcolptr[c + 1] - 2 :
            d.bsc.browind[q] < d.bsc.browind[q + 1]
      BY <1>10, <2>1
    <3>3. {<<d.adj.col_rows[q], d.adj.rows_loc[q]>> :
             q \in d.adj.ptrs[c] .. d.adj.ptrs[c + 1] - 1} =
            {e \in Rows(mat) \X Below(Nnzb(mat)) :
               e[2] \in Row(mat, e[1]) /\ mat.bcolind[e[2]] = c}
      <4>1. d.adj.ptrs[c] .. d.adj.ptrs[c + 1] - 1 = Span(ptr, c) BY <1>11, <2>1
      <4> DEFINE Named(A, I) == {<<A.col_rows[q], A.rows_loc[q]>> : q \in I}
                 Told == {e \in Rows(mat) \X Below(Nnzb(mat)) :
                                 e[2] \in Row(mat, e[1]) /\ mat.bcolind[e[2]] = c}
      <4>2. Named(adj, Span(ptr, c)) = Told BY <1>10
      <4> HIDE DEF Named, Told
      <4>3. Named(d.adj, d.adj.ptrs[c] .. d.adj.ptrs[c + 1] - 1) = Told BY <2>1, <4>1, <4>2
      <4> QED BY <4>3 DEF Named, Told
    <3> QED BY <3>1, <3>2, <3>3
  <2> QED BY <2>1, <2>2
<1> QED BY <1>2, <1>12

(***************************************************************************)
(* Block columns and adjacency lists say what the matrix says from which   *)
(* they were made, as long as the caller may use them: products by columns *)
(* are those by rows, the rows of a column ascend and every entry is named *)
(* once.                                                                   *)
(***************************************************************************)
THEOREM ColumnsStayExact == Spec => []ColumnsExact
<1>1. MatrixInv /\ DerivedInv => ColumnsExact BY InvColumns
<1> QED BY <1>1, MatrixStaysSound, StaysDerived, PTL
LEMMA InvSai == MatrixInv /\ DerivedInv => SaiExact
<1> SUFFICES ASSUME MatrixInv, DerivedInv, derived # <<>>, StoresDiagonals(mat)
             PROVE  /\ SaiIsExact(derived[1].sai, FullEquations)
                    /\ SaiIsExact(derived[1].isai, IncompleteEquations)
  BY DEF SaiExact
<1> DEFINE full == [i \in Rows(mat) |-> FullEquations(mat, i)]
           short == [i \in Rows(mat) |-> IncompleteEquations(mat, i)]
<1>1. Field /\ Sound(mat) BY ModAssumption DEF MatrixInv, DerivedInv
<1>2. PICK d : derived = <<d>> /\ DerivedFrom(d, mat) BY DEF DerivedInv
<1>3. /\ derived[1].sai = SaiPattern(mat, full) /\ derived[1].isai = SaiPattern(mat, short)
  BY <1>2 DEF DerivedFrom, LeftSAIPattern, LeftIncompleteSAIPattern
<1>4. AreEquations(full, mat) /\ AreEquations(short, mat)
  BY <1>1, FullAreEquations, IncompleteAreEquations
<1>5. \A i \in Rows(mat) : full[i] = FullEquations(mat, i) /\ short[i] = IncompleteEquations(mat, i)
  OBVIOUS
<1> HIDE DEF full, short
<1>6. \A i \in Rows(mat) : /\ Solves(mat, derived[1].sai, full[i], i)
                           /\ Solves(mat, derived[1].isai, short[i], i)
  BY <1>1, <1>3, <1>4, PatternSolves
<1>7. ASSUME NEW sp, \A i \in Rows(mat) : Solves(mat, sp, FullEquations(mat, i), i)
      PROVE  SaiIsExact(sp, FullEquations)
  BY <1>7, Zenon DEF SaiIsExact, Solves, Answers, Some, ProblemTerms, ProductTerms, At
<1>8. ASSUME NEW sp, \A i \in Rows(mat) : Solves(mat, sp, IncompleteEquations(mat, i), i)
      PROVE  SaiIsExact(sp, IncompleteEquations)
  BY <1>8, Zenon DEF SaiIsExact, Solves, Answers, Some, ProblemTerms, ProductTerms, At
<1> QED BY <1>5, <1>6, <1>7, <1>8

(***************************************************************************)
(* The least-squares problems of approximate inverses are those of the     *)
(* matrix: what the problem of a row says of a solution is what the        *)
(* product with the matrix says, in every equation and column, for the     *)
(* full pattern and for the incomplete one - for all rows in a build       *)
(* without assertions, in one with them for the rows it does not end at.   *)
(***************************************************************************)
THEOREM SaiStaysExact == Spec => []SaiExact
<1>1. MatrixInv /\ DerivedInv => SaiExact BY InvSai
<1> QED BY <1>1, MatrixStaysSound, StaysDerived, PTL
-----------------------------------------------------------------------------

(***************************************************************************)
(* The mapping: what is stored and the additions that are pending.         *)
(***************************************************************************)
LEMMA CompletedIs == Completed = CompletedOf(mat, job)
BY Zenon DEF Completed, CompletedOf

LEMMA CompletedNext == Completed' = CompletedOf(mat', job')
BY DEF Completed, CompletedOf, FoldSet, MapThenFoldSet, FoldLeft

LEMMA DenseNext == Dense(Completed)' = Dense(CompletedOf(mat', job'))
<1>1. Dense(Completed)' = Dense(Completed') OBVIOUS
<1> QED BY <1>1, CompletedNext

\* Nothing is pending: what is stored is what the caller knows.
LEMMA IdleCompleted ==
  ASSUME MatrixInv, Idle
  PROVE  Completed = mat
<1>1. Stored(mat) /\ job \in [Threads -> Seq(Pending(mat))] /\ \A t \in Threads : job[t] = <<>>
  BY DEF MatrixInv, Idle
<1> QED BY <1>1, NoneMade, CompletedIs, Passed

LEMMA IdleNext ==
  ASSUME MatrixInv, Idle, UNCHANGED job, Stored(mat')
  PROVE  Dense(Completed)' = Dense(mat')
<1>1. \A t \in Threads : job[t] = <<>> BY DEF Idle
<1>2. job' \in [Threads -> Seq(Pending(mat'))]
  <2>1. job \in [Threads -> Seq(Pending(mat'))] BY NoneIsPending DEF MatrixInv
  <2> QED BY <2>1
<1>3. CompletedOf(mat', job') = mat' BY <1>1, <1>2, NoneMade, Passed
<1> QED BY <1>3, DenseNext

\* No column is stored twice, reordered or not.
LEMMA AlwaysDistinct ==
  ASSUME MatrixInv
  PROVE  Stored(mat) /\ Distinct(mat)
<1>1. Stored(mat) BY DEF MatrixInv
<1>2. CASE ~moved BY <1>2 DEF MatrixInv, Sound
<1>3. CASE moved
  <2>1. PICK m, o : order = <<o>> /\ Reordered(mat, m, o) /\ CopyReordered(saved, mat, m, o)
    BY <1>3 DEF MatrixInv
  <2>2. /\ Stored(m) /\ Distinct(m) /\ OrdersRows(o, m.nbrows)
        /\ SameStructure(mat, ReorderScaleForward(m, o))
    BY <2>1 DEF Reordered, Sound
  <2>3. Distinct(ReorderScaleForward(m, o)) BY <2>2, DenseMoved, Passed
  <2> QED BY <1>1, <2>2, <2>3, SameHolds
<1>4. moved \in BOOLEAN BY DEF MatrixInv
<1> QED BY <1>1, <1>2, <1>3, <1>4

\* The mapped matrix is square, of scalars.
LEMMA CompletedFacts ==
  ASSUME MatrixInv
  PROVE  /\ CompletedOf(mat, job) \in Variants(mat)
         /\ Dense(Completed) \in [SquareOf(mat) -> Scalars]
<1>1. job \in [Threads -> Seq(Pending(mat))] BY DEF MatrixInv
<1> DEFINE C == CompletedOf(mat, job)
<1>2. C \in Variants(mat) BY <1>1, AlwaysDistinct, ThreadsAdd, Passed
<1>3. Stored(C) /\ SameStructure(C, mat) BY <1>2, AlwaysDistinct, VariantFacts
<1>4. Distinct(C) /\ SquareOf(C) = SquareOf(mat) BY <1>3, AlwaysDistinct, SameHolds
<1>5. Dense(C) \in [SquareOf(C) -> Scalars] BY <1>3, <1>4, DenseFacts, Passed
<1> QED BY <1>2, <1>4, <1>5, CompletedIs

-----------------------------------------------------------------------------
(***************************************************************************)
(* Each call makes the step of DenseMatrix that it is named for.           *)
(***************************************************************************)
LEMMA StructureStep ==
  ASSUME MatrixInv, NEW s \in Structures, NEW garbage \in {1, 2}, SetStructure(s, garbage)
  PROVE  Matrix!Next
<1>1. /\ Idle /\ UNCHANGED job /\ call' = <<"structure", s.nbrows * s.bs>>
      /\ mat' = Structured(s, s.bs, garbage)
  BY DEF SetStructure, Becomes, Called
<1>2. Sound(mat') BY <1>1, Passed, StructuredSound
<1>3. SquareOf(mat') = Matrix!Square(s.nbrows * s.bs)
  <2>1. mat'.nbrows = s.nbrows /\ mat'.bs = s.bs BY <1>1 DEF Structured
  <2>2. Dim(mat') = s.nbrows * s.bs BY <2>1 DEF Dim
  <2> QED BY <2>2 DEF SquareOf, Below, Matrix!Square, Matrix!Below
<1>4. Dense(mat') \in [SquareOf(mat') -> Scalars] BY <1>2, DenseFacts, Passed DEF Sound
<1>5. Dense(Completed)' = Dense(mat') BY <1>1, <1>2, IdleNext DEF Sound
<1>6. Scalars = Matrix!Scalars BY DEF Scalars, Below, Matrix!Scalars
<1>7. Dense(Completed)' \in [Matrix!Square(s.nbrows * s.bs) -> Matrix!Scalars]
  BY <1>3, <1>4, <1>5, <1>6
<1> DEFINE n == s.nbrows * s.bs
<1>8. call' = <<"structure", n>> /\ Dense(Completed)' \in [Matrix!Square(n) -> Matrix!Scalars]
  BY <1>1, <1>7
<1> HIDE DEF n
<1>9. call'[1] = "structure" /\ call'[2] = n BY <1>8
<1> QED BY <1>8, <1>9 DEF Matrix!Next, Matrix!SetStructure

LEMMA LoadStep ==
  ASSUME MatrixInv, NEW f \in Files, NEW bs \in BlockSizes, NEW stor, Load(f, bs, stor)
  PROVE  Matrix!Next
<1>1. /\ Idle /\ UNCHANGED job /\ call' = <<"load", f>> /\ Readable(f) /\ f.n % bs = 0
      /\ mat' = GetSRMatrixFromCOO(ReadMatrixMarket(f), bs, stor, -1)
  BY DEF Load, Becomes, Called
<1>2. IsFile(f) /\ bs \in Nat \ {0} BY Passed
<1>3. Sound(mat') /\ Dense(mat') = Matrix!Content(f) BY <1>1, <1>2, LoadedDense, Passed
<1>4. Dense(Completed)' = Matrix!Content(f) BY <1>1, <1>3, IdleNext DEF Sound
<1> QED BY <1>1, <1>4 DEF Matrix!Next, Matrix!Load

LEMMA SubmitStep ==
  ASSUME MatrixInv, NEW k \in Blocks, SubmitBlock(k)
  PROVE  Matrix!Next
<1> DEFINE places == SubmitPlaces(mat, k.i, k.j, k.b, k.b)
<1>1. /\ Idle /\ UNCHANGED job /\ call' = <<"set", k>> /\ mat.stor = "rowmajor" /\ Fits(k)
      /\ mat' = Submitted(mat, places, k.buf)
  BY DEF SubmitBlock, Becomes, Assembling, Called
<1>2. IsBlock(k) /\ Stored(mat) /\ Distinct(mat) BY Passed, AlwaysDistinct
<1>3. Exact(mat, places, k) BY <1>1, <1>2, FittingExact
<1>4. Stored(mat')
  <2>1. places \in Seq(PlacesOf(mat, k.b)) BY <1>1, <1>2, FittingPlaces
  <2>2. k.b \in Nat \ {0} /\ k.buf \in [1 .. k.b * k.b -> Scalars] BY <1>2 DEF IsBlock
  <2> HIDE DEF places
  <2> QED BY <1>1, <1>2, <2>1, <2>2, SubmittedFacts
<1> HIDE DEF places
<1>5. Dense(mat') =
        [p \in SquareOf(mat) |-> IF Matrix!Inside(k, p) THEN Matrix!In(k, p) ELSE Dense(mat)[p]]
  BY <1>1, <1>2, <1>3, SubmittedDense, Passed
<1> DEFINE B == Dense(Completed)
<1>6. DOMAIN B = SquareOf(mat) /\ B = Dense(mat) BY <1>1, CompletedFacts, IdleCompleted
<1>7. B' = [p \in DOMAIN B |-> IF Matrix!Inside(k, p) THEN Matrix!In(k, p) ELSE B[p]]
  BY <1>1, <1>4, <1>5, <1>6, IdleNext
<1>8. Matrix!SetBlock(k) BY <1>7 DEF Matrix!SetBlock, Matrix!Mapped
<1> QED BY <1>1, <1>8 DEF Matrix!Next

LEMMA UpdatesStep ==
  ASSUME MatrixInv, NEW t \in Threads, NEW k \in Blocks, NEW places, Exact(mat, places, k),
         places \in Seq(PlacesOf(mat, k.b)), Updates(t, places, k), call' = <<"add", k>>
  PROVE  Matrix!Next
<1> DEFINE s == Additions(places, k)
<1>1. job[t] = <<>> /\ job' = [job EXCEPT ![t] = s] /\ mat' = mat BY DEF Updates
<1>2. /\ IsBlock(k) /\ Stored(mat) /\ Distinct(mat) /\ Field
      /\ job \in [Threads -> Seq(Pending(mat))]
  BY Passed, AlwaysDistinct DEF MatrixInv
<1>3. s \in Seq(Pending(mat)) BY <1>2, AdditionsFacts
<1> DEFINE C == CompletedOf(mat, job)  next == [job EXCEPT ![t] = s]  D == CompletedOf(mat, next)
<1> HIDE DEF s
<1>4. /\ D \in Variants(mat)
      /\ \A jj \in Below(Nnzb(mat)), l \in Places(mat) :
           D.vals[jj][l] = (C.vals[jj][l] + OwedIn(s, jj, l)) % Mod
  <2>1. Field /\ Stored(mat) /\ job \in [Threads -> Seq(Pending(mat))] /\ job[t] = <<>>
        /\ s \in Seq(Pending(mat)) /\ Replaces(next, job, t, s)
    BY <1>1, <1>2, <1>3 DEF Replaces
  <2> HIDE DEF next
  <2> QED BY <2>1, ListTaken
<1>a. CompletedOf(mat', job') = D BY <1>1
<1>5. C \in Variants(mat) BY CompletedFacts
<1> HIDE DEF C, D, next
<1>6. Dense(D) = [p \in SquareOf(mat) |->
                    IF Matrix!Inside(k, p) THEN (Dense(C)[p] + Matrix!In(k, p)) % Mod
                    ELSE Dense(C)[p]]
  BY <1>2, <1>4, <1>5, AddedDense DEF s
<1> DEFINE B == Dense(Completed)
<1>7. B = Dense(C) BY CompletedIs DEF C
<1>8. DOMAIN B = SquareOf(mat) BY CompletedFacts
<1>9. B' = Dense(D) BY <1>a, DenseNext
<1>10. B' = [p \in DOMAIN B |-> IF Matrix!Inside(k, p) THEN (B[p] + Matrix!In(k, p)) % Mod
                                ELSE B[p]]
  BY <1>6, <1>7, <1>8, <1>9
<1>11. Matrix!AddBlock(k) BY <1>10 DEF Matrix!AddBlock, Matrix!Mapped
<1> QED BY <1>11 DEF Matrix!Next

LEMMA UpdateStep ==
  ASSUME MatrixInv, NEW t \in Threads, NEW k \in Blocks,
         UpdateBlock(t, k) \/ UpdateDiagBlock(t, k)
  PROVE  Matrix!Next
<1>1. IsBlock(k) /\ Stored(mat) /\ Distinct(mat) BY Passed, AlwaysDistinct
<1>2. CASE UpdateBlock(t, k)
  <2> DEFINE places == UpdatePlaces(mat, k.i, k.j, k.b, k.b)
  <2>1. /\ mat.stor = "rowmajor" /\ Fits(k) /\ Updates(t, places, k) /\ call' = <<"add", k>>
    BY <1>2 DEF UpdateBlock, Assembling, Called
  <2>2. Exact(mat, places, k) BY <1>1, <2>1, FittingExact
  <2>3. places \in Seq(PlacesOf(mat, k.b)) BY <1>1, <2>1, FittingPlaces
  <2> HIDE DEF places
  <2> QED BY <2>1, <2>2, <2>3, UpdatesStep
<1>3. CASE UpdateDiagBlock(t, k)
  <2> DEFINE places == DiagPlaces(mat, k.i, k.b)
  <2>1. /\ mat.stor = "rowmajor" /\ Fits(k) /\ ~moved /\ k.i = k.j /\ Updates(t, places, k)
        /\ call' = <<"add", k>>
    BY <1>3 DEF UpdateDiagBlock, Assembling, Called
  <2>2. Sound(mat) BY <2>1 DEF MatrixInv
  <2>3. Exact(mat, places, k) BY <1>1, <2>1, <2>2, FittingDiagonal
  <2>4. places \in Seq(PlacesOf(mat, k.b)) BY <1>1, <2>1, <2>2, FittingDiagPlaces
  <2> HIDE DEF places
  <2> QED BY <2>1, <2>3, <2>4, UpdatesStep
<1> QED BY <1>2, <1>3

\* One of the additions that a call has left: the caller knew it already.
LEMMA AddStep ==
  ASSUME MatrixInv, NEW t \in Threads, Add(t)
  PROVE  UNCHANGED <<Dense(Completed), call>>
<1>1. /\ job[t] # <<>> /\ mat' = Added(mat, Head(job[t])) /\ call' = call
      /\ job' = [job EXCEPT ![t] = Tail(@)]
  BY DEF Add
<1>2. Stored(mat) /\ job \in [Threads -> Seq(Pending(mat))] /\ Field BY Passed DEF MatrixInv
<1>3. CompletedOf(mat', job') = CompletedOf(mat, job) BY <1>1, <1>2, OneMade
<1> QED BY <1>1, <1>3, CompletedIs, DenseNext

LEMMA ZeroStep ==
  ASSUME MatrixInv, SetAllZero
  PROVE  Matrix!Next
<1>1. Idle /\ UNCHANGED job /\ call' = <<"zero">> /\ mat' = AllZero(mat)
  BY DEF SetAllZero, Becomes, Assembling, Called
<1>2. Stored(mat) /\ Distinct(mat) /\ Stored(mat')
  BY <1>1, AlwaysDistinct, ZeroFacts, Passed
<1>3. Dense(mat') = [p \in SquareOf(mat) |-> 0] BY <1>1, <1>2, ZeroDense, Passed
<1> DEFINE B == Dense(Completed)
<1>4. DOMAIN B = SquareOf(mat) BY CompletedFacts
<1>5. B' = [p \in DOMAIN B |-> 0] BY <1>1, <1>2, <1>3, <1>4, IdleNext
<1>6. Matrix!ZeroAll BY <1>5 DEF Matrix!ZeroAll, Matrix!Mapped
<1> QED BY <1>1, <1>6 DEF Matrix!Next

LEMMA DiagonalStep ==
  ASSUME MatrixInv, SetDiagZero
  PROVE  Matrix!Next
<1>1. /\ Idle /\ UNCHANGED job /\ call' = <<"zero diagonal", mat.bs>> /\ mat' = DiagZero(mat)
      /\ ~moved /\ StoresDiagonals(mat)
  BY DEF SetDiagZero, Becomes, Assembling, Called
<1>2. Stored(mat) /\ Distinct(mat) /\ Stored(mat')
  BY <1>1, AlwaysDistinct, ZeroFacts, Passed
<1>3. DiagonalsFound(mat)
  <2>1. Found(mat) BY <1>1 DEF MatrixInv, Sound
  <2> QED BY <1>1, <2>1 DEF Found, StoresDiagonals, DiagonalsFound
<1>4. Dense(mat') =
        [p \in SquareOf(mat) |-> IF p[1] \div mat.bs = p[2] \div mat.bs THEN 0 ELSE Dense(mat)[p]]
  BY <1>1, <1>2, <1>3, DiagZeroDense, Passed
<1> DEFINE B == Dense(Completed)
<1>5. DOMAIN B = SquareOf(mat) /\ B = Dense(mat) BY <1>1, CompletedFacts, IdleCompleted
<1>6. B' = [p \in DOMAIN B |-> IF p[1] \div mat.bs = p[2] \div mat.bs THEN 0 ELSE B[p]]
  BY <1>1, <1>2, <1>4, <1>5, IdleNext
<1>7. Matrix!ZeroDiagonal(mat.bs) BY <1>6 DEF Matrix!ZeroDiagonal, Matrix!Mapped
<1> QED BY <1>1, <1>7 DEF Matrix!Next

LEMMA ScaleStep ==
  ASSUME MatrixInv, NEW factor \in Factors, ScaleAll(factor)
  PROVE  Matrix!Next
<1>1. Idle /\ UNCHANGED job /\ call' = <<"scale", factor>> /\ mat' = Scaled(mat, factor)
  BY DEF ScaleAll, Becomes, Assembling, Called
<1>2. Stored(mat) /\ Distinct(mat) /\ Stored(mat') /\ factor \in Nat
  BY <1>1, AlwaysDistinct, ScaleFacts, Passed
<1>3. Dense(mat') = [p \in SquareOf(mat) |-> (factor * Dense(mat)[p]) % Mod]
  BY <1>1, <1>2, ScaledDense, Passed
<1> DEFINE B == Dense(Completed)
<1>4. DOMAIN B = SquareOf(mat) /\ B = Dense(mat) BY <1>1, CompletedFacts, IdleCompleted
<1>5. B' = [p \in DOMAIN B |-> (factor * B[p]) % Mod] BY <1>1, <1>2, <1>3, <1>4, IdleNext
<1>6. Matrix!Scale(factor) BY <1>5 DEF Matrix!Scale, Matrix!Mapped
<1> QED BY <1>1, <1>6 DEF Matrix!Next

LEMMA ReorderStep ==
  ASSUME MatrixInv, NEW o \in Orderings, ReorderScale(o)
  PROVE  Matrix!Next
<1>1. /\ Idle /\ UNCHANGED job /\ call' = <<"reorder", o, mat.bs>> /\ ~moved
      /\ mat.nbrows \in {Cardinality(DOMAIN p) : p \in {o.rp, o.cp}}
      /\ mat' = ReorderScaleForward(mat, o)
  BY DEF ReorderScale, Assembling, Called
<1>2. Stored(mat) /\ Distinct(mat) BY AlwaysDistinct
<1>3. OrdersRows(o, mat.nbrows)
  <2>1. mat.nbrows \in Nat \ {0} BY <1>1 DEF MatrixInv, Sound, Stored, IsMatrix
  <2> QED BY <1>1, <2>1, PassedOrderings
<1>4. Stored(mat') /\ Dense(mat') = Matrix!Moved(Dense(mat), o, mat.bs)
  BY <1>1, <1>2, <1>3, DenseMoved, Passed
<1>5. Dense(Completed) = Dense(mat) BY <1>1, IdleCompleted
<1>6. Dense(Completed)' = Matrix!Moved(Dense(Completed), o, mat.bs)
  BY <1>1, <1>4, <1>5, IdleNext
<1>7. Matrix!Reorder(o, mat.bs) BY <1>6 DEF Matrix!Reorder
<1> QED BY <1>1, <1>7 DEF Matrix!Next

\* What is undone is one of the orderings that were passed.
OrderPassed == moved => \E o \in Orderings : order = <<o>>

LEMMA OrderStaysPassed == Spec => []OrderPassed
<1>1. Init => OrderPassed BY DEF Init, OrderPassed
<1>2. OrderPassed /\ [Next]_vars => OrderPassed'
  <2> SUFFICES ASSUME OrderPassed, [Next]_vars PROVE OrderPassed' OBVIOUS
  <2>1. ASSUME UNCHANGED <<order, moved>> PROVE OrderPassed' BY <2>1 DEF OrderPassed
  <2>2. ASSUME moved' = FALSE PROVE OrderPassed' BY <2>2 DEF OrderPassed
  <2>3. ASSUME NEW o \in Orderings, order' = <<o>> PROVE OrderPassed' BY <2>3 DEF OrderPassed
  <2>4. CASE \E s \in Structures, garbage \in {1, 2} : SetStructure(s, garbage)
    BY <2>2, <2>4 DEF SetStructure
  <2>5. CASE \E f \in Files, bs \in BlockSizes, stor \in {"rowmajor", "colmajor"} : Load(f, bs, stor)
    BY <2>2, <2>5 DEF Load
  <2>6. CASE \E k \in Blocks : SubmitBlock(k) BY <2>1, <2>6 DEF SubmitBlock
  <2>7. CASE \E t \in Threads : \/ \E k \in Blocks : UpdateBlock(t, k) \/ UpdateDiagBlock(t, k)
                                \/ Add(t)
    BY <2>1, <2>7 DEF UpdateBlock, UpdateDiagBlock, Updates, Add
  <2>8. CASE SetAllZero \/ SetDiagZero BY <2>1, <2>8 DEF SetAllZero, SetDiagZero
  <2>9. CASE \E factor \in Factors : ScaleAll(factor) BY <2>1, <2>9 DEF ScaleAll
  <2>10. CASE \E o \in Orderings : ReorderScale(o) BY <2>3, <2>10 DEF ReorderScale
  <2>11. CASE Restore BY <2>2, <2>11 DEF Restore
  <2>12. CASE Derive BY <2>1, <2>12 DEF Derive
  <2>13. CASE UNCHANGED vars BY <2>1, <2>13 DEF vars
  <2> QED
    BY <2>4, <2>5, <2>6, <2>7, <2>8, <2>9, <2>10, <2>11, <2>12, <2>13 DEF Next
<1> QED BY <1>1, <1>2, PTL DEF Spec

LEMMA RestoreStep ==
  ASSUME MatrixInv, OrderPassed, Restore
  PROVE  Matrix!Next
<1>1. /\ Idle /\ moved /\ UNCHANGED job /\ call' = <<"undo", order[1], mat.bs>>
      /\ mat' = ReorderScaleInverse(mat, order[1])
  BY DEF Restore, Assembling, Called
<1>2. PICK m, o : order = <<o>> /\ Reordered(mat, m, o) /\ CopyReordered(saved, mat, m, o)
  BY <1>1 DEF MatrixInv
<1>3. mat' = ReorderScaleInverse(mat, o) /\ call' = <<"undo", o, mat.bs>> BY <1>1, <1>2
<1>4. /\ Stored(m) /\ Distinct(m) /\ SortedRows(m) /\ OrdersRows(o, m.nbrows)
      /\ SameStructure(mat, ReorderScaleForward(m, o)) /\ Stored(mat)
  BY <1>2, AlwaysDistinct DEF Reordered, Sound
<1>5. Stored(mat') BY <1>3, <1>4, InverseMoved, Passed
<1>6. /\ Dense(mat) = Matrix!Moved(Dense(mat'), o, mat.bs)
      /\ DOMAIN Dense(mat') = DOMAIN Dense(mat)
  BY <1>3, <1>4, InverseDense, Passed
<1>7. Dense(Completed) = Dense(mat) BY <1>1, IdleCompleted
<1>8. Dense(Completed)' = Dense(mat') BY <1>1, <1>5, IdleNext
<1>9. o \in Orderings BY <1>1, <1>2 DEF OrderPassed
<1>10. Matrix!Undo(o, mat.bs) BY <1>6, <1>7, <1>8, <1>9 DEF Matrix!Undo
<1> QED BY <1>3, <1>10 DEF Matrix!Next

LEMMA InitDense == Init => Matrix!Init
<1> SUFFICES ASSUME Init PROVE Matrix!Init OBVIOUS
<1>1. MatrixInv BY InitMatrix
<1>2. Idle BY DEF Init, Idle
<1>3. Dense(Completed) = Dense(mat) BY <1>1, <1>2, IdleCompleted
<1>4. ASSUME NEW s \in Structures, NEW garbage \in {1, 2},
             mat = Structured(s, s.bs, garbage), call = <<"structure", s.nbrows * s.bs>>
      PROVE  Matrix!Init
  <2>1. Dense(mat) \in [SquareOf(mat) -> Scalars] BY <1>1, AlwaysDistinct, DenseFacts, Passed
  <2>2. mat.nbrows = s.nbrows /\ mat.bs = s.bs BY <1>4 DEF Structured
  <2> DEFINE n == s.nbrows * s.bs
  <2>3. Dim(mat) = n BY <2>2 DEF Dim
  <2>4. call[1] = "structure" /\ call[2] = n BY <1>4
  <2> HIDE DEF n
  <2>5. SquareOf(mat) = Matrix!Square(n) BY <2>3 DEF SquareOf, Below, Matrix!Square, Matrix!Below
  <2>6. Scalars = Matrix!Scalars BY DEF Scalars, Below, Matrix!Scalars
  <2>7. Dense(Completed) \in [Matrix!Square(call[2]) -> Matrix!Scalars]
    BY <1>3, <2>1, <2>4, <2>5, <2>6
  <2> QED BY <2>4, <2>7 DEF Matrix!Init
<1>5. ASSUME NEW f \in Files, NEW bs \in BlockSizes, Readable(f), f.n % bs = 0,
             mat = GetSRMatrixFromCOO(ReadMatrixMarket(f), bs, "rowmajor", -1),
             call = <<"load", f>>
      PROVE  Matrix!Init
  <2>1. IsFile(f) /\ bs \in Nat \ {0} BY Passed
  <2>2. Dense(mat) = Matrix!Content(f) BY <1>5, <2>1, LoadedDense, Passed
  <2>3. Dense(Completed) = Matrix!Content(call[2]) BY <1>3, <1>5, <2>2
  <2> QED BY <1>5, <2>3 DEF Matrix!Init
<1> QED BY <1>4, <1>5 DEF Init

\* What is derived from the matrix leaves it and the last call alone.
LEMMA DeriveStep ==
  ASSUME MatrixInv, UNCHANGED <<mat, job, call>>
  PROVE  UNCHANGED <<Dense(Completed), call>>
<1>1. CompletedOf(mat', job') = CompletedOf(mat, job) OBVIOUS
<1> QED BY <1>1, CompletedIs, DenseNext

LEMMA NextDense ==
  MatrixInv /\ OrderPassed /\ [Next]_vars => [Matrix!Next]_<<Dense(Completed), call>>
<1> SUFFICES ASSUME MatrixInv, OrderPassed, [Next]_vars
             PROVE  Matrix!Next \/ UNCHANGED <<Dense(Completed), call>>
  OBVIOUS
<1>1. CASE \E s \in Structures, garbage \in {1, 2} : SetStructure(s, garbage)
  BY <1>1, StructureStep
<1>2. CASE \E f \in Files, bs \in BlockSizes, stor \in {"rowmajor", "colmajor"} : Load(f, bs, stor)
  BY <1>2, LoadStep
<1>3. CASE \E k \in Blocks : SubmitBlock(k) BY <1>3, SubmitStep
<1>4. CASE \E t \in Threads, k \in Blocks : UpdateBlock(t, k) \/ UpdateDiagBlock(t, k)
  BY <1>4, UpdateStep
<1>5. CASE \E t \in Threads : Add(t) BY <1>5, AddStep
<1>6. CASE SetAllZero BY <1>6, ZeroStep
<1>7. CASE SetDiagZero BY <1>7, DiagonalStep
<1>8. CASE \E factor \in Factors : ScaleAll(factor) BY <1>8, ScaleStep
<1>9. CASE \E o \in Orderings : ReorderScale(o) BY <1>9, ReorderStep
<1>10. CASE Restore BY <1>10, RestoreStep
<1>11. CASE Derive
  <2>1. UNCHANGED <<mat, job, call>> BY <1>11 DEF Derive, Called
  <2> QED BY <2>1, DeriveStep
<1>12. CASE UNCHANGED vars
  <2>1. UNCHANGED <<mat, job, call>> BY <1>12 DEF vars
  <2> QED BY <2>1, DeriveStep
<1> QED
  BY <1>1, <1>2, <1>3, <1>4, <1>5, <1>6, <1>7, <1>8, <1>9, <1>10, <1>11, <1>12 DEF Next

(***************************************************************************)
(* The block matrix implements the dense one: every call is one step of    *)
(* DenseMatrix, on exactly the entries it names, for any block size, any   *)
(* file, any reordering and scaling, and however the additions of the      *)
(* threads interleave; INVERSE gives back what FORWARD reordered and       *)
(* scaled, also after the matrix was changed in between.                   *)
(***************************************************************************)
THEOREM MatrixImplementsDense == Spec => ImplementsDense
<1>1. Init => Matrix!Init BY InitDense
<1>2. MatrixInv /\ OrderPassed /\ [Next]_vars => [Matrix!Next]_<<Dense(Completed), call>>
  BY NextDense
<1>3. Spec => []MatrixInv /\ []OrderPassed BY MatrixStaysSound, OrderStaysPassed, PTL
<1> QED BY <1>1, <1>2, <1>3, PTL DEF Spec, ImplementsDense, Matrix!Spec

-----------------------------------------------------------------------------
(***************************************************************************)
(* Who frees the arrays of a matrix.                                       *)
(***************************************************************************)
Kinds == {"none", "views", "allocated", "raw view", "triangular"}
Views == [block : MemoryBlocks \cup {0}, owner : BOOLEAN]
Matrices == [kind : Kinds, n : Nat, full : BOOLEAN, counted : BOOLEAN, arr : [Names -> Views]]

StorageTyped ==
  /\ heap \subseteq MemoryBlocks
  /\ obj \in [Objects -> Matrices]

(***************************************************************************)
(* A matrix made of ArrayViews owns its row ends only if it is triangular, *)
(* and so they can be wrapped anew; a raw matrix that is freed whole has   *)
(* them in the block of the row starts.                                    *)
(***************************************************************************)
Shape(m) ==
  /\ m.kind = "views" /\ m.full => ~m.arr.browendptr.owner
  /\ m.kind = "allocated" => /\ m.full
                             /\ m.arr.browendptr.block \in {0, m.arr.browptr.block}

\* What EndsFollow says of one matrix.
EndsExist(m) ==
  m.n > 0 /\ m.arr.browptr.block \in FreedBy(m) =>
    m.arr.browendptr.block \in {m.arr.browptr.block} \cup FreedBy(m)

\* The blocks are shared out between the objects, completely if no CSR matrix
\* is made of a raw one.
SharedOut ==
  /\ \A o \in Objects : FreedBy(obj[o]) \subseteq heap
  /\ \A o, p \in Objects : o # p => FreedBy(obj[o]) \cap FreedBy(obj[p]) = {}
  /\ 1 \notin RawBlockSizes => \A b \in heap : \E o \in Objects : b \in FreedBy(obj[o])

StorageInv == /\ StorageTyped /\ SharedOut
              /\ \A o \in Objects : Shape(obj[o]) /\ EndsExist(obj[o])

\* A step keeps all this, and leaves no block to nobody unless it is the one that may.
Tidy == Leaked' \subseteq Leaked \/ \E o, p \in Objects : FromRawCSR(o, p)
Kept == StorageInv' /\ Tidy
-----------------------------------------------------------------------------
(***************************************************************************)
(* Blocks, views and what matrices free.                                   *)
(***************************************************************************)
LEMMA BlockFacts == 0 \notin MemoryBlocks /\ Null \in Views
BY SizesAssumption DEF MemoryBlocks, Null, Views

LEMMA ViewTypes ==
  ASSUME NEW b \in MemoryBlocks \cup {0}
  PROVE  /\ Own(b) \in Views /\ Own(b).block = b /\ Own(b).owner
         /\ Wrap(b) \in Views /\ Wrap(b).block = b /\ ~Wrap(b).owner
BY DEF Own, Wrap, Views

LEMMA BehindFacts ==
  ASSUME NEW n \in Nat, NEW b \in MemoryBlocks
  PROVE  /\ Behind(n, b) \in Views /\ ~Behind(n, b).owner
         /\ Behind(n, b).block \in {0, b}
         /\ n > 0 => Behind(n, b).block = b
BY BlockFacts, ViewTypes DEF Behind, Null

LEMMA NewBlocks ==
  ASSUME NEW p \in FreeBlock(1), NEW c \in FreeBlock(2)
  PROVE  p \in MemoryBlocks \ heap /\ c \in MemoryBlocks \ heap /\ p # c
BY DEF FreeBlock

\* What ArrayViews free, and that the other kinds free.
LEMMA FreedByViews ==
  ASSUME NEW m \in Matrices, m.kind = "views"
  PROVE  FreedBy(m) = {m.arr[a].block : a \in {c \in Names : m.arr[c].owner}} \ {0}
BY DEF FreedBy

LEMMA FreedByAllocated ==
  ASSUME NEW m \in Matrices, m.kind = "allocated", m.full
  PROVE  FreedBy(m) = {m.arr.browptr.block, m.arr.content.block} \ {0}
BY DEF FreedBy

LEMMA FreedByTriangular ==
  ASSUME NEW m \in Matrices, m.kind = "triangular"
  PROVE  FreedBy(m) = {m.arr.browptr.block, m.arr.browendptr.block} \ {0}
BY DEF FreedBy

LEMMA FreedByOthers ==
  ASSUME NEW m \in Matrices, m.kind \in {"none", "raw view"}
  PROVE  FreedBy(m) = {}
BY DEF FreedBy

LEMMA FreedByWrapped ==
  ASSUME NEW m \in Matrices, \A a \in Names : ~m.arr[a].owner,
         m.kind \in {"views", "none", "raw view"}
  PROVE  FreedBy(m) = {}
<1>1. CASE m.kind = "views"
  <2>1. {c \in Names : m.arr[c].owner} = {} OBVIOUS
  <2> QED BY <1>1, <2>1, FreedByViews
<1>2. CASE m.kind \in {"none", "raw view"} BY <1>2, FreedByOthers
<1> QED BY <1>1, <1>2

LEMMA NothingType ==
  /\ Nothing \in Matrices /\ Nothing.kind = "none" /\ Nothing.n = 0
  /\ \A a \in Names : Nothing.arr[a] = Null
  /\ FreedBy(Nothing) = {} /\ Shape(Nothing) /\ EndsExist(Nothing)
<1>1. /\ Nothing \in Matrices /\ Nothing.kind = "none" /\ Nothing.n = 0
      /\ \A a \in Names : Nothing.arr[a] = Null
  <2>1. "none" \in Kinds /\ 0 \in Nat /\ TRUE \in BOOLEAN BY DEF Kinds
  <2>2. /\ Nothing \in Matrices /\ Nothing.kind = "none" /\ Nothing.n = 0
        /\ Nothing.arr.browptr = Null /\ Nothing.arr.content = Null /\ Nothing.arr.browendptr = Null
    BY <2>1, BlockFacts DEF Nothing, MatrixWith, Matrices, Names
  <2> QED BY <2>2 DEF Names
<1>2. FreedBy(Nothing) = {} BY <1>1, FreedByOthers
<1> QED BY <1>1, <1>2 DEF Shape, EndsExist

\* Owning start pointers and content, with ends inside of the starts or none.
LEMMA OwningViews ==
  ASSUME NEW n \in Nat, NEW p \in MemoryBlocks, NEW c \in MemoryBlocks, NEW e \in Views, ~e.owner,
         n > 0 => e.block = p
  PROVE  LET m == MatrixWith("views", n, TRUE, Own(p), Own(c), e)
         IN  m \in Matrices /\ FreedBy(m) = {p, c} /\ Shape(m) /\ EndsExist(m)
<1> DEFINE m == MatrixWith("views", n, TRUE, Own(p), Own(c), e)
<1>0. Own(p) \in Views /\ Own(c) \in Views BY ViewTypes
<1>1. /\ m \in Matrices /\ m.kind = "views" /\ m.n = n /\ m.full
      /\ m.arr.browptr = Own(p) /\ m.arr.content = Own(c) /\ m.arr.browendptr = e
  BY <1>0 DEF MatrixWith, Matrices, Names, Kinds
<1> HIDE DEF m
<1>2. {a \in Names : m.arr[a].owner} = {"browptr", "content"}
  BY <1>1, ViewTypes DEF Names
<1>3. FreedBy(m) = {p, c} BY <1>1, <1>2, FreedByViews, ViewTypes, BlockFacts
<1>4. Shape(m) /\ EndsExist(m) BY <1>1, <1>3, ViewTypes DEF Shape, EndsExist
<1> QED BY <1>1, <1>3, <1>4 DEF m

\* What a matrix counts is nothing that it frees.
LEMMA Remarked ==
  ASSUME NEW m \in Matrices, Shape(m), EndsExist(m), NEW w \in Matrices,
         w.kind = m.kind, w.n = m.n, w.full = m.full, w.arr = m.arr
  PROVE  FreedBy(w) = FreedBy(m) /\ Shape(w) /\ EndsExist(w)
<1>1. FreedBy(w) = FreedBy(m) BY DEF FreedBy
<1> QED BY <1>1 DEF Shape, EndsExist

LEMMA AllocatedRaw ==
  ASSUME NEW n \in Nat, NEW p \in MemoryBlocks, NEW c \in MemoryBlocks
  PROVE  LET m == MatrixWith("allocated", n, TRUE, Wrap(p), Wrap(c), Behind(n, p))
         IN  m \in Matrices /\ FreedBy(m) = {p, c} /\ Shape(m) /\ EndsExist(m)
<1> DEFINE m == MatrixWith("allocated", n, TRUE, Wrap(p), Wrap(c), Behind(n, p))
<1>0. /\ Wrap(p) \in Views /\ Wrap(c) \in Views /\ Behind(n, p) \in Views
  BY ViewTypes, BehindFacts
<1>1. /\ m \in Matrices /\ m.kind = "allocated" /\ m.n = n /\ m.full
      /\ m.arr.browptr = Wrap(p) /\ m.arr.content = Wrap(c) /\ m.arr.browendptr = Behind(n, p)
  BY <1>0 DEF MatrixWith, Matrices, Names, Kinds
<1> HIDE DEF m
<1>2. FreedBy(m) = {p, c} BY <1>1, FreedByAllocated, ViewTypes, BlockFacts
<1>3. Shape(m) /\ EndsExist(m) BY <1>1, <1>2, ViewTypes, BehindFacts DEF Shape, EndsExist
<1> QED BY <1>1, <1>2, <1>3 DEF m

\* All of it wrapped.
LEMMA WrappedMatrix ==
  ASSUME NEW m \in Matrices, NEW kind \in {"views", "raw view"}
  PROVE  LET w == [m EXCEPT !.kind = kind, !.arr = Wrapped(@)]
         IN  w \in Matrices /\ w.kind = kind /\ FreedBy(w) = {} /\ Shape(w) /\ EndsExist(w)
<1> DEFINE w == [m EXCEPT !.kind = kind, !.arr = Wrapped(@)]
           arr == Wrapped(m.arr)
<1>1. /\ arr \in [Names -> Views] /\ \A a \in Names : ~arr[a].owner
  BY ViewTypes DEF Wrapped, Matrices, Views
<1>2. w = [m EXCEPT !.kind = kind, !.arr = arr] OBVIOUS
<1> HIDE DEF arr
<1>3. w \in Matrices /\ w.kind = kind /\ w.arr = arr BY <1>1, <1>2 DEF Matrices, Kinds
<1> HIDE DEF w
<1>4. FreedBy(w) = {} BY <1>1, <1>3, FreedByWrapped
<1>5. Shape(w) /\ EndsExist(w) BY <1>1, <1>3, <1>4 DEF Shape, EndsExist, Names
<1> QED BY <1>3, <1>4, <1>5 DEF w

\* Nothing of it owned.
LEMMA WrappingViews ==
  ASSUME NEW m \in Matrices, m.kind = "views", \A a \in Names : ~m.arr[a].owner
  PROVE  FreedBy(m) = {} /\ Shape(m) /\ EndsExist(m)
<1>1. FreedBy(m) = {} BY FreedByWrapped
<1> QED BY <1>1 DEF Shape, EndsExist, Names
-----------------------------------------------------------------------------
(***************************************************************************)
(* Steps: an object is replaced, or one hands what it frees to another.    *)
(***************************************************************************)
LEMMA Replaced ==
  ASSUME StorageInv, NEW o \in Objects, NEW m \in Matrices, Shape(m), EndsExist(m),
         FreedBy(m) \subseteq MemoryBlocks \ heap,
         obj' = [obj EXCEPT ![o] = m],
         heap' = (heap \ FreedBy(obj[o])) \cup FreedBy(m)
  PROVE  Kept
<1>1. /\ obj' \in [Objects -> Matrices] /\ obj'[o] = m
      /\ \A p \in Objects \ {o} : obj'[p] = obj[p]
  BY DEF StorageInv, StorageTyped
<1>2. FreedBy(obj[o]) \subseteq heap BY DEF StorageInv, SharedOut
<1>3. StorageTyped' BY <1>1, <1>2 DEF StorageInv, StorageTyped, Matrices, Views, Kinds
<1>4. \A p \in Objects : FreedBy(obj'[p]) \subseteq heap'
  BY <1>1, <1>2 DEF StorageInv, StorageTyped, SharedOut
<1>5. ASSUME NEW p \in Objects, NEW q \in Objects, p # q
      PROVE  FreedBy(obj'[p]) \cap FreedBy(obj'[q]) = {}
  <2>1. \A r \in Objects \ {o} : FreedBy(obj[r]) \cap FreedBy(m) = {}
    BY DEF StorageInv, SharedOut
  <2> QED BY <1>1, <1>5, <2>1 DEF StorageInv, SharedOut
<1>6. ASSUME 1 \notin RawBlockSizes, NEW b \in heap'
      PROVE  \E p \in Objects : b \in FreedBy(obj'[p])
  <2>1. CASE b \in FreedBy(m) BY <1>1, <2>1
  <2>2. CASE b \notin FreedBy(m)
    <3>1. b \in heap /\ b \notin FreedBy(obj[o]) BY <1>6, <2>2
    <3>2. PICK p \in Objects : b \in FreedBy(obj[p]) BY <1>6, <3>1 DEF StorageInv, SharedOut
    <3> QED BY <1>1, <3>1, <3>2
  <2> QED BY <2>1, <2>2
<1>7. SharedOut' BY <1>4, <1>5, <1>6 DEF SharedOut
<1>8. \A p \in Objects : Shape(obj'[p]) /\ EndsExist(obj'[p]) BY <1>1 DEF StorageInv
<1>9. ASSUME NEW b \in Leaked' PROVE b \in Leaked
  <2>1. b \in heap' /\ \A p \in Objects : b \notin FreedBy(obj'[p]) BY <1>9 DEF Leaked
  <2>2. b \in heap /\ b \notin FreedBy(obj[o]) BY <1>1, <2>1
  <2>3. \A p \in Objects : b \notin FreedBy(obj[p]) BY <1>1, <2>1, <2>2
  <2> QED BY <2>2, <2>3 DEF Leaked
<1>10. Tidy BY <1>9 DEF Tidy
<1> QED BY <1>3, <1>7, <1>8, <1>10 DEF StorageInv, Kept

LEMMA HandedOver ==
  ASSUME StorageInv, NEW o \in Objects, NEW p \in Objects, o # p, FreedBy(obj[o]) = {},
         NEW m \in Matrices, Shape(m), EndsExist(m),
         NEW r \in Matrices, Shape(r), EndsExist(r), FreedBy(r) = {},
         obj' = [obj EXCEPT ![o] = m, ![p] = r],
         heap' = heap,
         \/ FreedBy(m) = FreedBy(obj[p])
         \/ FreedBy(m) = {} /\ 1 \in RawBlockSizes /\ \E q, s \in Objects : FromRawCSR(q, s)
  PROVE  Kept
<1>1. /\ obj' \in [Objects -> Matrices] /\ obj'[o] = m /\ obj'[p] = r
      /\ \A q \in Objects \ {o, p} : obj'[q] = obj[q]
  BY DEF StorageInv, StorageTyped
<1>2. FreedBy(obj[p]) \subseteq heap BY DEF StorageInv, SharedOut
<1>3. StorageTyped' BY <1>1, <1>2 DEF StorageInv, StorageTyped, Matrices, Views, Kinds
<1>4. \A q \in Objects \ {p} : FreedBy(obj[q]) \cap FreedBy(obj[p]) = {}
  BY DEF StorageInv, SharedOut
<1>5. FreedBy(m) \subseteq FreedBy(obj[p]) OBVIOUS
<1>6. \A q \in Objects : FreedBy(obj'[q]) \subseteq heap'
  BY <1>1, <1>2, <1>4 DEF StorageInv, SharedOut
<1>7. ASSUME NEW q \in Objects, NEW s \in Objects, q # s
      PROVE  FreedBy(obj'[q]) \cap FreedBy(obj'[s]) = {}
  BY <1>1, <1>4, <1>5, <1>7 DEF StorageInv, SharedOut
<1>8. ASSUME 1 \notin RawBlockSizes, NEW b \in heap'
      PROVE  \E q \in Objects : b \in FreedBy(obj'[q])
  <2>1. PICK q \in Objects : b \in FreedBy(obj[q]) BY <1>8 DEF StorageInv, SharedOut
  <2> QED BY <1>1, <1>8, <2>1
<1>9. SharedOut' BY <1>6, <1>7, <1>8 DEF SharedOut
<1>10. \A q \in Objects : Shape(obj'[q]) /\ EndsExist(obj'[q]) BY <1>1 DEF StorageInv
<1>11. ASSUME FreedBy(m) = FreedBy(obj[p]), NEW b \in Leaked' PROVE b \in Leaked
  <2>1. b \in heap /\ \A q \in Objects : b \notin FreedBy(obj'[q]) BY <1>11 DEF Leaked
  <2>2. \A q \in Objects : b \notin FreedBy(obj[q]) BY <1>1, <1>11, <2>1
  <2> QED BY <2>1, <2>2 DEF Leaked
<1>12. Tidy BY <1>11 DEF Tidy
<1> QED BY <1>3, <1>9, <1>10, <1>12 DEF StorageInv, Kept

\* Make, into an object that holds nothing.
LEMMA MadeAnew ==
  ASSUME StorageInv, NEW o \in Objects, Unused(o),
         NEW m \in Matrices, Shape(m), EndsExist(m),
         NEW new \in SUBSET (MemoryBlocks \ heap), FreedBy(m) = new, Make(o, m, new)
  PROVE  Kept
<1>1. FreedBy(obj[o]) = {} BY FreedByOthers DEF Unused, StorageInv, StorageTyped
<1>2. /\ obj' = [obj EXCEPT ![o] = m]
      /\ heap' = (heap \ FreedBy(obj[o])) \cup FreedBy(m)
  BY <1>1 DEF Make
<1> QED BY <1>2, Replaced

LEMMA AllocateRawKeeps ==
  ASSUME StorageInv, NEW o \in Objects, NEW n \in RowNumbers, AllocateRaw(o, n) PROVE Kept
<1>1. PICK p \in FreeBlock(1), c \in FreeBlock(2) :
        Make(o, MatrixWith("allocated", n, TRUE, Wrap(p), Wrap(c), Behind(n, p)), {p, c})
  BY DEF AllocateRaw
<1>2. p \in MemoryBlocks \ heap /\ c \in MemoryBlocks \ heap /\ n \in Nat /\ Unused(o)
  BY NewBlocks, SizesAssumption DEF AllocateRaw
<1> DEFINE m == MatrixWith("allocated", n, TRUE, Wrap(p), Wrap(c), Behind(n, p))
<1>3. m \in Matrices /\ FreedBy(m) = {p, c} /\ Shape(m) /\ EndsExist(m)
  BY <1>2, AllocatedRaw
<1>4. Make(o, m, {p, c}) BY <1>1
<1> HIDE DEF m
<1> QED BY <1>2, <1>3, <1>4, MadeAnew

LEMMA DefaultConstructKeeps ==
  ASSUME StorageInv, NEW o \in Objects, DefaultConstruct(o) PROVE Kept
<1> DEFINE m == [Nothing EXCEPT !.kind = "views"]
<1>1. m \in Matrices /\ m.n = 0 /\ m.kind = "views" /\ \A a \in Names : ~m.arr[a].owner
  <2>1. "views" \in Kinds /\ ~Null.owner BY DEF Kinds, Null
  <2> QED BY <2>1, NothingType DEF Matrices
<1>2. Unused(o) /\ Make(o, m, {}) BY DEF DefaultConstruct
<1> HIDE DEF m
<1>3. m.kind \in {"views", "none", "raw view"} BY <1>1
<1>4. FreedBy(m) = {} BY <1>1, <1>3, FreedByWrapped
<1>5. Shape(m) /\ EndsExist(m) BY <1>1 DEF Shape, EndsExist, Names
<1> QED BY <1>1, <1>2, <1>4, <1>5, MadeAnew

LEMMA SetStructureKeeps ==
  ASSUME StorageInv, NEW o \in Objects, NEW n \in RowNumbers, SetStructureArrays(o, n) PROVE Kept
<1> DEFINE ends(p) == IF n > 0 THEN Behind(n, p) ELSE obj[o].arr.browendptr
<1>1. PICK p \in FreeBlock(1), c \in FreeBlock(2) : ResizedTo(o, n, p, c, ends(p))
  BY DEF SetStructureArrays
<1>2. /\ p \in MemoryBlocks \ heap /\ c \in MemoryBlocks \ heap /\ n \in Nat
      /\ obj[o] \in Matrices /\ obj[o].kind = "views" /\ obj[o].full /\ Shape(obj[o])
  BY NewBlocks, SizesAssumption DEF SetStructureArrays, IsView, StorageInv, StorageTyped
<1>3. ~obj[o].arr.browendptr.owner /\ obj[o].arr.browendptr \in Views
  BY <1>2 DEF Shape, Matrices, Names
<1> DEFINE e == ends(p)
           m == MatrixWith("views", n, TRUE, Own(p), Own(c), e)
<1>4. e \in Views /\ ~e.owner /\ (n > 0 => e.block = p)
  BY <1>2, <1>3, BehindFacts
<1>5. m \in Matrices /\ FreedBy(m) = {p, c} /\ Shape(m) /\ EndsExist(m)
  <2> HIDE DEF e
  <2> QED BY <1>2, <1>4, OwningViews
<1>6. heap \ {obj[o].arr[a].block : a \in {d \in {"browptr", "content"} :
                                             obj[o].arr[d].owner}}
        = heap \ FreedBy(obj[o])
  <2>1. FreedBy(obj[o]) = {obj[o].arr[a].block : a \in {d \in Names : obj[o].arr[d].owner}} \ {0}
    BY <1>2, FreedByViews
  <2>2. {d \in Names : obj[o].arr[d].owner} = {d \in {"browptr", "content"} : obj[o].arr[d].owner}
    BY <1>3 DEF Names
  <2>3. 0 \notin heap BY BlockFacts DEF StorageInv, StorageTyped
  <2> QED BY <2>1, <2>2, <2>3
<1>7. /\ obj' = [obj EXCEPT ![o] = m]
      /\ heap' = (heap \ FreedBy(obj[o])) \cup FreedBy(m)
  BY <1>1, <1>5, <1>6 DEF ResizedTo
<1>8. FreedBy(m) \subseteq MemoryBlocks \ heap BY <1>2, <1>5
<1> HIDE DEF m
<1> QED BY <1>5, <1>7, <1>8, Replaced

\* A structure for an object that holds nothing; one of no rows for block matrices.
LEMMA ConstructKeeps ==
  ASSUME StorageInv, NEW o \in Objects,
         NEW n \in RowNumbers \cup {0}, ConstructCSR(o, n) \/ ConstructBlock(o)
  PROVE  Kept
<1> DEFINE csr(p, c) == MatrixWith("views", n, TRUE, Own(p), Own(c), Behind(n, p))
           block(p, c) == MatrixWith("views", 0, TRUE, Own(p), Own(c), Null)
<1>1. PICK p \in FreeBlock(1), c \in FreeBlock(2) :
        Make(o, csr(p, c), {p, c}) \/ Make(o, block(p, c), {p, c})
  BY DEF ConstructCSR, ConstructBlock
<1>2. p \in MemoryBlocks \ heap /\ c \in MemoryBlocks \ heap /\ n \in Nat /\ Unused(o)
  <2>1. p \in MemoryBlocks \ heap /\ c \in MemoryBlocks \ heap BY NewBlocks
  <2>2. n \in Nat BY SizesAssumption
  <2>3. Unused(o) BY DEF ConstructCSR, ConstructBlock
  <2> QED BY <2>1, <2>2, <2>3
<1>3. Behind(n, p) \in Views /\ ~Behind(n, p).owner /\ (n > 0 => Behind(n, p).block = p)
  BY <1>2, BehindFacts
<1>4. CASE Make(o, csr(p, c), {p, c})
  <2> DEFINE m == csr(p, c)
  <2>1. m \in Matrices /\ FreedBy(m) = {p, c} /\ Shape(m) /\ EndsExist(m)
    BY <1>2, <1>3, OwningViews
  <2>2. Make(o, m, {p, c}) BY <1>4
  <2> HIDE DEF m
  <2> QED BY <1>2, <2>1, <2>2, MadeAnew
<1>5. CASE Make(o, block(p, c), {p, c})
  <2> DEFINE m == block(p, c)
  <2>1. Null \in Views /\ ~Null.owner /\ 0 \in Nat /\ (0 > 0 => Null.block = p)
    BY BlockFacts DEF Null
  <2>2. m \in Matrices /\ FreedBy(m) = {p, c} /\ Shape(m) /\ EndsExist(m)
    BY <1>2, <2>1, OwningViews
  <2>3. Make(o, m, {p, c}) BY <1>5
  <2> HIDE DEF m
  <2> QED BY <1>2, <2>2, <2>3, MadeAnew
<1> QED BY <1>1, <1>4, <1>5

LEMMA DeepCopyKeeps ==
  ASSUME StorageInv, NEW o \in Objects, NEW p \in Objects, DeepCopy(o, p) PROVE Kept
<1> DEFINE n == obj[p].n
<1>1. PICK b \in FreeBlock(1), c \in FreeBlock(2) :
        Make(o, MatrixWith("views", n, TRUE, Own(b), Own(c), Behind(n, b)), {b, c})
  BY DEF DeepCopy
<1>2. b \in MemoryBlocks \ heap /\ c \in MemoryBlocks \ heap /\ n \in Nat /\ Unused(o)
  BY NewBlocks DEF DeepCopy, StorageInv, StorageTyped, Matrices
<1> HIDE DEF n
<1>3. Behind(n, b) \in Views /\ ~Behind(n, b).owner /\ (n > 0 => Behind(n, b).block = b)
  BY <1>2, BehindFacts
<1> DEFINE m == MatrixWith("views", n, TRUE, Own(b), Own(c), Behind(n, b))
<1>4. m \in Matrices /\ FreedBy(m) = {b, c} /\ Shape(m) /\ EndsExist(m)
  BY <1>2, <1>3, OwningViews
<1>5. Make(o, m, {b, c}) BY <1>1
<1> HIDE DEF m
<1> QED BY <1>2, <1>4, <1>5, MadeAnew

LEMMA WrapKeeps ==
  ASSUME StorageInv, NEW o \in Objects, NEW p \in Objects, WrapArrays(o, p) \/ CreateRawView(o, p)
  PROVE  Kept
<1>1. obj[p] \in Matrices /\ Unused(o) BY DEF StorageInv, StorageTyped, WrapArrays, CreateRawView
<1>2. CASE CreateRawView(o, p)
  <2>1. Make(o, [obj[p] EXCEPT !.kind = "raw view", !.arr = Wrapped(@)], {})
    BY <1>2 DEF CreateRawView
  <2> QED BY <1>1, <2>1, WrappedMatrix, MadeAnew
<1>3. CASE WrapArrays(o, p)
  <2>1. Make(o, [obj[p] EXCEPT !.kind = "views", !.arr = Wrapped(@)], {})
    BY <1>3 DEF WrapArrays
  <2> QED BY <1>1, <2>1, WrappedMatrix, MadeAnew
<1> QED BY <1>2, <1>3

LEMMA WrapFourKeeps ==
  ASSUME StorageInv, NEW o \in Objects, NEW p \in Objects, WrapFourBlock(o, p) \/ WrapFourCSR(o, p)
  PROVE  Kept
<1> DEFINE n == obj[p].n
           s == obj[p].arr.browptr.block
           c == obj[p].arr.content.block
           m(e, k) == [MatrixWith("views", n, TRUE, Wrap(s), Wrap(c), e) EXCEPT !.counted = k]
<1>1. PICK e \in {Behind(n, s), Wrap(s)}, k \in BOOLEAN : Make(o, m(e, k), {})
  BY DEF WrapFourBlock, WrapFourCSR, WrapFour
<1>2. /\ n \in Nat /\ s \in MemoryBlocks \cup {0} /\ c \in MemoryBlocks \cup {0} /\ Unused(o)
  BY DEF StorageInv, StorageTyped, Matrices, Views, Names, WrapFourBlock, WrapFourCSR, WrapFour
<1> HIDE DEF n, s, c
<1>3. /\ Wrap(s) \in Views /\ ~Wrap(s).owner /\ Wrap(c) \in Views /\ ~Wrap(c).owner
      /\ e \in Views /\ ~e.owner
  <2>1. e = Null \/ e = Wrap(s) BY DEF Behind
  <2>2. /\ Wrap(s) \in Views /\ ~Wrap(s).owner /\ Wrap(c) \in Views /\ ~Wrap(c).owner
    BY <1>2, ViewTypes
  <2>3. Null \in Views /\ ~Null.owner BY BlockFacts DEF Null
  <2> QED BY <2>1, <2>2, <2>3
<1> DEFINE f == MatrixWith("views", n, TRUE, Wrap(s), Wrap(c), e)
           w == [f EXCEPT !.counted = k]
<1>5. Make(o, w, {}) BY <1>1
<1>9. /\ f \in Matrices /\ f.kind = "views"
      /\ f.arr.browptr = Wrap(s) /\ f.arr.content = Wrap(c) /\ f.arr.browendptr = e
  BY <1>2, <1>3 DEF MatrixWith, Matrices, Names, Kinds
<1> HIDE DEF f
<1>4. /\ w \in Matrices /\ w.kind = "views"
      /\ w.arr.browptr = Wrap(s) /\ w.arr.content = Wrap(c) /\ w.arr.browendptr = e
  BY <1>9 DEF Matrices
<1> HIDE DEF w
<1>6. \A a \in Names : ~w.arr[a].owner BY <1>3, <1>4 DEF Names
<1>7. FreedBy(w) = {} /\ Shape(w) /\ EndsExist(w) BY <1>4, <1>6, WrappingViews
<1> QED BY <1>2, <1>4, <1>5, <1>7, MadeAnew

LEMMA MoveKeeps ==
  ASSUME StorageInv, NEW o \in Objects, NEW p \in Objects, Move(o, p) \/ MoveToConst(o, p)
  PROVE  Kept
<1>1. /\ obj[o] \in Matrices /\ obj[p] \in Matrices /\ o # p
      /\ obj[o].kind = "none" /\ obj[p].kind = "views"
      /\ Shape(obj[p]) /\ EndsExist(obj[p])
  BY DEF StorageInv, StorageTyped, Move, MoveToConst, Unused, IsView
<1>2. FreedBy(obj[o]) = {} BY <1>1, FreedByOthers
<1>3. PICK r \in Matrices :
        /\ r.kind = "views" /\ \A a \in Names : r.arr[a] = Null
        /\ obj' = [obj EXCEPT ![o] = obj[p], ![p] = r]
  <2>1. CASE Move(o, p)
    <3> DEFINE r == [obj[p] EXCEPT !.arr = [a \in Names |-> Null]]
    <3>1. r \in Matrices /\ r.kind = "views" /\ \A a \in Names : r.arr[a] = Null
      BY <1>1, BlockFacts DEF Matrices
    <3>2. obj' = [obj EXCEPT ![o] = obj[p], ![p] = r]
      BY <1>1, <2>1 DEF Move, StorageInv, StorageTyped
    <3> QED BY <3>1, <3>2
  <2>2. CASE MoveToConst(o, p)
    <3> DEFINE r == [Nothing EXCEPT !.kind = "views"]
    <3>1. r \in Matrices /\ r.kind = "views" /\ \A a \in Names : r.arr[a] = Null
      <4>1. "views" \in Kinds BY DEF Kinds
      <4> QED BY <4>1, NothingType DEF Matrices
    <3> QED BY <2>2, <3>1 DEF MoveToConst
  <2> QED BY <2>1, <2>2
<1>4. FreedBy(r) = {} /\ Shape(r) /\ EndsExist(r)
  <2>1. \A a \in Names : ~r.arr[a].owner BY <1>3 DEF Null
  <2>2. FreedBy(r) = {} BY <1>3, <2>1, FreedByWrapped
  <2> QED BY <1>3, <2>1, <2>2 DEF Shape, EndsExist, Names
<1>5. heap' = heap BY DEF Move, MoveToConst
<1> DEFINE m == obj[p]
<1>6. /\ m \in Matrices /\ Shape(m) /\ EndsExist(m) /\ FreedBy(m) = FreedBy(obj[p])
      /\ obj' = [obj EXCEPT ![o] = m, ![p] = r]
  BY <1>1, <1>3
<1> HIDE DEF m
<1> QED BY <1>1, <1>2, <1>4, <1>5, <1>6, HandedOver

LEMMA FromRawKeeps ==
  ASSUME StorageInv, NEW o \in Objects, NEW p \in Objects, FromRawBlock(o, p) \/ FromRawCSR(o, p)
  PROVE  Kept
<1> DEFINE n == obj[p].n
           s == obj[p].arr.browptr.block
           c == obj[p].arr.content.block
           block == MatrixWith("views", n, obj[p].full, Own(s), Own(c), Behind(n, s))
           csr == MatrixWith("views", n, obj[p].full, Wrap(s), Wrap(c), Wrap(s))
<1>1. /\ obj[o] \in Matrices /\ obj[p] \in Matrices /\ o # p /\ Unused(o)
      /\ obj[o].kind = "none" /\ obj[p].kind = "allocated" /\ heap' = heap
      /\ Shape(obj[p]) /\ EndsExist(obj[p])
  BY DEF StorageInv, StorageTyped, FromRawBlock, FromRawCSR, Nulling, Unused
<1>2. FreedBy(obj[o]) = {} BY <1>1, FreedByOthers
<1>3. /\ obj[p].full /\ FreedBy(obj[p]) = {s, c} \ {0}
      /\ n \in Nat /\ s \in MemoryBlocks \cup {0} /\ c \in MemoryBlocks \cup {0}
  BY <1>1, FreedByAllocated DEF Shape, Matrices, Views, Names
<1>4. FromRawBlock(o, p) => obj' = [obj EXCEPT ![o] = block, ![p] = Nothing]
  BY DEF FromRawBlock, Nulling
<1>5. FromRawCSR(o, p) => 1 \in RawBlockSizes /\ obj' = [obj EXCEPT ![o] = csr, ![p] = Nothing]
  BY DEF FromRawCSR, Nulling
<1> HIDE DEF n, s, c
<1>6. /\ Own(s) \in Views /\ Own(c) \in Views /\ Wrap(s) \in Views /\ Wrap(c) \in Views
      /\ Behind(n, s) \in Views /\ ~Behind(n, s).owner /\ (n > 0 => Behind(n, s).block = s)
      /\ Own(s).block = s /\ Own(s).owner /\ Own(c).block = c /\ Own(c).owner
      /\ ~Wrap(s).owner /\ ~Wrap(c).owner
  BY <1>3, ViewTypes, BlockFacts DEF Behind, Null
<1>7. CASE FromRawBlock(o, p)
  <2>1. /\ block \in Matrices /\ block.kind = "views" /\ block.n = n /\ block.full
        /\ block.arr.browptr = Own(s) /\ block.arr.content = Own(c)
        /\ block.arr.browendptr = Behind(n, s)
    BY <1>3, <1>6 DEF MatrixWith, Matrices, Names, Kinds
  <2>2. obj' = [obj EXCEPT ![o] = block, ![p] = Nothing] BY <1>4, <1>7
  <2> HIDE DEF block
  <2>3. {a \in Names : block.arr[a].owner} = {"browptr", "content"}
    BY <1>6, <2>1 DEF Names
  <2>4. FreedBy(block) = {s, c} \ {0} BY <1>6, <2>1, <2>3, FreedByViews
  <2>6. FreedBy(block) = FreedBy(obj[p]) BY <1>3, <2>4
  <2>5. Shape(block) /\ EndsExist(block) BY <1>6, <2>1 DEF Shape, EndsExist
  <2> QED BY <1>1, <1>2, <2>1, <2>2, <2>5, <2>6, NothingType, HandedOver
<1>8. CASE FromRawCSR(o, p)
  <2>1. /\ csr \in Matrices /\ csr.kind = "views"
        /\ csr.arr.browptr = Wrap(s) /\ csr.arr.content = Wrap(c) /\ csr.arr.browendptr = Wrap(s)
    BY <1>3, <1>6 DEF MatrixWith, Matrices, Names, Kinds
  <2>2. 1 \in RawBlockSizes /\ obj' = [obj EXCEPT ![o] = csr, ![p] = Nothing] BY <1>5, <1>8
  <2> HIDE DEF csr
  <2>3. \A a \in Names : ~csr.arr[a].owner BY <1>6, <2>1 DEF Names
  <2>4. FreedBy(csr) = {} /\ Shape(csr) /\ EndsExist(csr) BY <2>1, <2>3, WrappingViews
  <2> QED BY <1>1, <1>2, <1>8, <2>1, <2>2, <2>4, NothingType, HandedOver
<1> QED BY <1>7, <1>8

LEMMA TriangularViewKeeps ==
  ASSUME StorageInv, NEW o \in Objects, NEW p \in Objects, TriangularView(o, p)
  PROVE  Kept
<1> DEFINE n == obj[p].n
           c == obj[p].arr.content.block
           views(s, e) == MatrixWith("views", n, FALSE, Own(s), Wrap(c), Own(e))
           raw(s, e) == MatrixWith("triangular", n, FALSE, Wrap(s), Wrap(c), Wrap(e))
<1>1. PICK s \in FreeBlock(1), e \in FreeBlock(2) :
        Make(o, [(IF IsView(p) THEN views(s, e) ELSE raw(s, e)) EXCEPT !.counted = obj[p].counted],
             {s, e})
  BY DEF TriangularView
<1>2. /\ s \in MemoryBlocks \ heap /\ e \in MemoryBlocks \ heap /\ n \in Nat /\ c \in MemoryBlocks \cup {0}
      /\ Unused(o) /\ obj[p].counted \in BOOLEAN
  BY NewBlocks DEF TriangularView, StorageInv, StorageTyped, Matrices, Views, Names
<1> HIDE DEF n, c
<1>3. Own(s) \in Views /\ Own(e) \in Views /\ Wrap(s) \in Views /\ Wrap(c) \in Views
      /\ Wrap(e) \in Views
  BY <1>2, ViewTypes
<1> DEFINE m == IF IsView(p) THEN views(s, e) ELSE raw(s, e)
<1>4. m \in Matrices /\ FreedBy(m) = {s, e} /\ Shape(m) /\ EndsExist(m)
  <2>1. CASE IsView(p)
    <3>1. /\ m \in Matrices /\ m.kind = "views" /\ ~m.full
          /\ m.arr.browptr = Own(s) /\ m.arr.content = Wrap(c) /\ m.arr.browendptr = Own(e)
      BY <1>2, <1>3, <2>1 DEF MatrixWith, Matrices, Names, Kinds
    <3> HIDE DEF m
    <3>2. {a \in Names : m.arr[a].owner} = {"browptr", "browendptr"}
      BY <1>2, <3>1, ViewTypes DEF Names
    <3>3. FreedBy(m) = {s, e} BY <1>2, <3>1, <3>2, FreedByViews, ViewTypes, BlockFacts
    <3> QED BY <1>2, <3>1, <3>3, ViewTypes DEF Shape, EndsExist
  <2>2. CASE ~IsView(p)
    <3>1. /\ m \in Matrices /\ m.kind = "triangular"
          /\ m.arr.browptr = Wrap(s) /\ m.arr.browendptr = Wrap(e)
      BY <1>2, <1>3, <2>2 DEF MatrixWith, Matrices, Names, Kinds
    <3> HIDE DEF m
    <3>2. FreedBy(m) = {s, e} BY <1>2, <3>1, FreedByTriangular, ViewTypes, BlockFacts
    <3> QED BY <1>2, <3>1, <3>2, ViewTypes DEF Shape, EndsExist
  <2> QED BY <2>1, <2>2
<1> DEFINE w == [m EXCEPT !.counted = obj[p].counted]
<1>5. Make(o, w, {s, e}) BY <1>1
<1> HIDE DEF m
<1>6. w \in Matrices /\ w.kind = m.kind /\ w.n = m.n /\ w.full = m.full /\ w.arr = m.arr
  BY <1>2, <1>4 DEF Matrices
<1> HIDE DEF w
<1>7. FreedBy(w) = {s, e} /\ Shape(w) /\ EndsExist(w) BY <1>4, <1>6, Remarked
<1> QED BY <1>2, <1>5, <1>6, <1>7, MadeAnew

\* A copy of a raw matrix, into an object that holds none or one from before.
LEMMA CopyKeeps ==
  ASSUME StorageInv, NEW o \in Objects, NEW p \in Objects, CopyRaw(o, p) \/ Recompute(o, p)
  PROVE  Kept
<1> DEFINE n == obj[p].n
<1>1. PICK s \in FreeBlock(1), c \in FreeBlock(2) :
        /\ obj' = [obj EXCEPT ![o] = MatrixWith("allocated", n, TRUE, Wrap(s), Wrap(c), Behind(n, s))]
        /\ heap' = (heap \ FreedBy(obj[o])) \cup {s, c}
  <2>1. CASE CopyRaw(o, p)
    <3>1. FreedBy(obj[o]) = {} BY <2>1, FreedByOthers DEF CopyRaw, Unused, StorageInv, StorageTyped
    <3> QED BY <2>1, <3>1 DEF CopyRaw, Make
  <2>2. CASE Recompute(o, p) BY <2>2 DEF Recompute, CopyOver
  <2> QED BY <2>1, <2>2
<1>2. s \in MemoryBlocks \ heap /\ c \in MemoryBlocks \ heap /\ n \in Nat
  BY NewBlocks DEF StorageInv, StorageTyped, Matrices
<1> HIDE DEF n
<1> DEFINE m == MatrixWith("allocated", n, TRUE, Wrap(s), Wrap(c), Behind(n, s))
<1>3. m \in Matrices /\ FreedBy(m) = {s, c} /\ Shape(m) /\ EndsExist(m)
  BY <1>2, AllocatedRaw
<1>4. obj' = [obj EXCEPT ![o] = m] BY <1>1
<1> HIDE DEF m
<1> QED BY <1>1, <1>2, <1>3, <1>4, Replaced

LEMMA DestroyKeeps == ASSUME StorageInv, NEW o \in Objects, Destroy(o) PROVE Kept
<1>1. /\ obj' = [obj EXCEPT ![o] = Nothing]
      /\ heap' = (heap \ FreedBy(obj[o])) \cup FreedBy(Nothing)
  BY NothingType DEF Destroy
<1> QED BY <1>1, NothingType, Replaced
-----------------------------------------------------------------------------
LEMMA InitStorage == ASSUME StorageInit PROVE StorageInv
BY NothingType DEF StorageInit, StorageInv, StorageTyped, SharedOut

LEMMA NextStorage == ASSUME StorageInv, [StorageNext]_storageVars PROVE Kept
<1>1. CASE StorageNext
  <2>1. PICK o \in Objects :
          \/ \E n \in RowNumbers : \/ AllocateRaw(o, n) \/ SetStructureArrays(o, n)
                                  \/ ConstructCSR(o, n)
          \/ DefaultConstruct(o) \/ ConstructBlock(o)
          \/ \E p \in Objects :
               \/ DeepCopy(o, p) \/ WrapArrays(o, p) \/ CreateRawView(o, p)
               \/ WrapFourBlock(o, p) \/ WrapFourCSR(o, p)
               \/ Move(o, p) \/ MoveToConst(o, p)
               \/ FromRawBlock(o, p) \/ FromRawCSR(o, p)
               \/ TriangularView(o, p) \/ CopyRaw(o, p) \/ Recompute(o, p)
          \/ Destroy(o)
    BY <1>1 DEF StorageNext
  <2>2. ASSUME NEW n \in RowNumbers, AllocateRaw(o, n) PROVE Kept BY <2>2, AllocateRawKeeps
  <2>3. ASSUME NEW n \in RowNumbers, SetStructureArrays(o, n) PROVE Kept BY <2>3, SetStructureKeeps
  <2>4. CASE DefaultConstruct(o) BY <2>4, DefaultConstructKeeps
  <2>5. ASSUME NEW p \in Objects, DeepCopy(o, p) PROVE Kept BY <2>5, DeepCopyKeeps
  <2>6. ASSUME NEW p \in Objects, WrapArrays(o, p) \/ CreateRawView(o, p) PROVE Kept
    BY <2>6, WrapKeeps
  <2>7. ASSUME NEW p \in Objects, Move(o, p) \/ MoveToConst(o, p) PROVE Kept
    BY <2>7, MoveKeeps
  <2>8. ASSUME NEW p \in Objects, FromRawBlock(o, p) \/ FromRawCSR(o, p) PROVE Kept
    BY <2>8, FromRawKeeps
  <2>9. ASSUME NEW p \in Objects, TriangularView(o, p) PROVE Kept BY <2>9, TriangularViewKeeps
  <2>10. ASSUME NEW p \in Objects, CopyRaw(o, p) \/ Recompute(o, p) PROVE Kept
    BY <2>10, CopyKeeps
  <2>11. CASE Destroy(o) BY <2>11, DestroyKeeps
  <2>12. ASSUME NEW n \in RowNumbers, ConstructCSR(o, n) PROVE Kept BY <2>12, ConstructKeeps
  <2>14. CASE ConstructBlock(o) BY <2>14, ConstructKeeps
  <2>13. ASSUME NEW p \in Objects, WrapFourBlock(o, p) \/ WrapFourCSR(o, p) PROVE Kept
    BY <2>13, WrapFourKeeps
  <2> QED BY <2>1, <2>2, <2>3, <2>4, <2>5, <2>6, <2>7, <2>8, <2>9, <2>10, <2>11, <2>12, <2>13,
           <2>14
<1>2. CASE UNCHANGED storageVars
  <2>1. heap' = heap /\ obj' = obj BY <1>2 DEF storageVars
  <2>2. StorageTyped' BY <2>1 DEF StorageInv, StorageTyped
  <2>3. SharedOut' BY <2>1 DEF StorageInv, SharedOut
  <2>4. \A o \in Objects : Shape(obj'[o]) /\ EndsExist(obj'[o]) BY <2>1 DEF StorageInv
  <2>5. Tidy BY <2>1 DEF Tidy, Leaked
  <2> QED BY <2>2, <2>3, <2>4, <2>5 DEF StorageInv, Kept
<1> QED BY <1>1, <1>2

LEMMA StorageInvHolds == StorageSpec => []StorageInv
<1>1. StorageInit => StorageInv BY InitStorage
<1>2. StorageInv /\ [StorageNext]_storageVars => StorageInv' BY NextStorage DEF Kept
<1> QED BY <1>1, <1>2, PTL DEF StorageSpec

(***************************************************************************)
(* Whatever is copied, wrapped, moved, viewed, taken control of or         *)
(* recomputed: no block is freed by two objects, and nothing is freed that *)
(* is not allocated.                                                       *)
(***************************************************************************)
THEOREM NoSecondFree == StorageSpec => []FreedAtMostOnce
<1>1. StorageInv => FreedAtMostOnce BY DEF StorageInv, SharedOut, FreedAtMostOnce
<1> QED BY <1>1, StorageInvHolds, PTL

(***************************************************************************)
(* Nor is any block left to nobody, by whatever step of whatever object,   *)
(* but where a CSR matrix is made of a raw one.                            *)
(***************************************************************************)
THEOREM OnlyOneWayToLeak == StorageSpec => NothingElseLeaks
<1>1. StorageInv /\ [StorageNext]_storageVars =>
        [Leaked' \subseteq Leaked \/ \E o, p \in Objects : FromRawCSR(o, p)]_storageVars
  BY NextStorage DEF Kept, Tidy
<1> QED BY <1>1, StorageInvHolds, PTL DEF StorageSpec, NothingElseLeaks

(***************************************************************************)
(* If no CSR matrix is made of a raw one, nothing leaks: every block that  *)
(* is allocated is freed by exactly one object.                            *)
(***************************************************************************)
THEOREM NeitherLeakNorDoubleFree == 1 \notin RawBlockSizes => (StorageSpec => []FreedOnce)
<1> SUFFICES ASSUME 1 \notin RawBlockSizes PROVE StorageSpec => []FreedOnce OBVIOUS
<1>1. StorageInv => FreedOnce BY DEF StorageInv, SharedOut, FreedOnce, FreedAtMostOnce, Leaked
<1> QED BY <1>1, StorageInvHolds, PTL

(***************************************************************************)
(* However often the structure of a matrix is set, and whatever it was     *)
(* made from: where its row starts are its own, so are the row ends.       *)
(***************************************************************************)
THEOREM EndsStayWithStarts == StorageSpec => []EndsFollow
<1>1. StorageInv => EndsFollow BY DEF StorageInv, EndsFollow, EndsExist
<1> QED BY <1>1, StorageInvHolds, PTL
=============================================================================
